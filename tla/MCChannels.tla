------------------------------ MODULE MCChannels ------------------------------
(***************************************************************************)
(* The two places where a goroutine waits at a full channel, each explored *)
(* by itself: part says which of them runs, the manager of the leader      *)
(* controllers or a feed of the event centre, and the other one stays as it*)
(* is at the start.                                                        *)
(*                                                                         *)
(* The manager sees two blocks, the second announced by a ready and by a   *)
(* role message, and three messages, one of them an inquiry.  All channels *)
(* have one place, so that a second value blocks.                          *)
(***************************************************************************)
EXTENDS CtrlManager, TLC

CONSTANTS u1, u2, c1, c2

VARIABLES part, pub, sub, inbox, sendCases, active, index, buf, got, wanted

feedVars == <<pub, sub, inbox, sendCases, active, index, buf, got, wanted>>

MCStartNumber == "ready1" :> 1 @@ "ready2" :> 2 @@ "role2" :> 2
MCMsgNumber == "inquiry" :> 1 @@ "pos" :> 1 @@ "vote" :> 2
MCInquiries == {"inquiry"}

Values == {u1, u2}
Channels == {c1, c2}

Feed == INSTANCE EventFeed WITH Buffer <- 1

MCInit ==
    /\ part \in {"manager", "feed"}
    /\ Init
    /\ Feed!Init

MCNext ==
    \/ part = "manager" /\ Next /\ UNCHANGED <<part, feedVars>>
    \/ part = "feed" /\ Feed!Next /\ UNCHANGED <<part, vars>>

\* The fairness of CtrlManager and that of EventFeed, each for the part that runs.
MCFairness ==
    /\ \A h \in Starters : WF_vars(part = "manager" /\ (StartLock(h) \/ StartSend(h)))
    /\ \A h \in Receivers :
           WF_vars(part = "manager" /\ (GetController(h) \/ InquiryGetCur(h) \/ Send(h)))
    /\ \A c \in 1 .. Cardinality(Starters \cup Receivers) :
           WF_vars(part = "manager" /\ c \in DOMAIN ctrls /\ (Run(c) \/ Quit(c)))
    /\ \A v \in Values : WF_feedVars(part = "feed" /\ Feed!SendStep(v))
    /\ \A c \in Channels :
           /\ WF_feedVars(part = "feed" /\ Feed!Receive(c))
           /\ WF_feedVars(part = "feed" /\ Feed!LookInInbox(c))
           /\ WF_feedVars(part = "feed" /\ Feed!TakeLock(c))

MCSpec == MCInit /\ [][MCNext]_<<part, vars, feedVars>> /\ MCFairness

\* When Send returns, every channel that was subscribed before PublishEvent and has not
\* called Unsubscribe has got the value.
NobodyIsLeftOut == Feed!NobodyIsLeftOut

\* Every Send ends, although channels are full and subscribers leave without emptying
\* them.
SendEnds == Feed!SendEnds
===============================================================================
