-------------------------------- MODULE TopGen ---------------------------------
(***************************************************************************)
(* The generation of the next topology (reelection/topGen.go, handlemsg.go,*)
(* checkGen.go, reelection.go) with the two services that answer it        *)
(* (random/electionseed.go, election/election.go).                         *)
(*                                                                         *)
(* Shortly before each re-election the miners' and then the validators'    *)
(* topology are generated: the service asks for a seed, sends the seed to  *)
(* the election, and writes the answer to its database.  An answer comes   *)
(* through a channel that all calls share; a call subscribes the channel,  *)
(* publishes its request, takes the first thing that the channel has, or   *)
(* gives up after two seconds, and unsubscribes.                           *)
(*                                                                         *)
(* The role updates do this under a lock.  A read of the topology          *)
(* (GetElection, GetNetTopologyAll) that finds nothing in the database does*)
(* it again without the lock (checkTopGenStatus).                          *)
(*                                                                         *)
(* The seed of a generation at height h is h itself, and a topology is the *)
(* pair of its height and the seed it was made from.                       *)
(***************************************************************************)
EXTENDS Integers, Sequences, FiniteSets

CONSTANTS
    Heights,       \* heights of the generations, 1 .. the last
    Callers,       \* subset of {"role", "read"}
    MaxReads,      \* bound: reads of the topology
    ChanSize       \* room of a channel: 10 in the code

None == <<0, 0>>
Kinds == {"miner", "validator"}
Chans == {"seed"} \cup Kinds

VARIABLES
    height,        \* height of the chain
    waiting,       \* role updates that wait for the lock
    db,            \* db[h][kind]: the topology stored for the generation at h
    chan,          \* chan[c]: what is in a channel
    subs,          \* subs[c]: live subscriptions
    sub,           \* sub[c]: the field electionSeedSub, minerGenSub or validatorGenSub
    nextSub,       \* subscriptions made
    pending,       \* requests that are published and not answered
    call,          \* call[p]: the generation that caller p is at
    gaveUp,        \* gaveUp[c]: waits on a channel that were given up
    reads          \* reads of the topology

vars == <<height, waiting, db, chan, subs, sub, nextSub, pending, call, gaveUp, reads>>

Idle == [pc |-> "idle", h |-> 0, kind |-> "miner", val |-> None]

Init ==
    /\ height = 0
    /\ waiting = {}
    /\ db = [h \in Heights |-> [k \in Kinds |-> None]]
    /\ chan = [c \in Chans |-> <<>>]
    /\ subs = [c \in Chans |-> {}]
    /\ sub = [c \in Chans |-> 0]
    /\ nextSub = 1
    /\ pending = {}
    /\ call = [p \in Callers |-> Idle]
    /\ gaveUp = [c \in Chans |-> 0]
    /\ reads = 0

\* The channel on which the call now waits.
ChanOf(p) == IF call[p].pc \in {"seedsub", "seedwait", "seedend"} THEN "seed" ELSE call[p].kind

(***************************************************************************)
(* The chain reaches the next height with a generation.  update starts a   *)
(* goroutine for the role update, which ends at once if the node is not a  *)
(* validator.                                                              *)
(***************************************************************************)
Reach(h) ==
    /\ h = height + 1
    /\ height' = h
    /\ waiting' \in {waiting, waiting \cup {h}}
    /\ UNCHANGED <<db, chan, subs, sub, nextSub, pending, call, gaveUp, reads>>

\* A role update that waits gets the lock and begins with the miners' topology.
RoleUpdate(h) ==
    /\ "role" \in Callers /\ call["role"].pc = "idle"
    /\ h \in waiting
    /\ waiting' = waiting \ {h}
    /\ call' = [call EXCEPT !["role"] = [Idle EXCEPT !.pc = "seedsub", !.h = h]]
    /\ UNCHANGED <<height, db, chan, subs, sub, nextSub, pending, gaveUp, reads>>

\* checkTopGenStatus, called by a read of the topology that follows the generation at h.
Missing(h) == {k \in Kinds : db[h][k] = None}

ReadTopology(h) ==
    /\ "read" \in Callers /\ call["read"].pc = "idle"
    /\ h <= height /\ Missing(h) # {}
    /\ reads < MaxReads
    /\ reads' = reads + 1
    /\ call' = [call EXCEPT !["read"] = [Idle EXCEPT !.pc = "seedsub", !.h = h,
                   !.kind = IF "miner" \in Missing(h) THEN "miner" ELSE "validator"]]
    /\ UNCHANGED <<height, waiting, db, chan, subs, sub, nextSub, pending, gaveUp>>

(***************************************************************************)
(* The beginning of GetSeed, and the middle of ToGenMinerTop and           *)
(* ToGenValidatorTop: the channel is subscribed and the request published. *)
(***************************************************************************)
Ask(p) ==
    LET c == ChanOf(p) IN
    /\ call[p].pc \in {"seedsub", "gensub"}
    /\ subs' = [subs EXCEPT ![c] = @ \cup {nextSub}]
    /\ sub' = [sub EXCEPT ![c] = nextSub]
    /\ nextSub' = nextSub + 1
    /\ pending' = pending \cup {[id |-> nextSub, chan |-> c, h |-> call[p].h, seed |-> call[p].val]}
    /\ call' = [call EXCEPT ![p].pc = IF c = "seed" THEN "seedwait" ELSE "genwait"]
    /\ UNCHANGED <<height, waiting, db, chan, gaveUp, reads>>

\* randomSeedReqHandle: the seed of a request depends on its height alone.
SeedOf(r) == <<r.h, 0>>

\* Listen: a topology depends on the deposits at the height and on the seed.
Elected(r) == <<r.h, r.seed[1]>>

\* A service publishes its answer to a request (PublishEvent, Post): it goes into the
\* channel once for every live subscription, and nowhere if there is none.
Answer(r) ==
    LET val == IF r.chan = "seed" THEN SeedOf(r) ELSE Elected(r)
        copies == [i \in 1 .. Cardinality(subs[r.chan]) |-> val]
    IN  /\ Len(chan[r.chan]) + Len(copies) <= ChanSize
        /\ chan' = [chan EXCEPT ![r.chan] = @ \o copies]
        /\ pending' = pending \ {r}
        /\ UNCHANGED <<height, waiting, db, subs, sub, nextSub, call, gaveUp, reads>>

\* The select takes what the channel has.
Receive(p) ==
    LET c == ChanOf(p) IN
    /\ call[p].pc \in {"seedwait", "genwait"} /\ chan[c] # <<>>
    /\ call' = [call EXCEPT ![p].pc = IF c = "seed" THEN "seedend" ELSE "genend",
                            ![p].val = Head(chan[c])]
    /\ chan' = [chan EXCEPT ![c] = Tail(@)]
    /\ UNCHANGED <<height, waiting, db, subs, sub, nextSub, pending, gaveUp, reads>>

\* The select gives up after Time_Out_Limit, when nothing is in the channel.
TimeOut(p) ==
    LET c == ChanOf(p) IN
    /\ call[p].pc \in {"seedwait", "genwait"} /\ chan[c] = <<>>
    /\ gaveUp' = [gaveUp EXCEPT ![c] = @ + 1]
    /\ call' = [call EXCEPT ![p].pc = IF c = "seed" THEN "seedend" ELSE "genend", ![p].val = None]
    /\ UNCHANGED <<height, waiting, db, chan, subs, sub, nextSub, pending, reads>>

\* Unsubscribe ends the subscription that the field holds now.
Released(p) == subs[ChanOf(p)] \ {sub[ChanOf(p)]}

(***************************************************************************)
(* What the caller does when one of its topologies is done or has failed:  *)
(* HandleTopGen goes on to the validators in any case, checkTopGenStatus   *)
(* only after a success and if theirs is missing.                          *)
(***************************************************************************)
AfterGen(p, ok, d) ==
    IF call[p].kind = "miner" /\ (p = "role" \/ (ok /\ d[call[p].h]["validator"] = None))
    THEN [Idle EXCEPT !.pc = "seedsub", !.h = call[p].h, !.kind = "validator"]
    ELSE Idle

\* The list of deposits cannot be read: the topology fails before it asks for anything.
NoDeposits(p) ==
    /\ call[p].pc = "seedsub"
    /\ call' = [call EXCEPT ![p] = AfterGen(p, FALSE, db)]
    /\ UNCHANGED <<height, waiting, db, chan, subs, sub, nextSub, pending, gaveUp, reads>>

\* The end of GetSeed.
EndSeed(p) ==
    /\ call[p].pc = "seedend"
    /\ subs' = [subs EXCEPT !["seed"] = Released(p)]
    /\ call' = [call EXCEPT ![p] = IF @.val = None THEN AfterGen(p, FALSE, db)
                                   ELSE [@ EXCEPT !.pc = "gensub"]]
    /\ UNCHANGED <<height, waiting, db, chan, sub, nextSub, pending, gaveUp, reads>>

\* Mutant of EndGen: the topology is stored for the re-election that the chain is at.
EndGenCurrent(p) ==
    LET c == call[p] IN
    /\ c.pc = "genend"
    /\ subs' = [subs EXCEPT ![c.kind] = Released(p)]
    /\ \E stored \in {c.val # None, FALSE} :
         /\ db' = IF stored THEN [db EXCEPT ![height][c.kind] = c.val] ELSE db
         /\ call' = [call EXCEPT ![p] = AfterGen(p, stored, db')]
    /\ UNCHANGED <<height, waiting, chan, sub, nextSub, pending, gaveUp, reads>>

\* The end of ToGenMinerTop and ToGenValidatorTop, with writeElectData,
\* which may fail.
EndGen(p) ==
    LET c == call[p] IN
    /\ c.pc = "genend"
    /\ subs' = [subs EXCEPT ![c.kind] = Released(p)]
    /\ \E stored \in {c.val # None, FALSE} :
         /\ db' = IF stored THEN [db EXCEPT ![c.h][c.kind] = c.val] ELSE db
         /\ call' = [call EXCEPT ![p] = AfterGen(p, stored, db')]
    /\ UNCHANGED <<height, waiting, chan, sub, nextSub, pending, gaveUp, reads>>

Step(p) == NoDeposits(p) \/ Ask(p) \/ Receive(p) \/ TimeOut(p) \/ EndSeed(p) \/ EndGen(p)

Next ==
    \/ \E h \in Heights : Reach(h) \/ RoleUpdate(h) \/ ReadTopology(h)
    \/ \E p \in Callers : Step(p)
    \/ \E r \in pending : Answer(r)

\* The goroutine of a call runs.  A service may fail to answer.
Spec == Init /\ [][Next]_vars /\ \A p \in Callers : WF_vars(Step(p))

-------------------------------------------------------------------------------

\* The topology stored for a generation was made for it, from its own seed.
Own(h, k) == db[h][k] \in {None, <<h, h>>}

(***************************************************************************)
(* As long as no call under the lock has given up, what is stored for a    *)
(* height was made for this height and from this height's seed: the shared *)
(* channels hand each call its own answer (GetSeed, writeElectData).       *)
(***************************************************************************)
WrongOnlyAfterTimeout ==
    (\A c \in Chans : gaveUp[c] = 0) => \A h \in Heights, k \in Kinds : Own(h, k)

===============================================================================
