------------------------------ MODULE EventFeed ------------------------------
(***************************************************************************)
(* One feed of the event centre: mc/center.go starts a goroutine for every *)
(* published value, and event/feed.go delivers the value to all channels   *)
(* that are subscribed.  A subscriber that leaves no longer receives; it   *)
(* interrupts the running Send or takes the send lock itself.              *)
(***************************************************************************)
EXTENDS Naturals, Sequences, FiniteSets, SequencesExt

CONSTANTS
  Values,    \* the values to publish, each of them once
  Channels,  \* the channels that subscribe, each of them once
  Buffer     \* the capacity of a channel

None == "none"

VARIABLES
  pub,       \* pub[v]: where the goroutine that sends v is
  sub,       \* sub[c]: where the owner of c is
  inbox,     \* Feed.inbox
  sendCases, \* Feed.sendCases, without its first element
  active,    \* the length of cases, the prefix of sendCases that waits for v
  index,     \* the index of the fast path
  buf,       \* buf[c]: the values in the channel
  got,       \* got[c]: all values that were put into it
  wanted     \* wanted[v]: the channels subscribed when v was published

vars == <<pub, sub, inbox, sendCases, active, index, buf, got, wanted>>

Sending == {"merge", "try", "select"}

Init ==
  /\ pub = [v \in Values |-> "none"]
  /\ sub = [c \in Channels |-> "none"]
  /\ inbox = <<>> /\ sendCases = <<>> /\ active = 0 /\ index = 1
  /\ buf = [c \in Channels |-> <<>>] /\ got = [c \in Channels |-> <<>>]
  /\ wanted = [v \in Values |-> {}]

(* sendLock is free. *)
Unlocked == \A v \in Values : pub[v] \notin Sending

DeleteFrom(s, c) == Remove(s, c)

(* deactivate: the case and the last active one change places. *)
Swap(s, i, j) == [s EXCEPT ![i] = s[j], ![j] = s[i]]

-----------------------------------------------------------------------------
(* Subscribers *)

Subscribe(c) ==
  /\ sub[c] = "none"
  /\ inbox' = Append(inbox, c)
  /\ sub' = [sub EXCEPT ![c] = "subscribed"]
  /\ UNCHANGED <<pub, sendCases, active, index, buf, got, wanted>>

Receive(c) ==
  /\ sub[c] = "subscribed" /\ buf[c] # <<>>
  /\ buf' = [buf EXCEPT ![c] = Tail(@)]
  /\ UNCHANGED <<pub, sub, inbox, sendCases, active, index, got, wanted>>

(* The owner stops receiving and calls Unsubscribe. *)
Unsubscribe(c) ==
  /\ sub[c] = "subscribed"
  /\ sub' = [sub EXCEPT ![c] = "leaving"]
  /\ UNCHANGED <<pub, inbox, sendCases, active, index, buf, got, wanted>>

(* remove, under Feed.mu: a channel of the inbox needs nothing else. *)
LookInInbox(c) ==
  /\ sub[c] = "leaving"
  /\ sub' = [sub EXCEPT ![c] = IF Contains(inbox, c) THEN "gone" ELSE "remove"]
  /\ inbox' = DeleteFrom(inbox, c)
  /\ UNCHANGED <<pub, sendCases, active, index, buf, got, wanted>>

(* remove, when no Send is in progress. *)
TakeLock(c) ==
  /\ sub[c] = "remove" /\ Unlocked
  /\ sendCases' = DeleteFrom(sendCases, c)
  /\ sub' = [sub EXCEPT ![c] = "gone"]
  /\ UNCHANGED <<pub, inbox, active, index, buf, got, wanted>>

-----------------------------------------------------------------------------
(* PublishEvent and Send *)

Publish(v) ==
  /\ pub[v] = "none"
  /\ pub' = [pub EXCEPT ![v] = "lock"]
  /\ wanted' = [wanted EXCEPT ![v] = {c \in Channels : sub[c] = "subscribed"}]
  /\ UNCHANGED <<sub, inbox, sendCases, active, index, buf, got>>

Lock(v) ==
  /\ pub[v] = "lock" /\ Unlocked
  /\ pub' = [pub EXCEPT ![v] = "merge"]
  /\ UNCHANGED <<sub, inbox, sendCases, active, index, buf, got, wanted>>

(* Under Feed.mu, the inbox becomes part of sendCases. *)
Merge(v) ==
  /\ pub[v] = "merge"
  /\ sendCases' = sendCases \o inbox /\ inbox' = <<>>
  /\ active' = Len(sendCases') /\ index' = 1
  /\ pub' = [pub EXCEPT ![v] = "try"]
  /\ UNCHANGED <<sub, buf, got, wanted>>

Deliver(v, i) ==
  LET c == sendCases[i]
  IN  /\ buf' = [buf EXCEPT ![c] = Append(@, v)]
      /\ got' = [got EXCEPT ![c] = Append(@, v)]
      /\ sendCases' = Swap(sendCases, i, active)
      /\ active' = active - 1

HasRoom(c) == Len(buf[c]) < Buffer

(* The fast path tries one case after the other without blocking. *)
Try(v) ==
  /\ pub[v] = "try" /\ index <= active
  /\ \/ /\ HasRoom(sendCases[index])
        /\ Deliver(v, index)
        /\ index' = index
     \/ /\ ~HasRoom(sendCases[index])
        /\ index' = index + 1
        /\ UNCHANGED <<sendCases, active, buf, got>>
  /\ UNCHANGED <<pub, sub, inbox, wanted>>

(* After the fast path Send ends, or blocks on all the cases left. *)
TryEnds(v) ==
  /\ pub[v] = "try" /\ index > active
  /\ pub' = [pub EXCEPT ![v] = IF active = 0 THEN "done" ELSE "select"]
  /\ active' = active /\ index' = 1
  /\ UNCHANGED <<sub, inbox, sendCases, buf, got, wanted>>

SelectSend(v) ==
  /\ pub[v] = "select"
  /\ \E i \in 1..active : HasRoom(sendCases[i]) /\ Deliver(v, i)
  /\ pub' = [pub EXCEPT ![v] = "try"]
  /\ UNCHANGED <<sub, inbox, index, wanted>>

(* A mutant of SelectRemove: cases shrinks in any case. *)
SelectRemoveShrinks(v) ==
  /\ pub[v] = "select"
  /\ \E c \in Channels :
       /\ sub[c] = "remove"
       /\ sub' = [sub EXCEPT ![c] = "gone"]
       /\ sendCases' = DeleteFrom(sendCases, c)
       /\ active' = active - 1
  /\ pub' = [pub EXCEPT ![v] = "try"]
  /\ UNCHANGED <<inbox, index, buf, got, wanted>>

(* A mutant of SelectRemove: Send does not wait for removeSub. *)
SelectRemoveNever(v) == FALSE

(* A subscriber that leaves is removed; cases shrinks if it was waiting    *)
(* for the value still.                                                    *)
SelectRemove(v) ==
  /\ pub[v] = "select"
  /\ \E c \in Channels :
       /\ sub[c] = "remove"
       /\ sub' = [sub EXCEPT ![c] = "gone"]
       /\ sendCases' = DeleteFrom(sendCases, c)
       /\ active' = IF \E i \in 1..active : sendCases[i] = c THEN active - 1 ELSE active
  /\ pub' = [pub EXCEPT ![v] = "try"]
  /\ UNCHANGED <<inbox, index, buf, got, wanted>>

SendStep(v) ==
  \/ Lock(v) \/ Merge(v) \/ Try(v) \/ TryEnds(v) \/ SelectSend(v) \/ SelectRemove(v)

Next ==
  \/ \E v \in Values : Publish(v) \/ SendStep(v)
  \/ \E c \in Channels :
       Subscribe(c) \/ Receive(c) \/ Unsubscribe(c) \/ LookInInbox(c) \/ TakeLock(c)

Spec == Init /\ [][Next]_vars

-----------------------------------------------------------------------------
(* When Send returns, every channel that was subscribed before PublishEvent *)
(* and has not called Unsubscribe has got the value.                        *)
NobodyIsLeftOut ==
  \A v \in Values : pub[v] = "done" =>
    \A c \in wanted[v] : sub[c] = "subscribed" => Contains(got[c], v)

(* Every Send ends, although channels are full and subscribers leave       *)
(* without emptying them.                                                  *)
SendEnds == \A v \in Values : pub[v] = "lock" ~> pub[v] = "done"

=============================================================================
