-------------------------------- MODULE TopNode --------------------------------
(***************************************************************************)
(* The agreement of the validators on which top nodes are off line, as one *)
(* validator runs it (topnode/topNodeService.go, dposRing.go,              *)
(* topNodeState.go, messageCheck.go).                                      *)
(*                                                                         *)
(* The leader of a round asks the validators to confirm nodes that it sees *)
(* off line.  Everyone signs each request, for or against, and sends the   *)
(* votes to the others.  A validator keeps requests and votes in a ring of *)
(* slots, one per request, and notes a request as finished in a second ring*)
(* when its votes pass the DPOS engine.                                    *)
(*                                                                         *)
(* Every message has a goroutine of its own, and a goroutine takes only the*)
(* lock of one slot, or of the ring's counter, at a time.  So a search of  *)
(* the ring, the clearing of a new slot, the adding to it and the          *)
(* evaluation of the votes are steps of their own here.  (A search and the *)
(* counting-up that follows a failed one are one step: a second goroutine  *)
(* can search before the slot is cleared all the same.)                    *)
(*                                                                         *)
(* A request is the pair <<round, node>>, which is also its hash, and      *)
(* <<0, node>> is the hash under which it is finished.  All requests are   *)
(* about off-line nodes: offlineNode stays empty, for modifyTopNodeState is*)
(* never called.  Messages to a group of nodes do not go to the sender.    *)
(***************************************************************************)
EXTENDS Integers, FiniteSets, Sequences

CONSTANTS
    Self,          \* this validator
    Voters,        \* the validators whose votes reach it
    NeededVotes,   \* the DPOS engine's target
    LeaderOf,      \* LeaderOf[r]: the leader of round r
    Lists,         \* Lists[r]: the nodes that another leader asks about in round r
    VoteRounds,    \* bound: the rounds on whose requests the others' votes come in
    OffLine,       \* sequence of the elected nodes whose last 3 states are 0 here
    Capacity       \* slots of each ring: 64 in the code

Rounds == DOMAIN LeaderOf
Nil == <<0, 0>>    \* the zero hash, and a request that is not there

VARIABLES
    msgCheck,      \* leader and round of messageCheck
    rings,         \* the ring of votes ("dpos") and the ring of finished requests ("fin")
    th             \* the goroutines by the message they handle

vars == <<msgCheck, rings, th>>

Slots == 0 .. Capacity - 1
EmptySlot == [hash |-> Nil, prop |-> Nil, votes |-> <<>>, late |-> FALSE]
NewRing == [slot |-> [s \in Slots |-> EmptySlot], last |-> Capacity - 1]

Init ==
    /\ msgCheck = [leader |-> -1, round |-> 0]
    /\ rings = [name \in {"dpos", "fin"} |-> NewRing]
    /\ th = <<>>

(***************************************************************************)
(* Goroutines.  items is what the handler's loop runs over and item i the  *)
(* value of its loop variable; a handler whose loop is over keeps the last.*)
(***************************************************************************)
Thread(items, pc) == [items |-> items, i |-> 1, pc |-> pc, ring |-> "dpos", slot |-> 0,
                      found |-> FALSE, prop |-> Nil, votes |-> <<>>, out |-> <<>>]

Start(id, t) == th' = [x \in DOMAIN th \cup {id} |-> IF x = id THEN t ELSE th[x]]

\* The next turn of the loop, or the end of the goroutine.
Advance(t) == IF t.i < Len(t.items) THEN [t EXCEPT !.i = @ + 1, !.pc = "find", !.ring = "dpos"]
              ELSE [Thread(t.items, "done") EXCEPT !.i = t.i, !.out = t.out]

Item(id) == th[id].items[th[id].i]

\* The hash the goroutine looks for in its ring.
Sought(id) == CASE th[id].ring = "fin" /\ id[1] # "ask" -> <<0, th[id].prop[2]>>
                [] id[1] = "ask" -> <<0, Item(id)>>
                [] id[1] = "req" -> Item(id)
                [] id[1] = "vote" -> Item(id).hash

Max2(a, b) == IF a > b THEN a ELSE b

(***************************************************************************)
(* Messages.                                                               *)
(***************************************************************************)

(***************************************************************************)
(* checkLeaderChangeNotify in the update loop, which drops a notice of a   *)
(* past round, and the start of LeaderChangeNotifyHandler.                 *)
(***************************************************************************)
LeaderNotice(r) ==
    /\ <<"lead", r>> \notin DOMAIN th
    /\ IF r < msgCheck.round
       THEN Start(<<"lead", r>>, Thread(<<>>, "done")) /\ UNCHANGED msgCheck
       ELSE /\ msgCheck' = [leader |-> LeaderOf[r], round |-> r]
            /\ IF LeaderOf[r] = Self
               THEN Start(<<"lead", r>>, Thread(<<>>, "ask"))
               ELSE Start(<<"lead", r>>, Thread(<<>>, "read"))
    /\ UNCHANGED rings

(***************************************************************************)
(* LeaderChangeNotifyHandler on a node that is not the leader: the votes of*)
(* every slot are evaluated again, each in a goroutine of its own.  (Those *)
(* of slots without a request or without votes return at once.)            *)
(***************************************************************************)
ReadSlots(r) ==
    LET id == <<"lead", r>>
        slot == rings["dpos"].slot
        evals == {<<"eval", r, s>> : s \in {s \in Slots : slot[s].prop # Nil /\ slot[s].votes # <<>>}}
        Eval(s) == [Thread(<<>>, "eval") EXCEPT !.prop = slot[s].prop, !.votes = slot[s].votes]
    IN  /\ id \in DOMAIN th /\ th[id].pc = "read"
        /\ th' = [x \in DOMAIN th \cup evals |->
                    IF x \in evals THEN Eval(x[3])
                    ELSE IF x = id THEN [th[x] EXCEPT !.pc = "done"] ELSE th[x]]
        /\ rings' = [rings EXCEPT !["dpos"].slot =
                        [s \in Slots |-> [slot[s] EXCEPT !.late = FALSE]]]
        /\ UNCHANGED msgCheck

(***************************************************************************)
(* The same handler on the leader: checkTopNodeState goes through the nodes*)
(* that are off line and asks about those that are not finished.           *)
(***************************************************************************)
CheckTopNodeState(r) ==
    LET id == <<"lead", r>>
        ask == [Thread(OffLine, IF OffLine = <<>> THEN "done" ELSE "find") EXCEPT !.ring = "fin"]
    IN  /\ id \in DOMAIN th /\ th[id].pc = "ask"
        /\ th' = [x \in DOMAIN th \cup {<<"ask", r>>} |->
                    IF x = <<"ask", r>> THEN ask
                    ELSE IF x = id THEN [th[x] EXCEPT !.pc = "done"] ELSE th[x]]
        /\ UNCHANGED <<msgCheck, rings>>

\* The requests of round r: another leader's, or the ones that this node sent.
RequestsOf(r) ==
    LET nodes == IF LeaderOf[r] # Self THEN Lists[r]
                 ELSE IF <<"ask", r>> \in DOMAIN th /\ th[<<"ask", r>>].pc = "done"
                      THEN th[<<"ask", r>>].out ELSE <<>>
    IN  [k \in 1 .. Len(nodes) |-> <<r, nodes[k]>>]

\* The leader's requests come in.
Request(r) ==
    /\ LeaderOf[r] # Self
    /\ <<"req", r>> \notin DOMAIN th
    /\ Start(<<"req", r>>, Thread(RequestsOf(r), "find"))
    /\ UNCHANGED <<msgCheck, rings>>

\* Validator v's votes on the requests of round r come in.
VotesIn(v, r) ==
    /\ v # LeaderOf[r]
    /\ <<"vote", v, r>> \notin DOMAIN th
    /\ RequestsOf(r) # <<>>
    /\ \E agree \in [1 .. Len(RequestsOf(r)) -> BOOLEAN] :
         Start(<<"vote", v, r>>,
               Thread([k \in 1 .. Len(RequestsOf(r)) |->
                         [hash |-> RequestsOf(r)[k], by |-> v, agree |-> agree[k]]], "find"))
    /\ UNCHANGED <<msgCheck, rings>>

(***************************************************************************)
(* The ring.                                                               *)
(***************************************************************************)

\* insertLast.
NextSlot(last) == (last + 1) % Capacity

\* findProposal: the first slot with the hash, else the next slot of the ring.
FindProposal(id) ==
    LET t == th[id]
        ring == rings[t.ring]
        hits == {s \in Slots : ring.slot[s].hash = Sought(id)}
        last == NextSlot(ring.last)
    IN  IF hits # {}
        THEN /\ th' = [th EXCEPT ![id].pc = "add", ![id].found = TRUE,
                                 ![id].slot = CHOOSE s \in hits : \A x \in hits : s <= x]
             /\ UNCHANGED rings
        ELSE /\ th' = [th EXCEPT ![id].pc = "clear", ![id].found = FALSE, ![id].slot = last]
             /\ rings' = [rings EXCEPT ![t.ring].last = last]

(***************************************************************************)
(* The search of the ring.  A handler of requests first checks the round of*)
(* the request and moves on to it; a request of a past round is left out.  *)
(***************************************************************************)
Find(id) ==
    /\ th[id].pc = "find"
    /\ IF id[1] = "req" /\ id[2] < msgCheck.round
       THEN th' = [th EXCEPT ![id] = Advance(@)] /\ UNCHANGED <<msgCheck, rings>>
       ELSE /\ FindProposal(id)
            /\ msgCheck' = IF id[1] = "req" THEN [msgCheck EXCEPT !.round = Max2(@, id[2])]
                           ELSE msgCheck

\* clear, in insertNewProposal.
Clear(id) ==
    /\ th[id].pc = "clear"
    /\ rings' = [rings EXCEPT ![th[id].ring].slot[th[id].slot] = [EmptySlot EXCEPT !.hash = Sought(id)]]
    /\ th' = [th EXCEPT ![id].pc = "add"]
    /\ UNCHANGED msgCheck

\* What the loop variable holds now to which a stored vote points.
Data(v) == Item(v.at)

\* VerifyHashWithNumber: the validators who signed this hash in favour.
Agreeing(hash, votes) ==
    {Data(votes[k]).by : k \in {k \in DOMAIN votes : Data(votes[k]).hash = hash /\ Data(votes[k]).agree}}

Verified(votes) ==
    votes # <<>> /\ Cardinality(Agreeing(Data(votes[1]).hash, votes)) >= NeededVotes

\* addProposal: a request whose slot did not hold one yet is voted on.
AddProposal(id) ==
    LET t == th[id]
        old == rings["dpos"].slot[t.slot]
        new == ~(t.found /\ old.prop # Nil)
        vote == [hash |-> Item(id), by |-> Self,
                 agree |-> \E k \in DOMAIN OffLine : OffLine[k] = Item(id)[2]]
    IN  /\ id[1] = "req" /\ t.pc = "add"
        /\ rings' = [rings EXCEPT !["dpos"].slot[t.slot] =
                        [old EXCEPT !.prop = Item(id), !.late = Verified(old.votes)]]
        /\ th' = [th EXCEPT ![id] = Advance([@ EXCEPT !.out = IF new THEN Append(@, vote) ELSE @])]
        /\ UNCHANGED msgCheck

\* Mutant of AddVote: the votes are handed on as they were before the new one.
AddVoteBefore(id) ==
    LET t == th[id]
        old == rings["dpos"].slot[t.slot]
    IN  /\ id[1] = "vote" /\ t.pc = "add" /\ t.ring = "dpos"
        /\ IF \E k \in DOMAIN old.votes : old.votes[k].key = Item(id)
           THEN th' = [th EXCEPT ![id] = Advance(@)] /\ UNCHANGED rings
           ELSE /\ rings' = [rings EXCEPT !["dpos"].slot[t.slot].votes =
                               Append(@, [key |-> Item(id), at |-> id])]
                /\ th' = [th EXCEPT ![id].pc = "eval", ![id].prop = old.prop,
                                    ![id].votes = old.votes]
        /\ UNCHANGED msgCheck

(***************************************************************************)
(* addVote: a vote that the slot has not seen is stored, by its hash and a *)
(* pointer to the handler's loop variable, and the votes are evaluated.    *)
(***************************************************************************)
AddVote(id) ==
    LET t == th[id]
        old == rings["dpos"].slot[t.slot]
        votes == Append(old.votes, [key |-> Item(id), at |-> id])
    IN  /\ id[1] = "vote" /\ t.pc = "add" /\ t.ring = "dpos"
        /\ IF \E k \in DOMAIN old.votes : old.votes[k].key = Item(id)
           THEN th' = [th EXCEPT ![id] = Advance(@)] /\ UNCHANGED rings
           ELSE /\ rings' = [rings EXCEPT !["dpos"].slot[t.slot].votes = votes]
                /\ th' = [th EXCEPT ![id].pc = "eval", ![id].prop = old.prop, ![id].votes = votes]
        /\ UNCHANGED msgCheck

(***************************************************************************)
(* consensusVotes: the request must be there and be the present leader's.  *)
(* A past round is only logged.  When the engine accepts the signatures,   *)
(* the request goes into the ring of finished ones.                        *)
(***************************************************************************)
ConsensusVotes(id) ==
    LET t == th[id]
        go == t.prop # Nil /\ LeaderOf[t.prop[1]] = msgCheck.leader /\ Verified(t.votes)
    IN  /\ t.pc = "eval"
        /\ th' = [th EXCEPT ![id] = IF go THEN [@ EXCEPT !.pc = "find", !.ring = "fin"]
                                    ELSE Advance(@)]
        /\ UNCHANGED <<msgCheck, rings>>

\* addProposal of finishedProposal.
Finish(id) ==
    /\ id[1] \in {"vote", "eval"} /\ th[id].pc = "add" /\ th[id].ring = "fin"
    /\ rings' = [rings EXCEPT !["fin"].slot[th[id].slot].prop = th[id].prop]
    /\ th' = [th EXCEPT ![id] = Advance(@)]
    /\ UNCHANGED msgCheck

\* isFinishedPropocal, whose search has made a slot for the node if there was none.
AskNode(id) ==
    LET fresh == rings["fin"].slot[th[id].slot].prop = Nil
        t == [th[id] EXCEPT !.out = IF fresh THEN Append(@, Item(id)) ELSE @]
    IN  /\ id[1] = "ask" /\ th[id].pc = "add"
        /\ th' = [th EXCEPT ![id] = [Advance(t) EXCEPT !.ring = "fin"]]
        /\ UNCHANGED <<msgCheck, rings>>

Next ==
    \/ \E r \in Rounds : LeaderNotice(r) \/ ReadSlots(r) \/ CheckTopNodeState(r) \/ Request(r)
    \/ \E v \in Voters, r \in VoteRounds : VotesIn(v, r)
    \/ \E id \in DOMAIN th : \/ Find(id) \/ Clear(id) \/ AddProposal(id) \/ AddVote(id)
                             \/ ConsensusVotes(id) \/ Finish(id) \/ AskNode(id)

Spec == Init /\ [][Next]_vars

-------------------------------------------------------------------------------

(***************************************************************************)
(* When no goroutine is at work, a request of the present leader whose slot*)
(* holds enough votes is finished, unless all of them were there before the*)
(* request and no notice of a leader came after it: the last vote or the   *)
(* notice evaluated the rest, in whatever order the goroutines ran         *)
(* (consensusVoteMsgHandler, LeaderChangeNotifyHandler).                   *)
(***************************************************************************)
QuorumNoticed ==
    (\A id \in DOMAIN th : th[id].pc = "done") =>
      \A s \in Slots :
        LET d == rings["dpos"].slot[s] IN
        (d.prop # Nil /\ LeaderOf[d.prop[1]] = msgCheck.leader /\ Verified(d.votes) /\ ~d.late)
          => \E f \in Slots : rings["fin"].slot[f].hash = <<0, d.prop[2]>>
                              /\ rings["fin"].slot[f].prop # Nil

===============================================================================
