-------------------------------- MODULE Fetcher --------------------------------
(***************************************************************************)
(* The fetcher of announced blocks (man/fetcher/fetcher.go): peers announce*)
(* hashes, the fetcher asks one of them for the header, then for the body, *)
(* and imports the block once its parent's number is reached.  All state   *)
(* belongs to the goroutine of loop; imports run in goroutines of their own*)
(* and report back.                                                        *)
(*                                                                         *)
(* The record f is the Fetcher.  A round of the loop is one step: an event *)
(* and then the work at the head of the loop, which the code does before it*)
(* waits again.  Time is abstracted to what a timer or a timeout may find  *)
(* expired, an announcement to its origin, whether the number it promises  *)
(* is right, and whether its header has come.                              *)
(***************************************************************************)
EXTENDS Integers, FiniteSets, SequencesExt

CONSTANTS
    Peers, Hashes,
    Number,        \* Number[h]: number of block h, from 1
    Parent,        \* Parent[h]: its parent, a hash or Genesis
    Body,          \* Body[h]: its transactions and uncles, or "empty"
    Genesis,
    Nil,           \* no announcement, no peer
    HashLimit,     \* hashLimit: 256
    BlockLimit,    \* blockLimit: 64
    MaxUncleDist,  \* maxUncleDist: 7
    MaxQueueDist,  \* maxQueueDist: 32
    MaxSame,       \* bound: announcements of one hash at a time
    MinCount       \* bound: how far below zero the counter of a peer may be to announce

VARIABLES
    f,             \* the Fetcher
    inserting,     \* inserting[h]: the goroutine of insert, "none", "run" or "done"
    chain          \* blocks that getBlock finds

vars == <<f, inserting, chain>>

Height == Max({Number[h] : h \in chain \ {Genesis}} \cup {0})

\* The number is neither too old nor too far ahead.
InRange(n) == n - Height >= -MaxUncleDist /\ n - Height <= MaxQueueDist

New ==
    [announces |-> [p \in Peers |-> 0],
     announced |-> [h \in Hashes |-> <<>>],
     fetching |-> [h \in Hashes |-> Nil],
     fetched |-> [h \in Hashes |-> Nil],
     completing |-> [h \in Hashes |-> Nil],
     queue |-> {},
     queues |-> [p \in Peers |-> 0],
     queued |-> [h \in Hashes |-> Nil],      \* the origin of a queued block
     fetchTimer |-> TRUE, completeTimer |-> TRUE]

Init == f = New /\ inserting = [h \in Hashes |-> "none"] /\ chain = {Genesis}

-------------------------------------------------------------------------------
Announced(s) == {h \in Hashes : s.announced[h] # <<>>}
Fetched(s) == {h \in Hashes : s.fetched[h] # Nil}

By(s, p, h) == Cardinality({i \in DOMAIN s.announced[h] : s.announced[h][i].origin = p})

\* 1 if the announcement a is of peer p.
Is(a, p) == IF a # Nil /\ a.origin = p THEN 1 ELSE 0

\* The counters go down for every trace of the hash; an entry of 0 is deleted.
forgetHash(s, h) ==
    [s EXCEPT
        !.announces = [p \in Peers |->
            s.announces[p] - By(s, p, h) - Is(s.fetching[h], p) - Is(s.fetched[h], p)
                - Is(s.completing[h], p)],
        !.announced[h] = <<>>, !.fetching[h] = Nil, !.fetched[h] = Nil,
        !.completing[h] = Nil]

forgetHashes(s, H) == FoldSet(LAMBDA h, t : forgetHash(t, h), s, H)

forgetBlock(s, h) ==
    IF s.queued[h] = Nil THEN s
    ELSE [s EXCEPT !.queues[s.queued[h]] = @ - 1, !.queued[h] = Nil]

enqueue(s, p, h) ==
    IF s.queues[p] + 1 > BlockLimit \/ ~InRange(Number[h])
    THEN forgetHash(s, h)
    ELSE IF s.queued[h] # Nil
    THEN s
    ELSE [s EXCEPT !.queues[p] = @ + 1, !.queued[h] = p, !.queue = @ \cup {h}]

enqueueAll(s, p, order) == FoldLeft(LAMBDA t, h : enqueue(t, p, h), s, order)

-------------------------------------------------------------------------------
(***************************************************************************)
(* The head of the loop: fetches that have expired are forgotten, but not  *)
(* those begun in this round, which is much shorter than fetchTimeout.  The*)
(* queue is emptied up to the number after the head of the chain.          *)
(***************************************************************************)
Expire(s) ==
    {forgetHashes(s, E) :
        E \in SUBSET {h \in Hashes : s.fetching[h] # Nil /\ f.fetching[h] # Nil}}

Due(s) == {h \in s.queue : Number[h] <= Height + 1}

\* A block that is due is not imported if it is too old or known.
Useless(h) == Number[h] + MaxUncleDist < Height \/ h \in chain

\* Mutant of Pop: a block is forgotten when its import begins.
PopForgets(s) ==
    [FoldSet(LAMBDA h, t : forgetBlock(t, h), s, Due(s)) EXCEPT !.queue = @ \ Due(s)]

Pop(s) ==
    [FoldSet(LAMBDA h, t : forgetBlock(t, h), s, {h \in Due(s) : Useless(h)})
        EXCEPT !.queue = @ \ Due(s)]

\* A round of the loop that an event has taken to s; done is the import that has ended.
Round(s, done) ==
    \E e \in Expire(s) :
        /\ f' = Pop(e)
        /\ inserting' = [h \in Hashes |->
               IF h \in Due(e) /\ ~Useless(h) THEN "run"
               ELSE IF h \in done THEN "none" ELSE inserting[h]]
        /\ UNCHANGED chain

-------------------------------------------------------------------------------

\* A notification; a wrong number may be in range or not.
Notify(p, h, right) ==
    /\ Len(f.announced[h]) < MaxSame /\ f.announces[p] >= MinCount
    /\ IF \/ f.announces[p] + 1 > HashLimit
          \/ right /\ ~InRange(Number[h])
          \/ f.fetching[h] # Nil \/ f.completing[h] # Nil
       THEN Round(f, {})
       ELSE Round([f EXCEPT
                !.announces[p] = @ + 1,
                !.announced[h] = Append(@, [origin |-> p, right |-> right, header |-> FALSE]),
                !.fetchTimer = @ \/ Announced(f) \subseteq {h}], {})

Inject(p, h) == Round(enqueue(f, p, h), {})

Done(h) ==
    /\ inserting[h] = "done"
    /\ Round(forgetBlock(forgetHash(f, h), h), {h})

\* fetchTimer fires: the announcements E are old enough, pick is the peer asked for each.
FetchTimer(E, pick) ==
    /\ f.fetchTimer
    /\ LET s == forgetHashes(f, E)
       IN  Round([s EXCEPT
               !.fetching = [h \in Hashes |->
                   IF h \in E /\ h \notin chain THEN f.announced[h][pick[h]] ELSE s.fetching[h]],
               !.fetchTimer = Announced(s) # {}], {})

\* completeTimer fires: a body is asked for each header that was fetched.
CompleteTimer ==
    /\ f.completeTimer
    /\ LET s == forgetHashes(f, Fetched(f))
       IN  Round([s EXCEPT
               !.completing = [h \in Hashes |->
                   IF h \in Fetched(f) /\ h \notin chain THEN f.fetched[h] ELSE s.completing[h]],
               !.completeTimer = FALSE], {})

\* announce.header = header; the object is the one in fetching.
Kept(s, h) == [s EXCEPT !.fetching[h].header = TRUE]

\* A header from peer p; FilterHeaders is only called with one.
FilterHeaders(p, h) ==
    LET s == Kept(f, h)
        a == s.fetching[h]
    IN  IF \/ f.fetching[h] = Nil \/ f.fetching[h].origin # p
           \/ f.fetched[h] # Nil \/ f.completing[h] # Nil \/ f.queued[h] # Nil
        THEN Round(f, {})
        ELSE IF ~f.fetching[h].right \/ h \in chain
        THEN Round(forgetHash(f, h), {})
        ELSE IF Body[h] = "empty"
        THEN Round(enqueue([s EXCEPT !.completing[h] = a], p, h), {})
        ELSE Round([s EXCEPT !.fetched[h] = a,
                             !.completeTimer = @ \/ Fetched(s) = {}], {})

\* The completions that bodies D of peer p belong to.
Matched(p, D) ==
    {h \in Hashes : /\ f.completing[h] # Nil /\ f.queued[h] = Nil
                    /\ f.completing[h].origin = p /\ Body[h] \in D}

\* Bodies D from peer p, in the order of the message and of a Go map.
FilterBodies(p, D) ==
    LET M == Matched(p, D)
    IN  \E order \in SetToSeqs(M \ chain) :
            Round(enqueueAll(forgetHashes(f, M \cap chain), p, order), {})

\* The goroutine of insert: without its parent, with a bad header or when InsertChain
\* fails the block does not get into the chain.
Insert(h) ==
    /\ inserting[h] = "run"
    /\ \/ Parent[h] \in chain /\ chain' = chain \cup {h}
       \/ UNCHANGED chain
    /\ inserting' = [inserting EXCEPT ![h] = "done"]
    /\ UNCHANGED f

\* The downloader or the block generator inserts a block.
OtherInsert(h) ==
    /\ h \notin chain /\ Parent[h] \in chain
    /\ chain' = chain \cup {h}
    /\ UNCHANGED <<f, inserting>>

Next ==
    \/ \E p \in Peers, h \in Hashes :
          \/ \E right \in BOOLEAN : Notify(p, h, right)
          \/ Inject(p, h)
          \/ FilterHeaders(p, h)
    \/ \E p \in Peers, D \in SUBSET {Body[h] : h \in Hashes} : FilterBodies(p, D)
    \/ \E E \in SUBSET Announced(f), pick \in [Hashes -> 1 .. MaxSame] :
          /\ \A h \in E : pick[h] \in DOMAIN f.announced[h]
          /\ \A h \in Hashes \ E : pick[h] = 1
          /\ FetchTimer(E, pick)
    \/ CompleteTimer
    \/ \E h \in Hashes : Done(h) \/ Insert(h) \/ OtherInsert(h)

Spec == Init /\ [][Next]_vars

-------------------------------------------------------------------------------

\* A block in the queue or in an import, and no other, is queued: so a block is imported by
\* one goroutine at a time, and none is left behind in the map that dedupes imports.
OneImport ==
    /\ {h \in Hashes : f.queued[h] # Nil} = f.queue \cup {h \in Hashes : inserting[h] # "none"}
    /\ \A h \in f.queue : inserting[h] = "none"

===============================================================================
