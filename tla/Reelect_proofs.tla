---------------------------- MODULE Reelect_proofs -----------------------------
(***************************************************************************)
(* Proofs about the re-election of a leader, for every number of           *)
(* validators, every threshold and every bound on turns and sendings.      *)
(*                                                                         *)
(* The property of interest, BuiltOnQuorum, is about validators that took a*)
(* turn; what a validator takes is a result message.  The invariant follows*)
(* the votes on their way: a vote on the network, a vote in a master's     *)
(* cache and a vote in a result are all by validators that took the        *)
(* consensus turn that the voted request starts from.                      *)
(*                                                                         *)
(* MasterLast is about the answers to a result; LInv follows them in the   *)
(* same way, and the time stamps that tell a master's results apart.       *)
(***************************************************************************)
EXTENDS Reelect, DposQuorum_proofs

\* What a result says, and the caches and controllers, as sets.
BoundedInquiries == {q \in Inquiries : q.c + q.r <= MaxTurn}
BoundedRequests == [type : {"req"}, inq : BoundedInquiries, ts : Nat]
PosWhats == [kind : {"POS"}, pos : Turns]
AgreeWhats == [kind : {"Agree"}, req : BoundedRequests, votes : SUBSET Node]
Whats == PosWhats \cup AgreeWhats
Caches == [result : {"None", "Agree", "POS"}, inq : BoundedInquiries \cup {None},
           agrees : SUBSET Node, req : BoundedRequests \cup {None}, votes : SUBSET Node,
           bc : [what : Whats, ts : Nat] \cup {None}, rsps : SUBSET Node]
Controllers == [state : {"stPos", "stReelect", "stMining"}, turn : Turns, reelect : Turns,
                pos : Seq(Turns), via : Node, cache : Caches]
Adoptions == [Turns -> SUBSET Node]

\* The votes of a result are by validators that took the turn it starts from.
WhatOK(w, A) == w \in Whats /\ (w.kind = "Agree" => w.votes \subseteq A[w.req.inq.c])

\* The master took the turn that its inquiry and its request start from, and so did
\* those who voted for it.  What it sends again when its timer ends is there.
InquiryOK(n, c, A) == c.inq = None \/ (c.inq \in BoundedInquiries /\ n \in A[c.inq.c])
RequestOK(n, c, A) ==
    /\ c.req = None \/ (c.req \in BoundedRequests /\ c.votes \cup {n} \subseteq A[c.req.inq.c])
    /\ c.result = "Agree" => c.req \in BoundedRequests /\ n \in A[c.req.inq.c]
BroadcastOK(c, A) ==
    /\ c.bc = None \/ WhatOK(c.bc.what, A)
    /\ c.result = "POS" => WhatOK(c.bc.what, A)
CacheOK(n, c, A) == InquiryOK(n, c, A) /\ RequestOK(n, c, A) /\ BroadcastOK(c, A)

NodeOK(n, x, A) == n \in A[x.turn] /\ x.turn + x.reelect <= MaxTurn /\ CacheOK(n, x.cache, A)

MsgOK(m, A) ==
    /\ m.type = "answer" => /\ m.by \in Node /\ m.what.kind \in {"POS", "Agree"}
                            /\ m.what.kind = "POS" => m.what \in PosWhats
    /\ m.type = "vote" => /\ m.by \in Node /\ m.req.inq.c \in Turns
                          /\ m.by \in A[m.req.inq.c]
    /\ m.type = "result" => m.m \in Node /\ WhatOK(m.bc, A)
    /\ m.type = "rsp" => m.by \in Node

IInv ==
    /\ nd \in [Node -> Controllers]
    /\ stamp \in [Node -> 0 .. MaxSends]
    /\ adopted \in Adoptions
    /\ from \in [Turns -> SUBSET Turns]
    /\ \A n \in Node : NodeOK(n, nd[n], adopted)
    /\ \A m \in msgs : MsgOK(m, adopted)
    /\ BuiltOnQuorum

-------------------------------------------------------------------------------
\* A set of validators with a quorum in it is a quorum.
LEMMA QuorumGrows ==
    ASSUME NEW S, NEW T, IsQuorum(S, Node), S \subseteq T, T \subseteq Node
    PROVE  IsQuorum(T, Node)
<1>1. IsFiniteSet(Node)
  BY FS_Interval, BoundsAssumption DEF Node
<1>2. IsFiniteSet(T)
  BY <1>1, FS_Subset
<1>3. Cardinality(S) <= Cardinality(T) /\ IsFiniteSet(S)
  BY <1>2, FS_Subset
<1>4. Cardinality(S) \in Nat /\ Cardinality(T) \in Nat /\ Cardinality(Node) \in Nat
  BY <1>1, <1>2, <1>3, FS_CardinalityType
<1>5. Cardinality(Node) >= 3
  BY <1>4, MinStockCountAssumption DEF IsQuorum
<1>6. TargetCount(Cardinality(Node)) \in Nat
  BY <1>4, <1>5, TargetBounds
<1> QED
  BY <1>3, <1>4, <1>6 DEF IsQuorum

\* What holds of the votes goes on holding when more validators take turns.
Grown(A, B) == A \in Adoptions /\ B \in Adoptions /\ \A t \in Turns : A[t] \subseteq B[t]

\* A result's votes stay good as the history of turns taken grows.
LEMMA WhatGrows ==
    ASSUME NEW A, NEW B, Grown(A, B), NEW w, WhatOK(w, A)
    PROVE  WhatOK(w, B)
<1>1. CASE w.kind = "Agree"
  <2>1. w \in AgreeWhats
    BY <1>1 DEF WhatOK, Whats, PosWhats
  <2>2. w.req.inq.c \in Turns
    BY <2>1 DEF AgreeWhats, BoundedRequests, BoundedInquiries, Inquiries
  <2> QED
    BY <2>2 DEF WhatOK, Grown
<1>2. CASE w.kind # "Agree"
  BY <1>2 DEF WhatOK
<1> QED
  BY <1>1, <1>2

\* The same for a master's cache.
LEMMA CacheGrows ==
    ASSUME NEW A, NEW B, Grown(A, B), NEW n \in Node, NEW c \in Caches, CacheOK(n, c, A)
    PROVE  CacheOK(n, c, B)
<1>1. InquiryOK(n, c, B)
  BY DEF CacheOK, InquiryOK, BoundedInquiries, Inquiries, Grown
<1>2. ASSUME c.req \in BoundedRequests PROVE c.req.inq.c \in Turns
  BY <1>2 DEF BoundedRequests, BoundedInquiries, Inquiries
<1>3. RequestOK(n, c, B)
  BY <1>2 DEF CacheOK, RequestOK, Grown
<1>4. BroadcastOK(c, B)
  BY WhatGrows DEF CacheOK, BroadcastOK
<1> QED
  BY <1>1, <1>3, <1>4 DEF CacheOK

\* The same for a controller.
LEMMA NodeGrows ==
    ASSUME NEW A, NEW B, Grown(A, B), NEW n \in Node, NEW x \in Controllers, NodeOK(n, x, A)
    PROVE  NodeOK(n, x, B)
<1>1. x.cache \in Caches /\ x.turn \in Turns
  BY DEF Controllers
<1>2. CacheOK(n, x.cache, B)
  BY <1>1, CacheGrows DEF NodeOK
<1> QED
  BY <1>1, <1>2 DEF NodeOK, Grown

\* The same for a message.
LEMMA MsgGrows ==
    ASSUME NEW A, NEW B, Grown(A, B), NEW m, MsgOK(m, A)
    PROVE  MsgOK(m, B)
<1>1. m.type = "vote" => m.by \in Node /\ m.req.inq.c \in Turns /\ m.by \in B[m.req.inq.c]
  BY DEF MsgOK, Grown
<1>2. m.type = "result" => m.m \in Node /\ WhatOK(m.bc, B)
  BY WhatGrows DEF MsgOK
<1> QED
  BY <1>1, <1>2 DEF MsgOK

-------------------------------------------------------------------------------
\* A step of validator n moves its own controller, not to an earlier turn, and adds
\* messages; both are as the invariant wants them, for the turns taken A.
Moves(n, A) ==
    /\ nd' = [nd EXCEPT ![n] = nd'[n]]
    /\ nd'[n] \in Controllers /\ NodeOK(n, nd'[n], A) /\ nd'[n].turn >= nd[n].turn
    /\ stamp' \in [Node -> 0 .. MaxSends]
    /\ \A m \in msgs' : m \in msgs \/ MsgOK(m, A)

\* Such a step keeps the invariant, if it keeps the history in order.
LEMMA MovesKeepIInv ==
    ASSUME IInv, NEW n \in Node, Grown(adopted, adopted'), Moves(n, adopted'),
           from' \in [Turns -> SUBSET Turns], BuiltOnQuorum'
    PROVE  IInv'
<1>1. nd' \in [Node -> Controllers]
  BY DEF IInv, Moves
<1>2. \A k \in Node : NodeOK(k, nd'[k], adopted')
  <2> SUFFICES ASSUME NEW k \in Node PROVE NodeOK(k, nd'[k], adopted')
    OBVIOUS
  <2>1. CASE k = n
    BY <2>1 DEF Moves
  <2>2. CASE k # n
    <3>1. nd'[k] = nd[k] /\ nd[k] \in Controllers /\ NodeOK(k, nd[k], adopted)
      BY <2>2 DEF IInv, Moves
    <3> QED
      BY <3>1, NodeGrows
  <2> QED
    BY <2>1, <2>2
<1>3. \A m \in msgs' : MsgOK(m, adopted')
  BY MsgGrows DEF IInv, Moves
<1> QED
  BY <1>1, <1>2, <1>3 DEF IInv, Moves, Grown

-------------------------------------------------------------------------------
\* An empty cache is as the invariant wants it.
LEMMA EmptySound ==
    /\ EmptyCache \in Caches
    /\ EmptyCache.inq = None /\ EmptyCache.req = None /\ EmptyCache.bc = None
    /\ EmptyCache.result = "None"
    /\ \A n, A : CacheOK(n, EmptyCache, A)
<1>1. /\ EmptyCache \in Caches
      /\ EmptyCache.inq = None /\ EmptyCache.req = None /\ EmptyCache.bc = None
      /\ EmptyCache.result = "None"
  BY DEF EmptyCache, Caches
<1> QED
  BY <1>1 DEF CacheOK, InquiryOK, RequestOK, BroadcastOK

\* The cache and the message of sendInquiryReq are as the invariant wants them.
LEMMA InquirySound ==
    ASSUME IInv, NEW n \in Node, NEW A, NEW c \in Turns, NEW r \in Turns,
           c + r <= MaxTurn, n \in A[c]
    PROVE  /\ WithInquiry(n, Inquiry(n, c, r)) \in Caches
           /\ CacheOK(n, WithInquiry(n, Inquiry(n, c, r)), A)
           /\ MsgOK(Inquiry(n, c, r), A)
<1> DEFINE q == Inquiry(n, c, r)
           new == WithInquiry(n, q)
<1>1. stamp[n] + 1 \in Nat
  BY BoundsAssumption DEF IInv
<1>2. q \in BoundedInquiries /\ q.c = c /\ q.type = "inquiry"
  BY <1>1 DEF Inquiry, BoundedInquiries, Inquiries
<1> HIDE DEF q
<1>3. /\ new \in Caches /\ new.inq = q /\ new.req = None /\ new.bc = None
      /\ new.result = "None"
  BY <1>2, EmptySound DEF WithInquiry, Caches
<1> HIDE DEF new
<1>5. CacheOK(n, new, A)
  BY <1>2, <1>3 DEF CacheOK, InquiryOK, RequestOK, BroadcastOK
<1>6. MsgOK(q, A)
  BY <1>2 DEF MsgOK
<1> QED
  BY <1>3, <1>5, <1>6 DEF q, new

\* The same for sendRLReq, if the master took the turn that the request starts from.
LEMMA RequestSound ==
    ASSUME IInv, NEW n \in Node, NEW A, NEW c \in Caches, InquiryOK(n, c, A),
           BroadcastOK(c, A), NEW q \in BoundedInquiries, n \in A[q.c]
    PROVE  /\ WithReq(n, c, q) \in Caches
           /\ CacheOK(n, WithReq(n, c, q), A)
           /\ MsgOK(LeaderReq(n, q), A)
<1> DEFINE req == LeaderReq(n, q)
           new == WithReq(n, c, q)
<1>1. stamp[n] + 1 \in Nat
  BY BoundsAssumption DEF IInv
<1>2. req \in BoundedRequests /\ req.inq = q /\ req.type = "req"
  BY <1>1 DEF LeaderReq, BoundedRequests
<1>3. new = [c EXCEPT !.req = req, !.votes = {n}]
  BY DEF WithReq
<1> HIDE DEF req, new
<1>4. new \in Caches
  BY <1>2, <1>3 DEF Caches
<1>5. /\ new.req = req /\ new.votes = {n} /\ new.inq = c.inq /\ new.bc = c.bc
      /\ new.result = c.result
  BY <1>3 DEF Caches
<1>6. CacheOK(n, new, A)
  BY <1>2, <1>5 DEF CacheOK, InquiryOK, RequestOK, BroadcastOK
<1>7. MsgOK(req, A)
  BY <1>2 DEF MsgOK
<1> QED
  BY <1>4, <1>6, <1>7 DEF req, new

\* The same for sendResultBroadcastMsg, if the votes of the result are good.
LEMMA ResultSound ==
    ASSUME IInv, NEW n \in Node, NEW A, NEW c \in Caches, InquiryOK(n, c, A),
           RequestOK(n, c, A), NEW w, WhatOK(w, A)
    PROVE  /\ WithResult(n, c, w) \in Caches
           /\ CacheOK(n, WithResult(n, c, w), A)
           /\ MsgOK(Result(n, w), A)
<1> DEFINE new == WithResult(n, c, w)
           bc == [what |-> w, ts |-> stamp[n] + 1]
<1>1. stamp[n] + 1 \in Nat
  BY BoundsAssumption DEF IInv
<1>2. bc \in [what : Whats, ts : Nat] /\ bc.what = w
  BY <1>1 DEF WhatOK
<1>3. new = [c EXCEPT !.bc = bc, !.rsps = {n}]
  BY DEF WithResult
<1> HIDE DEF new, bc
<1>4. new \in Caches
  BY <1>2, <1>3 DEF Caches
<1>5. /\ new.bc = bc /\ new.inq = c.inq /\ new.req = c.req /\ new.votes = c.votes
      /\ new.result = c.result
  BY <1>3 DEF Caches
<1>6. CacheOK(n, new, A)
  BY <1>2, <1>5 DEF CacheOK, InquiryOK, RequestOK, BroadcastOK
<1>7. MsgOK(Result(n, w), A)
  BY DEF MsgOK, Result
<1> QED
  BY <1>4, <1>6, <1>7 DEF new

\* A step that only changes the cache of n moves n.
LEMMA CacheMoves ==
    ASSUME IInv, NEW n \in Node, NEW c \in Caches, CacheOK(n, c, adopted),
           nd' = [nd EXCEPT ![n].cache = c], stamp' \in [Node -> 0 .. MaxSends],
           \A m \in msgs' : m \in msgs \/ MsgOK(m, adopted)
    PROVE  Moves(n, adopted)
<1> DEFINE x == [nd[n] EXCEPT !.cache = c]
<1>1. nd[n] \in Controllers /\ NodeOK(n, nd[n], adopted)
  BY DEF IInv
<1>2. x \in Controllers /\ x.turn = nd[n].turn /\ x.reelect = nd[n].reelect /\ x.cache = c
  BY <1>1 DEF Controllers
<1>3. nd' = [nd EXCEPT ![n] = x] /\ nd'[n] = x
  BY DEF IInv
<1> HIDE DEF x
<1>4. NodeOK(n, x, adopted) /\ x.turn >= nd[n].turn
  BY <1>1, <1>2 DEF NodeOK, Controllers, Turns
<1> QED
  BY <1>2, <1>3, <1>4 DEF Moves

\* Sends keeps the count of time stamps within its bound.
LEMMA SendsSound ==
    ASSUME IInv, NEW n \in Node, NEW S, Sends(n, S)
    PROVE  stamp' \in [Node -> 0 .. MaxSends] /\ msgs' = msgs \cup S
  BY BoundsAssumption DEF IInv, Sends

\* startReelect moves n, whatever turn the controller is put in before.
LEMMA StartMoves ==
    ASSUME IInv, NEW n \in Node, NEW x \in Controllers, NEW k \in Turns, NEW A, NEW S,
           NodeOK(n, x, A), x.turn >= nd[n].turn, x.turn + k <= MaxTurn, startReelect(n, x, k, S),
           \A m \in S : MsgOK(m, A)
    PROVE  Moves(n, A)
<1> DEFINE q == Inquiry(n, x.turn, k)
           y == [x EXCEPT !.state = "stReelect", !.reelect = k]
           z == [y EXCEPT !.cache = WithInquiry(n, q)]
<1>1. x.turn \in Turns /\ n \in A[x.turn] /\ x.cache \in Caches /\ CacheOK(n, x.cache, A)
  BY DEF NodeOK, Controllers
<1>2. WithInquiry(n, q) \in Caches /\ CacheOK(n, WithInquiry(n, q), A) /\ MsgOK(q, A)
  BY <1>1, InquirySound
<1>3. /\ y \in Controllers /\ y.turn = x.turn /\ y.reelect = k /\ y.cache = x.cache
  BY DEF Controllers
<1>4. CASE Master(x.turn, k) = n
  <2>1. nd' = [nd EXCEPT ![n] = z] /\ Sends(n, S \cup {q})
    BY <1>4 DEF startReelect
  <2>2. stamp' \in [Node -> 0 .. MaxSends] /\ msgs' = msgs \cup (S \cup {q})
    BY <2>1, SendsSound
  <2> HIDE DEF q, y
  <2>3. z \in Controllers /\ z.turn = x.turn /\ z.reelect = k /\ z.cache = WithInquiry(n, q)
    BY <1>2, <1>3 DEF Controllers
  <2>4. nd'[n] = z
    BY <2>1 DEF IInv
  <2> HIDE DEF z
  <2>5. NodeOK(n, z, A)
    BY <1>1, <1>2, <2>3 DEF NodeOK
  <2> QED
    BY <1>2, <2>1, <2>2, <2>3, <2>4, <2>5 DEF Moves
<1>5. CASE Master(x.turn, k) # n
  <2>1. nd' = [nd EXCEPT ![n] = y] /\ msgs' = msgs \cup S /\ stamp' = stamp
    BY <1>5 DEF startReelect
  <2>2. nd'[n] = y
    BY <2>1 DEF IInv
  <2> HIDE DEF y
  <2>3. NodeOK(n, y, A)
    BY <1>1, <1>3 DEF NodeOK
  <2> QED
    BY <1>3, <2>1, <2>2, <2>3 DEF Moves, IInv
<1> QED
  BY <1>4, <1>5

-------------------------------------------------------------------------------
\* What a step must show: the invariant is kept and no turn falls.
Kept == IInv' /\ \A k \in Node : nd'[k].turn >= nd[k].turn

\* A step that moves n and leaves the history alone.
LEMMA QuietKeeps ==
    ASSUME IInv, NEW n \in Node, Moves(n, adopted), adopted' = adopted, from' = from
    PROVE  Kept
<1>1. Grown(adopted, adopted') /\ Moves(n, adopted')
  BY DEF IInv, Grown
<1>2. BuiltOnQuorum' /\ from' \in [Turns -> SUBSET Turns]
  BY DEF IInv, BuiltOnQuorum
<1>3. IInv'
  BY <1>1, <1>2, MovesKeepIInv
<1>4. \A k \in Node : nd[k].turn \in Int
  BY BoundsAssumption DEF IInv, Controllers, Turns
<1>5. \A k \in Node : nd'[k].turn >= nd[k].turn
  BY <1>4 DEF IInv, Moves
<1> QED
  BY <1>3, <1>5 DEF Kept

\* A master that sends one message with its cache.
LEMMA SendKeeps ==
    ASSUME IInv, NEW n \in Node, NEW c \in Caches, CacheOK(n, c, adopted),
           NEW m, MsgOK(m, adopted), nd' = [nd EXCEPT ![n].cache = c], Sends(n, {m}),
           adopted' = adopted, from' = from
    PROVE  Kept
<1>1. stamp' \in [Node -> 0 .. MaxSends] /\ msgs' = msgs \cup {m}
  BY SendsSound
<1>2. \A k \in msgs' : k \in msgs \/ MsgOK(k, adopted)
  BY <1>1
<1>3. Moves(n, adopted)
  BY <1>1, <1>2, CacheMoves
<1> QED
  BY <1>3, QuietKeeps

\* A master that only notes an answer.
LEMMA NoteKeeps ==
    ASSUME IInv, NEW n \in Node, NEW c \in Caches, CacheOK(n, c, adopted),
           nd' = [nd EXCEPT ![n].cache = c],
           UNCHANGED <<stamp, msgs, adopted, from>>
    PROVE  Kept
<1>1. Moves(n, adopted)
  BY CacheMoves DEF IInv
<1> QED
  BY <1>1, QuietKeeps

\* timeOutHandle enters the next re-election turn.
LEMMA TimeoutKeeps ==
    ASSUME IInv, NEW n \in Node, Timeout(n)
    PROVE  Kept
<1>1. nd[n] \in Controllers /\ NodeOK(n, nd[n], adopted)
  BY DEF IInv
<1>2. /\ nd[n].reelect + 1 \in Turns /\ nd[n].turn + (nd[n].reelect + 1) <= MaxTurn
      /\ nd[n].turn >= nd[n].turn
  BY <1>1, BoundsAssumption DEF Timeout, Controllers, Turns
<1>3. Moves(n, adopted)
  BY <1>1, <1>2, StartMoves DEF Timeout
<1> QED
  BY <1>3, QuietKeeps DEF Timeout

\* reelectTimeOutHandle sends again what the result of the inquiry asks for.
LEMMA ReelectTimeoutKeeps ==
    ASSUME IInv, NEW n \in Node, reelectTimeOutHandle(n)
    PROVE  Kept
<1> DEFINE cache == nd[n].cache
           q == Inquiry(n, nd[n].turn, nd[n].reelect)
<1>0. adopted' = adopted /\ from' = from
  BY DEF reelectTimeOutHandle
<1>1. nd[n] \in Controllers /\ NodeOK(n, nd[n], adopted)
  BY DEF IInv
<1>2. /\ cache \in Caches /\ InquiryOK(n, cache, adopted) /\ RequestOK(n, cache, adopted)
      /\ BroadcastOK(cache, adopted)
  BY <1>1 DEF NodeOK, Controllers, CacheOK
<1>3. CASE cache.result = "Agree"
  <2>1. /\ nd' = [nd EXCEPT ![n].cache = WithReq(n, cache, cache.req.inq)]
        /\ Sends(n, {LeaderReq(n, cache.req.inq)})
    BY <1>3 DEF reelectTimeOutHandle
  <2>2. cache.req.inq \in BoundedInquiries /\ n \in adopted[cache.req.inq.c]
    BY <1>2, <1>3 DEF RequestOK, BoundedRequests
  <2>3. /\ WithReq(n, cache, cache.req.inq) \in Caches
        /\ CacheOK(n, WithReq(n, cache, cache.req.inq), adopted)
        /\ MsgOK(LeaderReq(n, cache.req.inq), adopted)
    BY <1>2, <2>2, RequestSound
  <2> QED
    BY <1>0, <2>1, <2>3, SendKeeps
<1>4. CASE cache.result = "POS"
  <2>1. /\ nd' = [nd EXCEPT ![n].cache = WithResult(n, cache, cache.bc.what)]
        /\ Sends(n, {Result(n, cache.bc.what)})
    BY <1>4 DEF reelectTimeOutHandle
  <2>2. WhatOK(cache.bc.what, adopted)
    BY <1>2, <1>4 DEF BroadcastOK
  <2>3. /\ WithResult(n, cache, cache.bc.what) \in Caches
        /\ CacheOK(n, WithResult(n, cache, cache.bc.what), adopted)
        /\ MsgOK(Result(n, cache.bc.what), adopted)
    BY <1>2, <2>2, ResultSound
  <2> QED
    BY <1>0, <2>1, <2>3, SendKeeps
<1>5. CASE cache.result \notin {"Agree", "POS"}
  <2>1. nd' = [nd EXCEPT ![n].cache = WithInquiry(n, q)] /\ Sends(n, {q})
    BY <1>5 DEF reelectTimeOutHandle
  <2>2. /\ nd[n].turn \in Turns /\ nd[n].reelect \in Turns
        /\ nd[n].turn + nd[n].reelect <= MaxTurn /\ n \in adopted[nd[n].turn]
    BY <1>1 DEF NodeOK, Controllers
  <2>3. WithInquiry(n, q) \in Caches /\ CacheOK(n, WithInquiry(n, q), adopted) /\ MsgOK(q, adopted)
    BY <2>2, InquirySound
  <2> QED
    BY <1>0, <2>1, <2>3, SendKeeps
<1> QED
  BY <1>3, <1>4, <1>5

\* The POS of a block changes neither turns nor votes.
LEMMA PosKeeps ==
    ASSUME IInv, NEW n \in Node, NEW t \in Turns, PosFinished(n, t)
    PROVE  Kept
<1> DEFINE x == nd'[n]
<1>1. nd[n] \in Controllers /\ NodeOK(n, nd[n], adopted)
  BY DEF IInv
<1>2. /\ x \in Controllers /\ x.turn = nd[n].turn /\ x.reelect = nd[n].reelect
      /\ x.cache = nd[n].cache /\ nd' = [nd EXCEPT ![n] = x]
  <2>1. x = [nd[n] EXCEPT !.pos = Append(nd[n].pos, t),
                          !.state = IF nd[n].state = "stPos" THEN "stMining" ELSE nd[n].state]
    BY DEF PosFinished, IInv
  <2>2. Append(nd[n].pos, t) \in Seq(Turns)
    BY <1>1 DEF Controllers
  <2>3. nd' = [nd EXCEPT ![n] = x]
    BY DEF PosFinished, IInv
  <2> QED
    BY <1>1, <2>1, <2>2, <2>3 DEF Controllers
<1> HIDE DEF x
<1>3. NodeOK(n, x, adopted) /\ x.turn >= nd[n].turn
  BY <1>1, <1>2, BoundsAssumption DEF NodeOK, Controllers, Turns
<1>4. Moves(n, adopted)
  BY <1>2, <1>3 DEF Moves, PosFinished, IInv, x
<1> QED
  BY <1>4, QuietKeeps DEF PosFinished

-------------------------------------------------------------------------------
\* A validator that only answers.
LEMMA AnswerKeeps ==
    ASSUME IInv, NEW n \in Node, UNCHANGED <<nd, stamp, adopted, from>>,
           \A m \in msgs' : m \in msgs \/ MsgOK(m, adopted)
    PROVE  Kept
<1>1. nd[n].turn >= nd[n].turn
  BY BoundsAssumption DEF IInv, Controllers, Turns
<1>2. Moves(n, adopted)
  BY <1>1 DEF Moves, IInv
<1> QED
  BY <1>2, QuietKeeps

\* handleInquiryReq answers with the own agreement or with a POS.
LEMMA InquiryReqKeeps ==
    ASSUME IInv, NEW n \in Node, NEW q \in msgs, handleInquiryReq(n, q)
    PROVE  Kept
<1>1. CASE q.c = nd[n].turn /\ nd[n].pos # <<>>
           /\ msgs' = msgs \cup {Answer(n, q, [kind |-> "POS", pos |-> Head(nd[n].pos)])}
  <2>1. Head(nd[n].pos) \in Turns
    BY <1>1 DEF IInv, Controllers
  <2>2. MsgOK(Answer(n, q, [kind |-> "POS", pos |-> Head(nd[n].pos)]), adopted)
    BY <2>1 DEF MsgOK, Answer, PosWhats
  <2> QED
    BY <1>1, <2>2, AnswerKeeps DEF handleInquiryReq
<1>2. CASE msgs' = msgs \cup {Answer(n, q, [kind |-> "Agree"])}
  <2>1. MsgOK(Answer(n, q, [kind |-> "Agree"]), adopted)
    BY DEF MsgOK, Answer
  <2> QED
    BY <1>2, <2>1, AnswerKeeps DEF handleInquiryReq
<1>3. CASE msgs' = msgs
  BY <1>3, AnswerKeeps DEF handleInquiryReq
<1> QED
  BY <1>1, <1>2, <1>3 DEF handleInquiryReq

\* handleInquiryRsp: a POS makes the master broadcast it, a quorum of agreements makes
\* it ask for votes, for the turn of its own inquiry.
LEMMA InquiryRspKeeps ==
    ASSUME IInv, NEW n \in Node, NEW a \in msgs, handleInquiryRsp(n, a)
    PROVE  Kept
<1> DEFINE cache == nd[n].cache
           agreed == WithAgree(cache, a.by)
<1>1. adopted' = adopted /\ from' = from
  BY DEF handleInquiryRsp
<1>2. /\ cache \in Caches /\ InquiryOK(n, cache, adopted) /\ RequestOK(n, cache, adopted)
      /\ BroadcastOK(cache, adopted) /\ cache.result = "None"
  BY DEF IInv, NodeOK, Controllers, CacheOK, handleInquiryRsp
<1>3. /\ a.by \in Node /\ a.what.kind \in {"POS", "Agree"}
      /\ a.what.kind = "POS" => a.what \in PosWhats
  <2>1. MsgOK(a, adopted)
    BY DEF IInv
  <2>2. a.type = "answer"
    BY DEF handleInquiryRsp
  <2> QED
    BY <2>1, <2>2 DEF MsgOK
<1>4. a.q \in BoundedInquiries /\ n \in adopted[a.q.c]
  BY <1>2 DEF handleInquiryRsp, ForInquiry, InquiryOK
<1>5. CASE a.what.kind = "POS"
  <2> DEFINE new == NotAgreed(cache)
  <2>1. /\ nd' = [nd EXCEPT ![n].cache = WithResult(n, new, a.what)]
        /\ Sends(n, {Result(n, a.what)})
    BY <1>5 DEF handleInquiryRsp
  <2>2. new \in Caches /\ new.inq = None /\ new.req = None /\ new.result = "POS"
    BY <1>2 DEF NotAgreed, Caches
  <2> HIDE DEF new
  <2>3. InquiryOK(n, new, adopted) /\ RequestOK(n, new, adopted)
    BY <2>2 DEF InquiryOK, RequestOK
  <2>4. WhatOK(a.what, adopted)
    BY <1>3, <1>5 DEF WhatOK, Whats
  <2>5. /\ WithResult(n, new, a.what) \in Caches
        /\ CacheOK(n, WithResult(n, new, a.what), adopted)
        /\ MsgOK(Result(n, a.what), adopted)
    BY <2>2, <2>3, <2>4, ResultSound
  <2> QED
    BY <1>1, <2>1, <2>5, SendKeeps
<1>6. CASE a.what.kind = "Agree" /\ Quorum(agreed.agrees)
  <2> DEFINE new == Agreed(cache)
  <2>1. /\ nd' = [nd EXCEPT ![n].cache = WithReq(n, new, a.q)]
        /\ Sends(n, {LeaderReq(n, a.q)})
    BY <1>6 DEF handleInquiryRsp
  <2>2. new \in Caches /\ new.inq = None /\ new.bc = cache.bc /\ new.result = "Agree"
    BY <1>2 DEF Agreed, Caches
  <2> HIDE DEF new
  <2>3. InquiryOK(n, new, adopted) /\ BroadcastOK(new, adopted)
    BY <1>2, <2>2 DEF InquiryOK, BroadcastOK
  <2>4. /\ WithReq(n, new, a.q) \in Caches /\ CacheOK(n, WithReq(n, new, a.q), adopted)
        /\ MsgOK(LeaderReq(n, a.q), adopted)
    BY <1>4, <2>2, <2>3, RequestSound
  <2> QED
    BY <1>1, <2>1, <2>4, SendKeeps
<1>7. CASE a.what.kind = "Agree" /\ ~Quorum(agreed.agrees)
  <2>1. nd' = [nd EXCEPT ![n].cache = agreed] /\ UNCHANGED <<stamp, msgs>>
    BY <1>7 DEF handleInquiryRsp
  <2>2. /\ agreed \in Caches /\ agreed.inq = cache.inq /\ agreed.req = cache.req
        /\ agreed.votes = cache.votes /\ agreed.bc = cache.bc /\ agreed.result = cache.result
    BY <1>2, <1>3 DEF WithAgree, Caches
  <2> HIDE DEF agreed
  <2>3. CacheOK(n, agreed, adopted)
    BY <1>2, <2>2 DEF CacheOK, InquiryOK, RequestOK, BroadcastOK
  <2> QED
    BY <1>1, <2>1, <2>2, <2>3, NoteKeeps
<1> QED
  BY <1>3, <1>5, <1>6, <1>7

\* handleRLReq: a vote is for a request that starts from the own turn.
LEMMA ReqKeeps ==
    ASSUME IInv, NEW n \in Node, NEW m \in msgs, handleRLReq(n, m)
    PROVE  Kept
<1> DEFINE v == [type |-> "vote", by |-> n, req |-> m]
<1>1. m.inq.c = nd[n].turn /\ nd[n].turn \in Turns /\ n \in adopted[nd[n].turn]
  BY DEF handleRLReq, Votes, IInv, NodeOK, Controllers
<1>2. MsgOK(v, adopted)
  BY <1>1 DEF MsgOK
<1> QED
  BY <1>2, AnswerKeeps DEF handleRLReq

\* handleRLVote: the vote that is counted, and with a quorum sent on, is by a validator
\* that took the turn of the request.
LEMMA VoteKeeps ==
    ASSUME IInv, NEW n \in Node, NEW v \in msgs, handleRLVote(n, v)
    PROVE  Kept
<1> DEFINE cache == nd[n].cache
           voted == WithVote(cache, v.by)
           what == [kind |-> "Agree", req |-> v.req, votes |-> voted.votes]
<1>1. adopted' = adopted /\ from' = from
  BY DEF handleRLVote
<1>2. /\ cache \in Caches /\ InquiryOK(n, cache, adopted) /\ RequestOK(n, cache, adopted)
      /\ BroadcastOK(cache, adopted)
  BY DEF IInv, NodeOK, Controllers, CacheOK
<1>3. v.by \in Node /\ v.by \in adopted[v.req.inq.c]
  BY DEF IInv, MsgOK, handleRLVote
<1>4. cache.req = v.req /\ v.req \in BoundedRequests
  BY <1>2 DEF handleRLVote, ForRequest, RequestOK
<1>5. cache.votes \cup {n} \subseteq adopted[v.req.inq.c]
  BY <1>2, <1>4 DEF RequestOK, handleRLVote, ForRequest
<1>6. /\ voted \in Caches /\ voted.inq = cache.inq /\ voted.req = v.req
      /\ voted.votes = cache.votes \cup {v.by} /\ voted.bc = cache.bc
      /\ voted.result = cache.result
  BY <1>2, <1>3, <1>4 DEF WithVote, Caches
<1> HIDE DEF voted
<1>7. InquiryOK(n, voted, adopted) /\ RequestOK(n, voted, adopted)
  BY <1>2, <1>3, <1>4, <1>5, <1>6 DEF InquiryOK, RequestOK
<1>8. CASE Quorum(voted.votes)
  <2>1. nd' = [nd EXCEPT ![n].cache = WithResult(n, voted, what)] /\ Sends(n, {Result(n, what)})
    BY <1>8 DEF handleRLVote, voted
  <2>2. voted.votes \subseteq Node
    BY <1>6 DEF Caches
  <2>3. WhatOK(what, adopted)
    BY <1>3, <1>4, <1>5, <1>6, <2>2 DEF WhatOK, Whats, AgreeWhats
  <2> HIDE DEF what
  <2>4. /\ WithResult(n, voted, what) \in Caches
        /\ CacheOK(n, WithResult(n, voted, what), adopted)
        /\ MsgOK(Result(n, what), adopted)
    BY <1>6, <1>7, <2>3, ResultSound
  <2> QED
    BY <1>1, <2>1, <2>4, SendKeeps
<1>9. CASE ~Quorum(voted.votes)
  <2>1. nd' = [nd EXCEPT ![n].cache = voted] /\ UNCHANGED <<stamp, msgs>>
    BY <1>9 DEF handleRLVote, voted
  <2>2. CacheOK(n, voted, adopted)
    BY <1>2, <1>6, <1>7 DEF CacheOK, BroadcastOK
  <2> QED
    BY <1>1, <1>6, <2>1, <2>2, NoteKeeps
<1> QED
  BY <1>8, <1>9

-------------------------------------------------------------------------------
\* A step that moves n into a turn T that was voted for from turn c, which a quorum took.
LEMMA TurnKeeps ==
    ASSUME IInv, NEW n \in Node, NEW T \in Turns, NEW c \in Turns,
           IsQuorum(adopted[c], Node), Moves(n, adopted'),
           adopted' = [adopted EXCEPT ![T] = @ \cup {n}],
           from' = [from EXCEPT ![T] = @ \cup {c}]
    PROVE  Kept
<1>1. Grown(adopted, adopted')
  BY DEF IInv, Grown, Adoptions
<1>2. from' \in [Turns -> SUBSET Turns]
  BY DEF IInv
<1>3. BuiltOnQuorum'
  <2> SUFFICES ASSUME NEW t \in Turns, NEW d \in from'[t]
               PROVE  IsQuorum(adopted'[d], Node)
    BY DEF BuiltOnQuorum
  <2>1. d \in Turns
    BY <1>2
  <2>2. IsQuorum(adopted[d], Node)
    BY DEF IInv, BuiltOnQuorum
  <2>3. adopted[d] \subseteq adopted'[d] /\ adopted'[d] \subseteq Node
    BY <1>1, <2>1 DEF Grown, Adoptions
  <2> QED
    BY <2>2, <2>3, QuorumGrows
<1>4. IInv'
  BY <1>1, <1>2, <1>3, MovesKeepIInv
<1>5. \A k \in Node : nd[k].turn \in Int
  BY BoundsAssumption DEF IInv, Controllers, Turns
<1>6. \A k \in Node : nd'[k].turn >= nd[k].turn
  BY <1>5 DEF IInv, Moves
<1> QED
  BY <1>4, <1>6 DEF Kept

\* An acceptable result is taken (finishReelectWithPOS, finishReelectWithRLConsensus).
LEMMA FinishKeeps ==
    ASSUME IInv, NEW n \in Node, NEW m \in Node, NEW w, WhatOK(w, adopted),
           NEW req, Acceptable(n, w, req), NEW S, \A s \in S : \A A : MsgOK(s, A),
           Finish(n, m, w, S)
    PROVE  Kept
<1> DEFINE cleared == [nd[n] EXCEPT !.cache = EmptyCache, !.reelect = 0]
<1>1. nd[n] \in Controllers /\ NodeOK(n, nd[n], adopted)
  BY DEF IInv
<1>2. /\ cleared \in Controllers /\ cleared.turn = nd[n].turn /\ cleared.reelect = 0
      /\ cleared.cache = EmptyCache
  <2>1. 0 \in Turns
    BY BoundsAssumption DEF Turns
  <2> QED
    BY <1>1, <2>1, EmptySound DEF Controllers
<1>3. nd[n].turn \in Nat /\ nd[n].turn <= MaxTurn /\ n \in adopted[nd[n].turn]
  BY <1>1, BoundsAssumption DEF Controllers, Turns, NodeOK
<1>4. CASE w.kind = "POS"
  <2> DEFINE x == [cleared EXCEPT !.state = "stMining"]
  <2>1. /\ nd' = [nd EXCEPT ![n] = x] /\ msgs' = msgs \cup S
        /\ UNCHANGED <<stamp, adopted, from>>
    BY <1>4 DEF Finish
  <2> HIDE DEF cleared
  <2>2. /\ x \in Controllers /\ x.turn = nd[n].turn /\ x.reelect = 0 /\ x.cache = EmptyCache
    BY <1>2 DEF Controllers
  <2>3. nd'[n] = x
    BY <2>1 DEF IInv
  <2> HIDE DEF x
  <2>4. NodeOK(n, x, adopted) /\ x.turn >= nd[n].turn
    BY <1>3, <2>2, EmptySound, BoundsAssumption DEF NodeOK
  <2>5. Moves(n, adopted)
    BY <2>1, <2>2, <2>3, <2>4 DEF Moves, IInv
  <2> QED
    BY <2>1, <2>5, QuietKeeps
<1>5. CASE w.kind # "POS"
  <2> DEFINE T == ResultTurn(w)
             c == w.req.inq.c
             turned == [cleared EXCEPT !.turn = T, !.via = m]
  <2>1. w \in AgreeWhats /\ w.votes \subseteq adopted[c] /\ T >= nd[n].turn /\ Quorum(w.votes)
    BY <1>5 DEF WhatOK, Whats, PosWhats, AgreeWhats, Acceptable
  <2>2. c \in Turns /\ T \in Turns
    BY <2>1, BoundsAssumption
       DEF AgreeWhats, BoundedRequests, BoundedInquiries, Inquiries, ResultTurn, Turns
  <2>3. IsQuorum(adopted[c], Node)
    <3>1. adopted[c] \subseteq Node
      BY <2>2 DEF IInv, Adoptions
    <3> QED
      BY <2>1, <3>1, QuorumGrows DEF Quorum
  <2>4. /\ adopted' = [adopted EXCEPT ![T] = @ \cup {n}]
        /\ from' = [from EXCEPT ![T] = @ \cup {c}]
    BY <1>5 DEF Finish
  <2>5. n \in adopted'[T]
    BY <2>2, <2>4 DEF IInv, Adoptions
  <2>6. PICK st \in {"stMining", "stPos"} :
           \/ /\ nd' = [nd EXCEPT ![n] = [turned EXCEPT !.state = st]]
              /\ msgs' = msgs \cup S /\ stamp' = stamp
           \/ \E k \in 1 .. MaxTurn - T : startReelect(n, turned, k, S)
    BY <1>5 DEF Finish
  <2> HIDE DEF cleared, c
  <2>7. /\ turned \in Controllers /\ turned.turn = T /\ turned.reelect = 0
        /\ turned.cache = EmptyCache
    BY <1>2, <2>2 DEF Controllers
  <2> HIDE DEF turned, T
  <2>8. NodeOK(n, turned, adopted')
    BY <2>2, <2>5, <2>7, EmptySound, BoundsAssumption DEF NodeOK, Turns
  <2>9. ASSUME nd' = [nd EXCEPT ![n] = [turned EXCEPT !.state = st]],
               msgs' = msgs \cup S, stamp' = stamp
        PROVE  Moves(n, adopted')
    <3> DEFINE x == [turned EXCEPT !.state = st]
    <3>1. /\ x \in Controllers /\ x.turn = T /\ x.reelect = 0 /\ x.cache = EmptyCache
      BY <2>7 DEF Controllers
    <3>2. nd' = [nd EXCEPT ![n] = x] /\ nd'[n] = x
      BY <2>9 DEF IInv
    <3> HIDE DEF x
    <3>3. NodeOK(n, x, adopted') /\ x.turn >= nd[n].turn
      BY <2>1, <2>7, <2>8, <3>1 DEF NodeOK, T
    <3> QED
      BY <2>9, <3>1, <3>2, <3>3 DEF Moves, IInv
  <2>10. ASSUME NEW k \in 1 .. MaxTurn - T, startReelect(n, turned, k, S)
         PROVE  Moves(n, adopted')
    <3>1. k \in Turns /\ turned.turn + k <= MaxTurn
      BY <2>2, <2>7, BoundsAssumption DEF Turns
    <3>2. turned.turn >= nd[n].turn
      BY <2>1, <2>7 DEF T
    <3> QED
      BY <2>7, <2>8, <2>10, <3>1, <3>2, StartMoves
  <2>11. Moves(n, adopted')
    BY <2>6, <2>9, <2>10
  <2> QED
    BY <2>2, <2>3, <2>4, <2>11, TurnKeeps DEF c
<1> QED
  BY <1>4, <1>5

\* handleResultBroadcastMsg takes a result of another validator.
LEMMA BroadcastKeeps ==
    ASSUME IInv, NEW n \in Node, NEW m \in msgs, handleResultBroadcastMsg(n, m)
    PROVE  Kept
<1> DEFINE r == [type |-> "rsp", by |-> n, m |-> m.m, ts |-> m.ts]
<1>1. m.m \in Node /\ WhatOK(m.bc, adopted)
  BY DEF IInv, MsgOK, handleResultBroadcastMsg
<1>2. \A A : MsgOK(r, A)
  BY DEF MsgOK
<1>3. Acceptable(n, m.bc, m.bc.req) /\ Finish(n, m.m, m.bc, {r})
  BY DEF handleResultBroadcastMsg
<1> HIDE DEF r
<1> QED
  BY <1>1, <1>2, <1>3, FinishKeeps

\* handleResultRsp notes a response or takes the own result.
LEMMA RspKeeps ==
    ASSUME IInv, NEW n \in Node, NEW a \in msgs, handleResultRsp(n, a)
    PROVE  Kept
<1> DEFINE cache == nd[n].cache
           answered == WithRsp(cache, a.by)
<1>1. cache \in Caches /\ CacheOK(n, cache, adopted) /\ a.by \in Node
  BY DEF IInv, NodeOK, Controllers, MsgOK, handleResultRsp
<1>2. WhatOK(cache.bc.what, adopted)
  BY <1>1 DEF CacheOK, BroadcastOK, handleResultRsp, ForResult
<1>3. ASSUME Acceptable(n, cache.bc.what, cache.req), Finish(n, n, cache.bc.what, {})
      PROVE  Kept
  <2>1. \A s \in {} : \A A : MsgOK(s, A)
    OBVIOUS
  <2> QED
    BY <1>2, <1>3, <2>1, FinishKeeps
<1>4. ASSUME nd' = [nd EXCEPT ![n].cache = answered], UNCHANGED <<stamp, msgs, adopted, from>>
      PROVE  Kept
  <2>1. /\ answered \in Caches /\ answered.inq = cache.inq /\ answered.req = cache.req
        /\ answered.votes = cache.votes /\ answered.bc = cache.bc
        /\ answered.result = cache.result
    BY <1>1 DEF WithRsp, Caches
  <2> HIDE DEF answered
  <2>2. CacheOK(n, answered, adopted)
    BY <1>1, <2>1 DEF CacheOK, InquiryOK, RequestOK, BroadcastOK
  <2> QED
    BY <1>4, <2>1, <2>2, NoteKeeps
<1> QED
  BY <1>3, <1>4 DEF handleResultRsp

-------------------------------------------------------------------------------
\* Initially nobody has voted and everybody is in turn 0.
LEMMA InitIInv ==
    ASSUME Init PROVE IInv
<1>1. 0 \in Turns
  BY BoundsAssumption DEF Turns
<1>2. \A n \in Node : /\ nd[n] \in Controllers /\ nd[n].turn = 0 /\ nd[n].reelect = 0
                       /\ nd[n].cache = EmptyCache
  BY <1>1, EmptySound DEF Init, Controllers
<1>3. nd \in [Node -> Controllers]
  BY <1>2 DEF Init
<1>4. adopted \in Adoptions /\ adopted[0] = Node
  BY <1>1 DEF Init, Adoptions
<1>5. \A n \in Node : NodeOK(n, nd[n], adopted)
  BY <1>2, <1>4, EmptySound, BoundsAssumption DEF NodeOK
<1>6. stamp \in [Node -> 0 .. MaxSends]
  BY BoundsAssumption DEF Init
<1>7. from \in [Turns -> SUBSET Turns] /\ msgs = {} /\ BuiltOnQuorum
  BY DEF Init, BuiltOnQuorum
<1> QED
  BY <1>3, <1>4, <1>5, <1>6, <1>7 DEF IInv

\* Every step keeps the invariant and lets no turn fall.
LEMMA NextKeeps ==
    ASSUME IInv, Next PROVE Kept
<1>1. ASSUME NEW n \in Node, Timeout(n) PROVE Kept
  BY <1>1, TimeoutKeeps
<1>2. ASSUME NEW n \in Node, reelectTimeOutHandle(n) PROVE Kept
  BY <1>2, ReelectTimeoutKeeps
<1>3. ASSUME NEW n \in Node, NEW t \in Turns, PosFinished(n, t) PROVE Kept
  BY <1>3, PosKeeps
<1>4. ASSUME NEW n \in Node, NEW m \in msgs, handleInquiryReq(n, m) PROVE Kept
  BY <1>4, InquiryReqKeeps
<1>5. ASSUME NEW n \in Node, NEW m \in msgs, handleInquiryRsp(n, m) PROVE Kept
  BY <1>5, InquiryRspKeeps
<1>6. ASSUME NEW n \in Node, NEW m \in msgs, handleRLReq(n, m) PROVE Kept
  BY <1>6, ReqKeeps
<1>7. ASSUME NEW n \in Node, NEW m \in msgs, handleRLVote(n, m) PROVE Kept
  BY <1>7, VoteKeeps
<1>8. ASSUME NEW n \in Node, NEW m \in msgs, handleResultBroadcastMsg(n, m) PROVE Kept
  BY <1>8, BroadcastKeeps
<1>9. ASSUME NEW n \in Node, NEW m \in msgs, handleResultRsp(n, m) PROVE Kept
  BY <1>9, RspKeeps
<1> QED
  BY <1>1, <1>2, <1>3, <1>4, <1>5, <1>6, <1>7, <1>8, <1>9 DEF Next

\* Steps that change nothing keep it too.
LEMMA StutterKeeps ==
    ASSUME IInv, UNCHANGED vars PROVE IInv'
<1>1. BuiltOnQuorum'
  BY DEF IInv, BuiltOnQuorum, vars
<1>2. \A n \in Node : NodeOK(n, nd'[n], adopted')
  BY DEF IInv, vars
<1>3. \A m \in msgs' : MsgOK(m, adopted')
  BY DEF IInv, vars
<1> QED
  BY <1>1, <1>2, <1>3 DEF IInv, vars

\* The inductive invariant holds in every reachable state.
LEMMA Inductive == Spec => []IInv
<1>1. Init => IInv
  BY InitIInv
<1>2. IInv /\ [Next]_vars => IInv'
  BY NextKeeps, StutterKeeps DEF Kept
<1> QED
  BY <1>1, <1>2, PTL DEF Spec

\* A re-election of the leader (processResultBroadcastMsg) is only ever built on a
\* consensus turn that a quorum of the validators took, for every number of validators.
THEOREM ReelectionsAreBuiltOnQuorums == Spec => []BuiltOnQuorum
<1>1. IInv => BuiltOnQuorum
  BY DEF IInv
<1> QED
  BY <1>1, Inductive, PTL

\* Any two turns that re-elections were built on were both taken by two validators at
\* least: the history of a height's leaders does not split, however late and repeated
\* the results are that processResultBroadcastMsg is given.
THEOREM ReelectionsShareValidators ==
    Spec => [](\A t, u \in Turns : \A c \in from[t], d \in from[u] :
                   Cardinality(adopted[c] \cap adopted[d]) >= 2)
<1>1. ASSUME BuiltOnQuorum
      PROVE  \A t, u \in Turns : \A c \in from[t], d \in from[u] :
                 Cardinality(adopted[c] \cap adopted[d]) >= 2
  <2>1. IsFiniteSet(Node)
    BY FS_Interval, BoundsAssumption DEF Node
  <2> QED
    BY <1>1, <2>1, QuorumIntersection DEF BuiltOnQuorum
<1> QED
  BY <1>1, ReelectionsAreBuiltOnQuorums, PTL

\* The consensus turn of a validator never falls: neither a timeout, nor a late or a
\* repeated result brings processResultBroadcastMsg back to an earlier turn.
THEOREM TurnsNeverFall == Spec => TurnNeverFalls
<1>1. IInv /\ [Next]_vars => [\A n \in Node : nd'[n].turn >= nd[n].turn]_vars
  BY NextKeeps DEF Kept
<1> QED
  BY <1>1, Inductive, PTL DEF Spec, TurnNeverFalls

\* The controllers and the master caches keep their types, and with them the bound on
\* the turns that inquiries, requests and results carry.
THEOREM ReelectTypes == Spec => []TypeOK
<1>1. ASSUME IInv PROVE TypeOK
  <2>1. BoundedInquiries \subseteq Inquiries /\ BoundedRequests \subseteq Requests
    BY DEF BoundedInquiries, BoundedRequests, Requests
  <2>2. ASSUME NEW n \in Node
        PROVE  /\ nd[n].state \in {"stPos", "stReelect", "stMining"}
               /\ nd[n].turn \in Turns /\ nd[n].reelect \in Turns /\ nd[n].via \in Node
               /\ nd[n].cache \in Caches
    BY <1>1 DEF IInv, Controllers
  <2>3. ASSUME NEW c \in Caches
        PROVE  /\ c.result \in {"None", "Agree", "POS"}
               /\ c.inq \in Inquiries \cup {None} /\ c.req \in Requests \cup {None}
               /\ c.agrees \cup c.votes \cup c.rsps \subseteq Node
    BY <2>1 DEF Caches
  <2> QED
    BY <1>1, <2>2, <2>3 DEF TypeOK, IInv, Adoptions
<1> QED
  BY <1>1, Inductive, PTL

-------------------------------------------------------------------------------
\* The responses to a result: who sent one took the result's turn, and a master knows its
\* results by their time stamps.
Matches(r, m, ts) == r.type = "result" /\ r.m = m /\ r.ts = ts
Took(k, w, A) == w.kind = "Agree" => k \in A[ResultTurn(w)]
RspOK(a, M, A) ==
    a.type = "rsp" => \E r \in M : Matches(r, a.m, a.ts) /\ Took(a.by, r.bc, A)
OwnOK(n, c, M, A) ==
    c.bc # None => /\ \A r \in M : Matches(r, n, c.bc.ts) => r.bc = c.bc.what
                   /\ \A k \in c.rsps : k = n \/ Took(k, c.bc.what, A)
LastOK(n, x, A) == x.via = n /\ x.turn > 0 => IsQuorum(A[x.turn] \cup {n}, Node)

LInv ==
    /\ \A a \in msgs : RspOK(a, msgs, adopted)
    /\ \A r \in msgs : r.type = "result" => r.ts \in Nat /\ r.ts <= stamp[r.m]
    /\ \A n \in Node : OwnOK(n, nd[n].cache, msgs, adopted) /\ LastOK(n, nd[n], adopted)

\* A result's turn is one of the turns.
LEMMA ResultTurnType ==
    ASSUME NEW w, NEW A, WhatOK(w, A), w.kind = "Agree"
    PROVE  ResultTurn(w) \in Turns
<1>1. w \in AgreeWhats
  BY DEF WhatOK, Whats, PosWhats
<1> QED
  BY <1>1, BoundsAssumption
     DEF AgreeWhats, BoundedRequests, BoundedInquiries, Inquiries, ResultTurn, Turns

\* Who took a turn goes on having taken it.
LEMMA TookGrows ==
    ASSUME NEW A, NEW B, Grown(A, B), NEW w, WhatOK(w, A), NEW k, Took(k, w, A)
    PROVE  Took(k, w, B)
  BY ResultTurnType DEF Took, Grown

\* A step of validator n that sends at most a result under a new time stamp, and responds
\* only to results whose turn it takes.
LEMMA StepLast ==
    ASSUME IInv, LInv, NEW n \in Node, nd' = [nd EXCEPT ![n] = nd'[n]],
           Grown(adopted, adopted'), msgs \subseteq msgs',
           \A k \in Node : stamp'[k] \in Nat /\ stamp'[k] >= stamp[k],
           \A r \in msgs' \ msgs : r.type = "result" => r.m = n /\ r.ts = stamp'[n],
           \A a \in msgs' \ msgs : RspOK(a, msgs, adopted'),
           OwnOK(n, nd'[n].cache, msgs', adopted'), LastOK(n, nd'[n], adopted')
    PROVE  LInv'
<1>1. ASSUME NEW a \in msgs' PROVE RspOK(a, msgs', adopted')
  <2>1. CASE a \in msgs
    <3> SUFFICES ASSUME a.type = "rsp"
                 PROVE  \E r \in msgs' : Matches(r, a.m, a.ts) /\ Took(a.by, r.bc, adopted')
      BY DEF RspOK
    <3>1. PICK r \in msgs : Matches(r, a.m, a.ts) /\ Took(a.by, r.bc, adopted)
      BY <2>1 DEF LInv, RspOK
    <3>2. WhatOK(r.bc, adopted)
      BY <3>1 DEF IInv, MsgOK, Matches
    <3> QED
      BY <3>1, <3>2, TookGrows
  <2>2. CASE a \notin msgs
    BY <2>2 DEF RspOK
  <2> QED
    BY <2>1, <2>2
<1>2. ASSUME NEW r \in msgs', r.type = "result" PROVE r.ts \in Nat /\ r.ts <= stamp'[r.m]
  <2>1. CASE r \in msgs
    <3>1. r.m \in Node /\ r.ts \in Nat /\ r.ts <= stamp[r.m]
      BY <1>2, <2>1 DEF LInv, IInv, MsgOK
    <3>2. stamp[r.m] \in Nat
      BY <3>1, BoundsAssumption DEF IInv
    <3> QED
      BY <3>1, <3>2
  <2>2. CASE r \notin msgs
    BY <1>2, <2>2
  <2> QED
    BY <2>1, <2>2
<1>3. ASSUME NEW k \in Node, k # n
      PROVE  OwnOK(k, nd'[k].cache, msgs', adopted') /\ LastOK(k, nd'[k], adopted')
  <2> DEFINE c == nd[k].cache
  <2>1. /\ nd'[k] = nd[k] /\ OwnOK(k, c, msgs, adopted) /\ LastOK(k, nd[k], adopted)
        /\ CacheOK(k, c, adopted) /\ nd[k].turn \in Turns
    BY <1>3 DEF IInv, LInv, NodeOK, Controllers
  <2>2. c.bc # None => WhatOK(c.bc.what, adopted)
    BY <2>1 DEF CacheOK, BroadcastOK
  <2>3. OwnOK(k, c, msgs', adopted')
    <3> SUFFICES ASSUME c.bc # None
                 PROVE  /\ \A r \in msgs' : Matches(r, k, c.bc.ts) => r.bc = c.bc.what
                        /\ \A j \in c.rsps : j = k \/ Took(j, c.bc.what, adopted')
      BY DEF OwnOK
    <3>1. \A r \in msgs' : Matches(r, k, c.bc.ts) => r.bc = c.bc.what
      BY <1>3, <2>1 DEF OwnOK, Matches
    <3>2. \A j \in c.rsps : j = k \/ Took(j, c.bc.what, adopted')
      BY <2>1, <2>2, TookGrows DEF OwnOK
    <3> QED
      BY <3>1, <3>2
  <2>4. LastOK(k, nd[k], adopted')
    <3>1. /\ adopted[nd[k].turn] \cup {k} \subseteq adopted'[nd[k].turn] \cup {k}
          /\ adopted'[nd[k].turn] \cup {k} \subseteq Node
      BY <2>1 DEF Grown, Adoptions
    <3> QED
      BY <2>1, <3>1, QuorumGrows DEF LastOK
  <2> QED
    BY <2>1, <2>3, <2>4
<1>4. \A k \in Node : OwnOK(k, nd'[k].cache, msgs', adopted') /\ LastOK(k, nd'[k], adopted')
  BY <1>3
<1> QED
  BY <1>1, <1>2, <1>4 DEF LInv

\* A step that keeps the turn of n and its result with the responses, or gives the result
\* up, and sends neither results nor responses.
LEMMA QuietLast ==
    ASSUME IInv, LInv, NEW n \in Node, NEW x, nd' = [nd EXCEPT ![n] = x],
           x.via = nd[n].via, x.turn = nd[n].turn,
           \/ x.cache.bc = None
           \/ x.cache.bc = nd[n].cache.bc /\ x.cache.rsps = nd[n].cache.rsps,
           NEW S, msgs' = msgs \cup S, \A m \in S : m.type \notin {"result", "rsp"},
           \A k \in Node : stamp'[k] \in Nat /\ stamp'[k] >= stamp[k], adopted' = adopted
    PROVE  LInv'
<1>1. nd'[n] = x /\ Grown(adopted, adopted')
  BY DEF IInv, Grown
<1>2. OwnOK(n, nd[n].cache, msgs, adopted) /\ LastOK(n, nd[n], adopted)
  BY DEF LInv
<1>3. OwnOK(n, x.cache, msgs', adopted')
  BY <1>2 DEF OwnOK, Matches
<1>4. LastOK(n, x, adopted')
  BY <1>2 DEF LastOK
<1>5. /\ \A r \in msgs' \ msgs : r.type = "result" => r.m = n /\ r.ts = stamp'[n]
      /\ \A a \in msgs' \ msgs : RspOK(a, msgs, adopted')
  BY DEF RspOK
<1> QED
  BY <1>1, <1>3, <1>4, <1>5, StepLast

\* What Sends does to the time stamps.
LEMMA SendsStamps ==
    ASSUME IInv, NEW n \in Node, NEW S, Sends(n, S)
    PROVE  /\ \A k \in Node : stamp'[k] \in Nat /\ stamp'[k] >= stamp[k]
           /\ stamp'[n] = stamp[n] + 1 /\ stamp[n] \in Nat /\ msgs' = msgs \cup S
<1>1. stamp \in [Node -> Nat]
  BY BoundsAssumption DEF IInv
<1> QED
  BY <1>1 DEF Sends

\* The same step with the cache alone.
LEMMA CacheLast ==
    ASSUME IInv, LInv, NEW n \in Node, NEW c, nd' = [nd EXCEPT ![n].cache = c],
           c.bc = None \/ (c.bc = nd[n].cache.bc /\ c.rsps = nd[n].cache.rsps),
           NEW S, \A m \in S : m.type \notin {"result", "rsp"},
           Sends(n, S) \/ (stamp' = stamp /\ msgs' = msgs \cup S), adopted' = adopted
    PROVE  LInv'
<1> DEFINE x == [nd[n] EXCEPT !.cache = c]
<1>1. nd' = [nd EXCEPT ![n] = x] /\ nd[n] \in Controllers
  BY DEF IInv
<1>2. x.via = nd[n].via /\ x.turn = nd[n].turn /\ x.cache = c
  BY <1>1 DEF Controllers
<1> HIDE DEF x
<1>3. /\ \A k \in Node : stamp'[k] \in Nat /\ stamp'[k] >= stamp[k]
      /\ msgs' = msgs \cup S
  <2>1. CASE Sends(n, S)
    BY <2>1, SendsStamps
  <2>2. CASE stamp' = stamp /\ msgs' = msgs \cup S
    BY <2>2, BoundsAssumption DEF IInv
  <2> QED
    BY <2>1, <2>2
<1> QED
  BY <1>1, <1>2, <1>3, QuietLast

\* A master sends a result: nobody has responded to its time stamp yet.
LEMMA ResultLast ==
    ASSUME IInv, LInv, NEW n \in Node, NEW c \in Caches, NEW w,
           nd' = [nd EXCEPT ![n].cache = WithResult(n, c, w)], Sends(n, {Result(n, w)}),
           adopted' = adopted
    PROVE  LInv'
<1> DEFINE x == [nd[n] EXCEPT !.cache = WithResult(n, c, w)]
           r == Result(n, w)
<1>1. nd' = [nd EXCEPT ![n] = x] /\ nd'[n] = x /\ nd[n] \in Controllers
  BY DEF IInv
<1>2. /\ x.via = nd[n].via /\ x.turn = nd[n].turn
      /\ x.cache.bc = [what |-> w, ts |-> stamp[n] + 1] /\ x.cache.rsps = {n}
  BY <1>1 DEF Controllers, WithResult, Caches
<1>3. /\ \A k \in Node : stamp'[k] \in Nat /\ stamp'[k] >= stamp[k]
      /\ stamp'[n] = stamp[n] + 1 /\ stamp[n] \in Nat /\ msgs' = msgs \cup {r}
  BY SendsStamps
<1>4. r.type = "result" /\ r.m = n /\ r.bc = w /\ r.ts = stamp[n] + 1
  BY DEF Result
<1> HIDE DEF x, r
<1>5. OwnOK(n, x.cache, msgs', adopted')
  <2>1. \A s \in msgs : ~Matches(s, n, stamp[n] + 1)
    <3> SUFFICES ASSUME NEW s \in msgs, Matches(s, n, stamp[n] + 1) PROVE FALSE
      OBVIOUS
    <3>1. s.ts \in Nat /\ s.ts <= stamp[n] /\ s.ts = stamp[n] + 1
      BY DEF LInv, Matches
    <3> QED
      BY <1>3, <3>1
  <2>2. \A s \in msgs' : Matches(s, n, x.cache.bc.ts) => s.bc = x.cache.bc.what
    BY <1>2, <1>3, <1>4, <2>1
  <2> QED
    BY <1>2, <2>2 DEF OwnOK
<1>6. LastOK(n, x, adopted')
  BY <1>2 DEF LInv, LastOK
<1>7. /\ \A s \in msgs' \ msgs : s.type = "result" => s.m = n /\ s.ts = stamp'[n]
      /\ \A a \in msgs' \ msgs : RspOK(a, msgs, adopted')
  BY <1>3, <1>4 DEF RspOK
<1>8. Grown(adopted, adopted')
  BY DEF IInv, Grown
<1> QED
  BY <1>1, <1>3, <1>5, <1>6, <1>7, <1>8, StepLast

\* A step of n to y that sends S and inquiries Q.
SentAs(n, y, S, Q) ==
    /\ nd' = [nd EXCEPT ![n] = y]
    /\ msgs' = msgs \cup (S \cup Q) /\ \A m \in Q : m.type = "inquiry"
    /\ \A j \in Node : stamp'[j] \in Nat /\ stamp'[j] >= stamp[j]

\* startReelect keeps the turn it is given, and sends an inquiry at most.
StartedAs(n, x, y, S, Q) ==
    /\ SentAs(n, y, S, Q)
    /\ y.via = x.via /\ y.turn = x.turn
    /\ y.cache.bc = None \/ y.cache = x.cache
LEMMA StartFields ==
    ASSUME IInv, NEW n \in Node, NEW x \in Controllers, NEW k, NEW S, startReelect(n, x, k, S)
    PROVE  \E y, Q : StartedAs(n, x, y, S, Q)
<1> DEFINE q == Inquiry(n, x.turn, k)
           y == [x EXCEPT !.state = "stReelect", !.reelect = k]
           z == [y EXCEPT !.cache = WithInquiry(n, q)]
<1>1. y.via = x.via /\ y.turn = x.turn /\ y.cache = x.cache
  BY DEF Controllers
<1>2. z.via = x.via /\ z.turn = x.turn /\ z.cache = WithInquiry(n, q)
  BY DEF Controllers
<1>3. q.type = "inquiry" /\ WithInquiry(n, q).bc = None
  BY DEF Inquiry, WithInquiry, EmptyCache
<1>4. CASE Master(x.turn, k) = n
  <2>1. nd' = [nd EXCEPT ![n] = z] /\ Sends(n, S \cup {q})
    BY <1>4 DEF startReelect
  <2> HIDE DEF z, q, y
  <2>2. /\ msgs' = msgs \cup (S \cup {q})
        /\ \A j \in Node : stamp'[j] \in Nat /\ stamp'[j] >= stamp[j]
    BY <2>1, SendsStamps
  <2>3. z.cache.bc = None /\ \A m \in {q} : m.type = "inquiry"
    BY <1>2, <1>3
  <2>4. StartedAs(n, x, z, S, {q})
    BY <1>2, <2>1, <2>2, <2>3 DEF StartedAs, SentAs
  <2> QED
    BY <2>4
<1>5. CASE Master(x.turn, k) # n
  <2>1. nd' = [nd EXCEPT ![n] = y] /\ msgs' = msgs \cup (S \cup {}) /\ stamp' = stamp
    BY <1>5 DEF startReelect
  <2> HIDE DEF z, q, y
  <2>2. \A j \in Node : stamp'[j] \in Nat /\ stamp'[j] >= stamp[j]
    BY <2>1, BoundsAssumption DEF IInv
  <2>3. StartedAs(n, x, y, S, {})
    BY <1>1, <2>1, <2>2 DEF StartedAs, SentAs
  <2> QED
    BY <2>3
<1> QED
  BY <1>4, <1>5

\* Finish gives the result up, and moves n to the turn of a result that is not a block.
FinishedAs(n, m, w, x, S, Q) ==
    /\ SentAs(n, x, S, Q) /\ x.cache.bc = None
    /\ \/ /\ w.kind = "POS" /\ adopted' = adopted
          /\ x.via = nd[n].via /\ x.turn = nd[n].turn
       \/ /\ w.kind = "Agree" /\ ResultTurn(w) \in Turns
          /\ adopted' = [adopted EXCEPT ![ResultTurn(w)] = @ \cup {n}]
          /\ x.via = m /\ x.turn = ResultTurn(w)

\* A result is taken: the master's own only after a quorum, and who responds takes it.
LEMMA FinishLast ==
    ASSUME IInv, LInv, NEW n \in Node, NEW m \in Node, NEW w, WhatOK(w, adopted),
           NEW S, Finish(n, m, w, S),
           \A s \in S : /\ s.type = "rsp" /\ s.by = n
                        /\ \E r \in msgs : Matches(r, s.m, s.ts) /\ r.bc = w,
           m = n /\ w.kind = "Agree" => IsQuorum(adopted[ResultTurn(w)] \cup {n}, Node)
    PROVE  LInv'
<1> DEFINE cleared == [nd[n] EXCEPT !.cache = EmptyCache, !.reelect = 0]
           T == ResultTurn(w)
           turned == [cleared EXCEPT !.turn = T, !.via = m]
<1>1. nd[n] \in Controllers /\ stamp \in [Node -> Nat] /\ adopted \in Adoptions
  BY BoundsAssumption DEF IInv
<1>2. EmptyCache.bc = None /\ EmptyCache \in Caches /\ 0 \in Turns
  <2>1. EmptyCache.bc = None
    BY DEF EmptyCache
  <2>2. 0 \in Turns
    BY BoundsAssumption DEF Turns
  <2> QED
    BY <2>1, <2>2, EmptySound
<1>3. /\ cleared \in Controllers /\ cleared.via = nd[n].via /\ cleared.turn = nd[n].turn
      /\ cleared.cache = EmptyCache
  BY <1>1, <1>2 DEF Controllers
<1>4. \E x, Q : FinishedAs(n, m, w, x, S, Q)
  <2>1. CASE w.kind = "POS"
    <3> DEFINE y == [cleared EXCEPT !.state = "stMining"]
    <3>1. /\ nd' = [nd EXCEPT ![n] = y] /\ msgs' = msgs \cup S /\ stamp' = stamp
          /\ adopted' = adopted
      BY <2>1 DEF Finish
    <3> HIDE DEF cleared
    <3>2. y.via = nd[n].via /\ y.turn = nd[n].turn /\ y.cache.bc = None
      BY <1>2, <1>3 DEF Controllers
    <3> HIDE DEF y, T
    <3>3. \A j \in Node : stamp'[j] \in Nat /\ stamp'[j] >= stamp[j]
      BY <1>1, <3>1
    <3>4. msgs' = msgs \cup (S \cup {})
      BY <3>1
    <3>5. FinishedAs(n, m, w, y, S, {})
      BY <2>1, <3>1, <3>2, <3>3, <3>4 DEF FinishedAs, SentAs
    <3> QED
      BY <3>5
  <2>2. CASE w.kind # "POS"
    <3>1. w.kind = "Agree" /\ T \in Turns
      BY <2>2, ResultTurnType DEF WhatOK, Whats, PosWhats, AgreeWhats
    <3>2. adopted' = [adopted EXCEPT ![T] = @ \cup {n}]
      BY <2>2 DEF Finish
    <3>3. PICK st \in {"stMining", "stPos"} :
             \/ /\ nd' = [nd EXCEPT ![n] = [turned EXCEPT !.state = st]]
                /\ msgs' = msgs \cup S /\ stamp' = stamp
             \/ \E k \in 1 .. MaxTurn - T : startReelect(n, turned, k, S)
      BY <2>2 DEF Finish
    <3> HIDE DEF cleared
    <3>4. /\ turned \in Controllers /\ turned.via = m /\ turned.turn = T
          /\ turned.cache = EmptyCache
      BY <1>3, <3>1 DEF Controllers
    <3> HIDE DEF turned, T
    <3>5. CASE /\ nd' = [nd EXCEPT ![n] = [turned EXCEPT !.state = st]]
               /\ msgs' = msgs \cup S /\ stamp' = stamp
      <4> DEFINE y == [turned EXCEPT !.state = st]
      <4>1. y.via = m /\ y.turn = T /\ y.cache.bc = None
        BY <1>2, <3>4 DEF Controllers
      <4>2. nd' = [nd EXCEPT ![n] = y] /\ msgs' = msgs \cup (S \cup {})
        BY <3>5
      <4> HIDE DEF y
      <4>3. \A j \in Node : stamp'[j] \in Nat /\ stamp'[j] >= stamp[j]
        BY <1>1, <3>5
      <4>4. FinishedAs(n, m, w, y, S, {})
        BY <3>1, <3>2, <4>1, <4>2, <4>3 DEF FinishedAs, SentAs, T
      <4> QED
        BY <4>4
    <3>6. CASE \E k \in 1 .. MaxTurn - T : startReelect(n, turned, k, S)
      <4>1. PICK k \in 1 .. MaxTurn - T : startReelect(n, turned, k, S)
        BY <3>6
      <4>2. PICK y, Q : StartedAs(n, turned, y, S, Q)
        BY <3>4, <4>1, StartFields
      <4>3. y.cache.bc = None /\ y.via = m /\ y.turn = T /\ SentAs(n, y, S, Q)
        BY <1>2, <3>4, <4>2 DEF StartedAs
      <4>4. FinishedAs(n, m, w, y, S, Q)
        BY <3>1, <3>2, <4>3 DEF FinishedAs, T
      <4> QED
        BY <4>4
    <3> QED
      BY <3>3, <3>5, <3>6
  <2> QED
    BY <2>1, <2>2
<1> HIDE DEF cleared, turned
<1>5. PICK x, Q : FinishedAs(n, m, w, x, S, Q)
  BY <1>4
<1>6. /\ nd' = [nd EXCEPT ![n] = x] /\ x.cache.bc = None
      /\ msgs' = msgs \cup (S \cup Q) /\ \A q \in Q : q.type = "inquiry"
      /\ \A j \in Node : stamp'[j] \in Nat /\ stamp'[j] >= stamp[j]
      /\ \/ /\ w.kind = "POS" /\ adopted' = adopted
            /\ x.via = nd[n].via /\ x.turn = nd[n].turn
         \/ /\ w.kind = "Agree" /\ T \in Turns
            /\ adopted' = [adopted EXCEPT ![T] = @ \cup {n}]
            /\ x.via = m /\ x.turn = T
  BY <1>5 DEF FinishedAs, SentAs
<1> HIDE DEF T
<1>7. Grown(adopted, adopted') /\ nd'[n] = x
  BY <1>1, <1>6 DEF Grown, Adoptions, IInv
<1>8. OwnOK(n, x.cache, msgs', adopted')
  BY <1>6 DEF OwnOK
<1>9. Took(n, w, adopted')
  BY <1>1, <1>6 DEF Took, T, Adoptions
<1>10. /\ \A r \in msgs' \ msgs : r.type = "result" => r.m = n /\ r.ts = stamp'[n]
       /\ \A a \in msgs' \ msgs : RspOK(a, msgs, adopted')
  BY <1>6, <1>9 DEF RspOK
<1>11. LastOK(n, x, adopted')
  <2>1. LastOK(n, nd[n], adopted)
    BY DEF LInv
  <2>2. CASE w.kind = "POS"
    BY <1>6, <2>1, <2>2 DEF LastOK
  <2>3. CASE w.kind # "POS" /\ m = n
    <3>1. adopted'[T] \cup {n} = adopted[T] \cup {n} /\ x.turn = T /\ w.kind = "Agree"
      BY <1>1, <1>6, <2>3 DEF Adoptions
    <3> QED
      BY <2>3, <3>1 DEF LastOK, T
  <2>4. CASE w.kind # "POS" /\ m # n
    BY <1>6, <2>4 DEF LastOK
  <2> QED
    BY <2>2, <2>3, <2>4
<1> QED
  BY <1>6, <1>7, <1>8, <1>10, <1>11, StepLast

\* handleResultBroadcastMsg: the response says that the turn is taken.
LEMMA BroadcastLast ==
    ASSUME IInv, LInv, NEW n \in Node, NEW m \in msgs, handleResultBroadcastMsg(n, m)
    PROVE  LInv'
<1> DEFINE r == [type |-> "rsp", by |-> n, m |-> m.m, ts |-> m.ts]
<1>1. m.m \in Node /\ WhatOK(m.bc, adopted) /\ m.type = "result" /\ m.m # n
  BY DEF IInv, MsgOK, handleResultBroadcastMsg
<1>2. Finish(n, m.m, m.bc, {r})
  BY DEF handleResultBroadcastMsg
<1>3. r.type = "rsp" /\ r.by = n /\ Matches(m, r.m, r.ts)
  BY <1>1 DEF Matches
<1> HIDE DEF r
<1>4. \A s \in {r} : /\ s.type = "rsp" /\ s.by = n
                     /\ \E k \in msgs : Matches(k, s.m, s.ts) /\ k.bc = m.bc
  BY <1>3
<1> QED
  BY <1>1, <1>2, <1>4, FinishLast

\* handleResultRsp: the master takes its result when those who responded are a quorum.
LEMMA RspLast ==
    ASSUME IInv, LInv, NEW n \in Node, NEW a \in msgs, handleResultRsp(n, a)
    PROVE  LInv'
<1> DEFINE cache == nd[n].cache
           answered == WithRsp(cache, a.by)
           w == cache.bc.what
<1>1. /\ a.type = "rsp" /\ a.m = n /\ cache.bc # None /\ a.ts = cache.bc.ts
  BY DEF handleResultRsp, ForResult
<1>2. /\ cache \in Caches /\ CacheOK(n, cache, adopted) /\ OwnOK(n, cache, msgs, adopted)
      /\ a.by \in Node /\ nd[n] \in Controllers
  BY <1>1 DEF IInv, LInv, NodeOK, Controllers, MsgOK
<1>3. WhatOK(w, adopted)
  BY <1>1, <1>2 DEF CacheOK, BroadcastOK
<1>4. PICK r \in msgs : Matches(r, a.m, a.ts) /\ Took(a.by, r.bc, adopted)
  BY <1>1 DEF LInv, RspOK
<1>5. Took(a.by, w, adopted)
  BY <1>1, <1>2, <1>4 DEF OwnOK
<1>6. answered.rsps = cache.rsps \cup {a.by} /\ answered.bc = cache.bc
  BY <1>2 DEF WithRsp, Caches
<1> HIDE DEF answered
<1>7. \A k \in answered.rsps : k = n \/ Took(k, w, adopted)
  BY <1>1, <1>2, <1>5, <1>6 DEF OwnOK
<1>8. ASSUME Answered(answered.rsps), Finish(n, n, w, {})
      PROVE  LInv'
  <2>1. w.kind = "Agree" => IsQuorum(adopted[ResultTurn(w)] \cup {n}, Node)
    <3> SUFFICES ASSUME w.kind = "Agree"
                 PROVE  IsQuorum(adopted[ResultTurn(w)] \cup {n}, Node)
      OBVIOUS
    <3>1. ResultTurn(w) \in Turns
      BY <1>3, ResultTurnType
    <3>2. adopted[ResultTurn(w)] \cup {n} \subseteq Node
      BY <3>1 DEF IInv, Adoptions
    <3>3. answered.rsps \subseteq adopted[ResultTurn(w)] \cup {n}
      BY <1>7 DEF Took
    <3>4. IsQuorum(answered.rsps, Node)
      BY <1>8 DEF Answered, Quorum
    <3> QED
      BY <3>2, <3>3, <3>4, QuorumGrows
  <2> DEFINE none == {}
  <2> HIDE DEF w
  <2>2. \A s \in none : /\ s.type = "rsp" /\ s.by = n
                        /\ \E k \in msgs : Matches(k, s.m, s.ts) /\ k.bc = w
    OBVIOUS
  <2>3. Finish(n, n, w, none)
    BY <1>8
  <2> HIDE DEF none
  <2> QED
    BY <1>3, <2>1, <2>2, <2>3, FinishLast
<1>9. ASSUME nd' = [nd EXCEPT ![n].cache = answered], UNCHANGED <<stamp, msgs, adopted, from>>
      PROVE  LInv'
  <2> DEFINE x == [nd[n] EXCEPT !.cache = answered]
  <2>1. nd' = [nd EXCEPT ![n] = x] /\ nd'[n] = x
    BY <1>9 DEF IInv
  <2>2. x.via = nd[n].via /\ x.turn = nd[n].turn /\ x.cache = answered
    BY <1>2 DEF Controllers
  <2> HIDE DEF x
  <2>3. OwnOK(n, x.cache, msgs', adopted')
    BY <1>2, <1>6, <1>7, <1>9, <2>2 DEF OwnOK
  <2>4. LastOK(n, x, adopted')
    BY <1>9, <2>2 DEF LInv, LastOK
  <2>5. Grown(adopted, adopted') /\ \A k \in Node : stamp'[k] \in Nat /\ stamp'[k] >= stamp[k]
    BY <1>9, BoundsAssumption DEF IInv, Grown
  <2> QED
    BY <1>9, <2>1, <2>3, <2>4, <2>5, StepLast
<1> QED
  BY <1>8, <1>9 DEF handleResultRsp, answered

\* The steps before a result is sent.
LEMMA TimeoutLast ==
    ASSUME IInv, LInv, NEW n \in Node, Timeout(n)
    PROVE  LInv'
<1>1. startReelect(n, nd[n], nd[n].reelect + 1, {}) /\ adopted' = adopted /\ nd[n] \in Controllers
  BY DEF Timeout, IInv
<1>2. PICK y, Q : StartedAs(n, nd[n], y, {}, Q)
  BY <1>1, StartFields
<1>3. /\ nd' = [nd EXCEPT ![n] = y] /\ y.via = nd[n].via /\ y.turn = nd[n].turn
      /\ y.cache.bc = None \/ y.cache = nd[n].cache
      /\ msgs' = msgs \cup Q /\ \A m \in Q : m.type \notin {"result", "rsp"}
      /\ \A j \in Node : stamp'[j] \in Nat /\ stamp'[j] >= stamp[j]
  BY <1>2 DEF StartedAs, SentAs
<1>4. \/ y.cache.bc = None
      \/ y.cache.bc = nd[n].cache.bc /\ y.cache.rsps = nd[n].cache.rsps
  BY <1>3
<1> QED
  BY <1>1, <1>3, <1>4, QuietLast

\* reelectTimeOutHandle sends a result again under a new time stamp, or something else.
LEMMA ReelectTimeoutLast ==
    ASSUME IInv, LInv, NEW n \in Node, reelectTimeOutHandle(n)
    PROVE  LInv'
<1> DEFINE cache == nd[n].cache
           q == Inquiry(n, nd[n].turn, nd[n].reelect)
           req == LeaderReq(n, cache.req.inq)
<1>1. cache \in Caches /\ adopted' = adopted
  BY DEF IInv, Controllers, reelectTimeOutHandle
<1>2. CASE cache.result = "Agree"
  <2>1. nd' = [nd EXCEPT ![n].cache = WithReq(n, cache, cache.req.inq)] /\ Sends(n, {req})
    BY <1>2 DEF reelectTimeOutHandle
  <2>2. /\ WithReq(n, cache, cache.req.inq).bc = cache.bc
        /\ WithReq(n, cache, cache.req.inq).rsps = cache.rsps
        /\ \A m \in {req} : m.type \notin {"result", "rsp"}
    BY <1>1 DEF WithReq, Caches, LeaderReq
  <2> QED
    BY <1>1, <2>1, <2>2, CacheLast
<1>3. CASE cache.result = "POS"
  <2>1. /\ nd' = [nd EXCEPT ![n].cache = WithResult(n, cache, cache.bc.what)]
        /\ Sends(n, {Result(n, cache.bc.what)})
    BY <1>3 DEF reelectTimeOutHandle
  <2> QED
    BY <1>1, <2>1, ResultLast
<1>4. CASE cache.result \notin {"Agree", "POS"}
  <2>1. nd' = [nd EXCEPT ![n].cache = WithInquiry(n, q)] /\ Sends(n, {q})
    BY <1>4 DEF reelectTimeOutHandle
  <2>2. /\ WithInquiry(n, q).bc = None
        /\ \A m \in {q} : m.type \notin {"result", "rsp"}
    BY DEF WithInquiry, EmptyCache, Inquiry
  <2> QED
    BY <1>1, <2>1, <2>2, CacheLast
<1> QED
  BY <1>2, <1>3, <1>4

\* handleBlockPOSFinishedNotify leaves the cache and the turn alone.
LEMMA PosLast ==
    ASSUME IInv, LInv, NEW n \in Node, NEW t \in Turns, PosFinished(n, t)
    PROVE  LInv'
<1> DEFINE x == [nd[n] EXCEPT !.pos = Append(@, t),
                              !.state = IF @ = "stPos" THEN "stMining" ELSE @]
           none == {}
<1>1. /\ nd' = [nd EXCEPT ![n] = x] /\ msgs' = msgs \cup none /\ stamp' = stamp
      /\ adopted' = adopted /\ nd[n] \in Controllers
  BY DEF PosFinished, IInv
<1>2. x.via = nd[n].via /\ x.turn = nd[n].turn /\ x.cache = nd[n].cache
  BY <1>1 DEF Controllers
<1>3. \A k \in Node : stamp'[k] \in Nat /\ stamp'[k] >= stamp[k]
  BY <1>1, BoundsAssumption DEF IInv
<1> HIDE DEF x
<1>4. /\ x.cache.bc = nd[n].cache.bc /\ x.cache.rsps = nd[n].cache.rsps
      /\ \A m \in none : m.type \notin {"result", "rsp"}
  BY <1>2
<1> HIDE DEF none
<1> QED
  BY <1>1, <1>2, <1>3, <1>4, QuietLast

\* A step that only sends a message, neither a result nor a response.
LEMMA AnswerLast ==
    ASSUME IInv, LInv, NEW n \in Node, NEW m, m.type \notin {"result", "rsp"},
           msgs' = msgs \cup {m}, UNCHANGED <<nd, stamp, adopted>>
    PROVE  LInv'
<1> DEFINE x == nd[n]
           S == {m}
<1>1. nd' = [nd EXCEPT ![n] = x] /\ msgs' = msgs \cup S
  BY DEF IInv
<1>2. \A k \in Node : stamp'[k] \in Nat /\ stamp'[k] >= stamp[k]
  BY BoundsAssumption DEF IInv
<1>3. \A k \in S : k.type \notin {"result", "rsp"}
  OBVIOUS
<1>4. /\ x.via = nd[n].via /\ x.turn = nd[n].turn
      /\ x.cache.bc = nd[n].cache.bc /\ x.cache.rsps = nd[n].cache.rsps
  OBVIOUS
<1> HIDE DEF x, S
<1> QED
  BY <1>1, <1>2, <1>3, <1>4, QuietLast

\* handleInquiryReq and handleRLReq answer.
LEMMA ReqLast ==
    ASSUME IInv, LInv, NEW n \in Node, NEW m \in msgs,
           handleInquiryReq(n, m) \/ handleRLReq(n, m)
    PROVE  LInv'
<1>1. CASE handleInquiryReq(n, m)
  <2>1. PICK what : msgs' = msgs \cup {Answer(n, m, what)}
    BY <1>1 DEF handleInquiryReq
  <2>2. Answer(n, m, what).type = "answer"
    BY DEF Answer
  <2>3. UNCHANGED <<nd, stamp, adopted>>
    BY <1>1 DEF handleInquiryReq
  <2> QED
    BY <2>1, <2>2, <2>3, AnswerLast
<1>2. CASE handleRLReq(n, m)
  <2> DEFINE v == [type |-> "vote", by |-> n, req |-> m]
  <2>1. msgs' = msgs \cup {v} /\ UNCHANGED <<nd, stamp, adopted>> /\ v.type = "vote"
    BY <1>2 DEF handleRLReq
  <2> HIDE DEF v
  <2> QED
    BY <2>1, AnswerLast
<1> QED
  BY <1>1, <1>2

\* handleInquiryRsp notes an agreement, asks for votes or sends a result.
LEMMA InquiryRspLast ==
    ASSUME IInv, LInv, NEW n \in Node, NEW a \in msgs, handleInquiryRsp(n, a)
    PROVE  LInv'
<1> DEFINE cache == nd[n].cache
           agreed == WithAgree(cache, a.by)
           asked == WithReq(n, Agreed(cache), a.q)
<1>1. cache \in Caches /\ adopted' = adopted /\ a.what.kind \in {"POS", "Agree"}
  BY DEF IInv, Controllers, handleInquiryRsp, MsgOK
<1>2. NotAgreed(cache) \in Caches
  BY <1>1 DEF Caches, NotAgreed
<1>3. /\ agreed.bc = cache.bc /\ agreed.rsps = cache.rsps
      /\ asked.bc = cache.bc /\ asked.rsps = cache.rsps
      /\ LeaderReq(n, a.q).type = "req"
  BY <1>1 DEF Caches, WithAgree, WithReq, Agreed, LeaderReq
<1>4. CASE a.what.kind = "POS"
  <2>1. /\ nd' = [nd EXCEPT ![n].cache = WithResult(n, NotAgreed(cache), a.what)]
        /\ Sends(n, {Result(n, a.what)})
    BY <1>4 DEF handleInquiryRsp
  <2> QED
    BY <1>1, <1>2, <2>1, ResultLast
<1>5. CASE a.what.kind = "Agree"
  <2>1. \/ nd' = [nd EXCEPT ![n].cache = asked] /\ Sends(n, {LeaderReq(n, a.q)})
        \/ nd' = [nd EXCEPT ![n].cache = agreed] /\ stamp' = stamp /\ msgs' = msgs
    BY <1>5 DEF handleInquiryRsp
  <2> HIDE DEF asked, agreed
  <2>2. CASE nd' = [nd EXCEPT ![n].cache = asked] /\ Sends(n, {LeaderReq(n, a.q)})
    <3>1. \A m \in {LeaderReq(n, a.q)} : m.type \notin {"result", "rsp"}
      BY <1>3
    <3> QED
      BY <1>1, <1>3, <2>2, <3>1, CacheLast
  <2>3. CASE nd' = [nd EXCEPT ![n].cache = agreed] /\ stamp' = stamp /\ msgs' = msgs
    <3> DEFINE none == {}
    <3>1. msgs' = msgs \cup none /\ \A m \in none : m.type \notin {"result", "rsp"}
      BY <2>3
    <3> HIDE DEF none
    <3> QED
      BY <1>1, <1>3, <2>3, <3>1, CacheLast
  <2> QED
    BY <2>1, <2>2, <2>3
<1> QED
  BY <1>1, <1>4, <1>5

\* handleRLVote notes a vote or sends the result.
LEMMA VoteLast ==
    ASSUME IInv, LInv, NEW n \in Node, NEW v \in msgs, handleRLVote(n, v)
    PROVE  LInv'
<1> DEFINE cache == nd[n].cache
           voted == WithVote(cache, v.by)
           what == [kind |-> "Agree", req |-> v.req, votes |-> voted.votes]
<1>1. cache \in Caches /\ adopted' = adopted /\ v.by \in Node
  BY DEF IInv, Controllers, handleRLVote, MsgOK
<1>2. voted \in Caches /\ voted.bc = cache.bc /\ voted.rsps = cache.rsps
  BY <1>1 DEF Caches, WithVote
<1>3. \/ nd' = [nd EXCEPT ![n].cache = WithResult(n, voted, what)] /\ Sends(n, {Result(n, what)})
      \/ nd' = [nd EXCEPT ![n].cache = voted] /\ stamp' = stamp /\ msgs' = msgs
  BY DEF handleRLVote
<1> HIDE DEF voted, what
<1>4. CASE nd' = [nd EXCEPT ![n].cache = WithResult(n, voted, what)] /\ Sends(n, {Result(n, what)})
  BY <1>1, <1>2, <1>4, ResultLast
<1>5. CASE nd' = [nd EXCEPT ![n].cache = voted] /\ stamp' = stamp /\ msgs' = msgs
  <2> DEFINE none == {}
  <2>1. msgs' = msgs \cup none /\ \A m \in none : m.type \notin {"result", "rsp"}
    BY <1>5
  <2> HIDE DEF none
  <2> QED
    BY <1>1, <1>2, <1>5, <2>1, CacheLast
<1> QED
  BY <1>3, <1>4, <1>5

\* Every step keeps what is known of the responses.
LEMMA NextLast ==
    ASSUME IInv, LInv, [Next]_vars PROVE LInv'
<1>1. CASE Next
  BY <1>1, TimeoutLast, ReelectTimeoutLast, PosLast, ReqLast, InquiryRspLast, VoteLast,
     BroadcastLast, RspLast DEF Next
<1>2. CASE UNCHANGED vars
  BY <1>2 DEF vars, LInv
<1> QED
  BY <1>1, <1>2

\* A master takes its own result only after a quorum (handleResultRsp): it is never alone
\* in the turn that it leads, for every number of validators and whatever responses to
\* earlier results are still on their way.
THEOREM MastersAreNeverAlone == Spec => []MasterLast
<1>1. Init => LInv
  <2> SUFFICES ASSUME Init PROVE LInv
    OBVIOUS
  <2>1. \A n \in Node : nd[n].turn = 0 /\ nd[n].cache = EmptyCache
    BY DEF Init
  <2>2. EmptyCache.bc = None /\ msgs = {}
    BY DEF EmptyCache, Init
  <2> QED
    BY <2>1, <2>2 DEF LInv, OwnOK, LastOK
<1>2. IInv /\ LInv /\ [Next]_vars => LInv'
  BY NextLast
<1>3. LInv => MasterLast
  BY DEF LInv, LastOK, MasterLast
<1> QED
  BY <1>1, <1>2, <1>3, Inductive, PTL DEF Spec
===============================================================================
