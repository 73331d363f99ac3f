------------------------------- MODULE TxPool -------------------------------
(***************************************************************************)
(* The transaction pool (core/tx_pool.go, core/tx_list.go): the pending    *)
(* and queued transactions of every account, the table of all of them, the *)
(* heap of prices with its stale entries, and the nonce that the pool      *)
(* hands out next.  In this system nonces need not be consecutive: Ready   *)
(* promotes whatever is queued.  Every action runs under TxPool.mu.  The   *)
(* tables of numbers that travel between nodes are in TxFlood.             *)
(***************************************************************************)
EXTENDS Integers, Sequences, FiniteSets, FiniteSetsExt, SequencesExt

CONSTANTS
  Accounts,
  Txs,           \* records [from, nonce, price, cost, total]: Cost is that of the first receiver, CostALL the total
  Funds,         \* the balances that an account may have
  MaxNonce,      \* bound: the highest nonce of an account's state
  GasPrices,     \* the values of SetGasPrice
  RpcAccounts,   \* the accounts whose transactions arrive by AddLocal
  PriceBump, AccountSlots, GlobalSlots, GlobalQueue

VARIABLES
  pool,      \* pending, queue: the lists of each account; all: txLookup; items: how often
             \* each is in priceHeap; stales; next: pendingState.GetNonce of each account;
             \* beats: the accounts in beats, by time
  nonce,     \* currentState.GetNonce
  balance,   \* currentState.GetBalance
  gasPrice,
  locals

vars == <<pool, nonce, balance, gasPrice, locals>>

NoList == [txs |-> {}, costcap |-> 0]

Init ==
  /\ pool = [pending |-> [a \in Accounts |-> NoList], queue |-> [a \in Accounts |-> NoList],
             all |-> {}, items |-> [t \in Txs |-> 0], stales |-> 0,
             next |-> [a \in Accounts |-> 0], beats |-> <<>>]
  /\ nonce = [a \in Accounts |-> 0]
  /\ balance = [a \in Accounts |-> Max(Funds)]
  /\ gasPrice = Min(GasPrices) /\ locals = {}

ByNonce(txs) == SetToSortSeq(txs, LAMBDA s, t : s.nonce < t.nonce)

-----------------------------------------------------------------------------
(* txPricedList *)

HeapSize(items) == MapThenSumSet(LAMBDA t : items[t], Txs)

Put(p, t) == [p EXCEPT !.all = @ \cup {t}, !.items[t] = @ + 1]

(* Removed: the heap keeps the entry until a quarter of it is stale. *)
Removed(p) ==
  IF p.stales + 1 <= HeapSize(p.items) \div 4
    THEN [p EXCEPT !.stales = @ + 1]
    ELSE [p EXCEPT !.stales = 0, !.items = [t \in Txs |-> IF t \in p.all THEN 1 ELSE 0]]

Forget(p, t) == Removed([p EXCEPT !.all = @ \ {t}])
ForgetAll(p, txs) == FoldLeft(Forget, p, ByNonce(txs))

(* The head of the heap: the cheapest, and of these the highest nonce. *)
Cheapest(p) ==
  CHOOSE t \in {x \in Txs : p.items[x] > 0} :
    \A x \in Txs : p.items[x] > 0 =>
      \/ t.price < x.price
      \/ t.price = x.price /\ t.nonce >= x.nonce

Pop(p) == [p EXCEPT !.items[Cheapest(p)] = @ - 1]

(* Stale entries at the head of the heap are popped when they are met. *)
RECURSIVE PopStale(_)
PopStale(p) ==
  IF HeapSize(p.items) > 0 /\ Cheapest(p) \notin p.all
    THEN PopStale([Pop(p) EXCEPT !.stales = @ - 1])
    ELSE p

(* Discard and Cap: entries are popped until count remote transactions are *)
(* found, or one that is not below the price; those of local accounts are  *)
(* pushed back at the end.                                                 *)
PushBack(p, save) == FoldLeft(LAMBDA q, t : [q EXCEPT !.items[t] = @ + 1], p, save)

RECURSIVE TakeNext(_, _, _, _, _)
TakeNext(p, count, price, drop, save) ==
  LET t == Cheapest(p)
  IN  IF count = 0 \/ HeapSize(p.items) = 0 \/ t.price >= price
        THEN [pool |-> PushBack(p, save), drop |-> drop]
      ELSE IF t.from \in locals
        THEN TakeNext(PopStale(Pop(p)), count, price, drop, Append(save, t))
      ELSE TakeNext(IF count = 1 THEN Pop(p) ELSE PopStale(Pop(p)),
                    count - 1, price, Append(drop, t), save)

Take(p, count, price) ==
  IF count = 0 THEN [pool |-> p, drop |-> <<>>] ELSE TakeNext(PopStale(p), count, price, <<>>, <<>>)

Discard(p, count) == Take(p, count, Max({t.price : t \in Txs}) + 1)
CapPrice(p, price) == Take(p, HeapSize(p.items) + 1, price)

Underpriced(p, t) ==
  t.from \notin locals /\ HeapSize(p.items) > 0 /\ Cheapest(p).price >= t.price

-----------------------------------------------------------------------------
(* txList *)

Same(l, t) == {o \in l.txs : o.nonce = t.nonce}

Refused(l, t) ==
  \E o \in Same(l, t) : o.price >= t.price \/ (o.price * (100 + PriceBump)) \div 100 > t.price

ListAdd(l, t) ==
  [txs |-> (l.txs \ Same(l, t)) \cup {t}, costcap |-> Max({l.costcap, t.cost})]

Without(l, txs) ==
  IF l.txs \subseteq txs THEN NoList ELSE [l EXCEPT !.txs = @ \ txs]

(* Filter, with its short cut: costcap is at least the highest cost. *)
TooCostly(l, funds) ==
  IF l.costcap <= funds THEN {} ELSE {t \in l.txs : t.cost > funds}

LowerCap(l, funds) == [l EXCEPT !.costcap = Min({@, funds})]

-----------------------------------------------------------------------------
(* The methods of TxPool *)

PutNew(p, t) == IF t \in p.all THEN p ELSE Put(p, t)

(* A mutant of Enqueue: the replaced transaction stays among all. *)
EnqueueKeepsOld(p, t) ==
  IF Refused(p.queue[t.from], t) THEN p
  ELSE PutNew([p EXCEPT !.queue[t.from] = ListAdd(@, t)], t)

Enqueue(p, t) ==
  LET l == p.queue[t.from]
  IN  IF Refused(l, t) THEN p
      ELSE PutNew([ForgetAll(p, Same(l, t)) EXCEPT !.queue[t.from] = ListAdd(l, t)], t)

Promote(p, t) ==
  LET l == p.pending[t.from]
  IN  IF Refused(l, t) THEN Forget(p, t)
      ELSE PutNew([ForgetAll(p, Same(l, t)) EXCEPT
                     !.pending[t.from] = ListAdd(l, t),
                     !.next[t.from] = t.nonce + 1,
                     !.beats = Append(Remove(@, t.from), t.from)], t)

(* removeTx: the later transactions of the account go back to the queue. *)
Unlist(p, t) ==
  LET a == t.from
      l == p.pending[a]
      same == Same(l, t)
      later == {x \in l.txs : x.nonce > t.nonce}
      less == [p EXCEPT !.pending[a] = Without(l, same \cup later),
                        !.beats = IF l.txs = same THEN Remove(@, a) ELSE @]
  IN  IF same # {} THEN [FoldLeft(Enqueue, less, ByNonce(later)) EXCEPT !.next[a] = Min({@, t.nonce})]
      ELSE [p EXCEPT !.queue[a] = Without(@, Same(@, t))]

RemoveTx(p, t, outofbound) ==
  IF t \notin p.all THEN p
  ELSE Unlist(IF outofbound THEN Forget(p, t) ELSE [p EXCEPT !.all = @ \ {t}], t)

RemoveAll(p, txs, outofbound) == FoldLeft(LAMBDA q, t : RemoveTx(q, t, outofbound), p, txs)

(* The transactions of the queue that the state has overtaken or that cost *)
(* too much are dropped, all others are promoted: Ready leaves none.       *)
PromoteAccount(p, a, state) ==
  LET old == {t \in p.queue[a].txs : t.nonce < state.nonce[a]}
      costly == TooCostly(Without(p.queue[a], old), state.balance[a])
      ready == ByNonce(p.queue[a].txs \ (old \cup costly))
      dropped == ForgetAll(ForgetAll(p, old), costly)
  IN  FoldLeft(Promote, [dropped EXCEPT !.queue[a] = NoList], ready)

Size(lists) == MapThenSumSet(LAMBDA a : Cardinality(lists[a].txs), Accounts)
Length(p, a) == Cardinality(p.pending[a].txs)

(* Cap(Len - 1) of a pending list. *)
DropLast(p, a) ==
  LET t == CHOOSE x \in p.pending[a].txs : \A y \in p.pending[a].txs : y.nonce <= x.nonce
  IN  [Forget(p, t) EXCEPT !.pending[a].txs = @ \ {t}, !.next[a] = Min({@, t.nonce})]

RECURSIVE Shorten(_, _, _, _)
Shorten(p, offenders, a, threshold) ==
  IF Size(p.pending) > GlobalSlots /\ Length(p, a) > threshold
    THEN Shorten(FoldLeft(DropLast, p, offenders), offenders, a, threshold)
    ELSE p

(* The longest lists of remote accounts are cut to the length of the next  *)
(* one, until enough is dropped; then all of them down to AccountSlots.    *)
RECURSIVE Equalize(_, _, _)
Equalize(p, offenders, spammers) ==
  LET longest == CHOOSE a \in spammers : \A b \in spammers : Length(p, b) <= Length(p, a)
      cut == IF offenders = <<>> THEN p
             ELSE Shorten(p, offenders, Last(offenders), Length(p, longest))
  IN  IF Size(p.pending) > GlobalSlots /\ spammers # {}
        THEN Equalize(cut, Append(offenders, longest), spammers \ {longest})
      ELSE IF offenders = <<>> THEN p
      ELSE Shorten(p, offenders, Last(offenders), AccountSlots)

LimitPending(p) ==
  Equalize(p, <<>>, {a \in Accounts \ locals : Length(p, a) > AccountSlots})

(* The queues of remote accounts are cut from the end, the account with    *)
(* the latest heartbeat first.                                             *)
RECURSIVE DropQueued(_, _, _)
DropQueued(p, accounts, drop) ==
  LET txs == ByNonce(p.queue[accounts[1]].txs)
  IN  IF drop <= 0 \/ accounts = <<>> THEN p
      ELSE IF Len(txs) <= drop
        THEN DropQueued(RemoveAll(p, txs, TRUE), Tail(accounts), drop - Len(txs))
      ELSE RemoveAll(p, SubSeq(Reverse(txs), 1, drop), TRUE)

LimitQueue(p) ==
  LET queued == {a \in Accounts \ locals : p.queue[a].txs # {}}
      beating == SelectSeq(p.beats, LAMBDA a : a \in queued)
  IN  DropQueued(p, Reverse(beating) \o SetToSeq(queued \ ToSet(beating)),
                 Size(p.queue) - GlobalQueue)

PromoteExecutables(p, accounts, state) ==
  LimitQueue(LimitPending(FoldLeft(LAMBDA q, a : PromoteAccount(q, a, state), p, accounts)))

Valid(t, state) ==
  /\ t.price >= gasPrice
  /\ t.nonce >= state.nonce[t.from]
  /\ t.total <= state.balance[t.from]

(* A full pool makes room for t, unless t is the cheapest; what is dropped *)
(* stays dropped when t is refused later.                                  *)
Full(p) == Cardinality(p.all) >= GlobalSlots + GlobalQueue

(* What Discard or Cap has found leaves the pool; it left the heap before. *)
Dropped(found) == RemoveAll(found.pool, found.drop, FALSE)

MakeRoom(p) == Dropped(Discard(p, Cardinality(p.all) - (GlobalSlots + GlobalQueue - 1)))

(* add: t takes the place of a pending transaction of its nonce, or is     *)
(* queued.  The account becomes local only in the second case.             *)
AddResult(p, err, replace, queued) ==
  [pool |-> p, err |-> err, replace |-> replace, queued |-> queued]

Place(p, t) ==
  LET l == p.pending[t.from]
      before == Same(p.queue[t.from], t)
  IN  IF Same(l, t) = {}
        THEN IF Refused(p.queue[t.from], t) THEN AddResult(p, TRUE, FALSE, FALSE)
             ELSE AddResult(Enqueue(p, t), FALSE, before # {}, TRUE)
      ELSE IF Refused(l, t) THEN AddResult(p, TRUE, FALSE, FALSE)
      ELSE AddResult(Put([ForgetAll(p, Same(l, t)) EXCEPT !.pending[t.from] = ListAdd(l, t)], t),
                     FALSE, TRUE, FALSE)

AddFull(p, t, local) ==
  IF ~local /\ Underpriced(p, t) THEN AddResult(p, TRUE, FALSE, FALSE) ELSE Place(MakeRoom(p), t)

Add(p, t, local, state) ==
  IF t \in p.all \/ ~Valid(t, state) THEN AddResult(p, TRUE, FALSE, FALSE)
  ELSE IF Full(p) THEN AddFull(IF ~local /\ t.from \notin locals THEN PopStale(p) ELSE p, t, local)
  ELSE Place(p, t)

(* addTx: a transaction that is new in the queue promotes its account. *)
Settle(r, a, state) ==
  IF r.err \/ r.replace THEN r.pool ELSE PromoteExecutables(r.pool, <<a>>, state)

(* demoteUnexecutables, for one account. *)
Demote(p, a, state) ==
  LET old == {t \in p.pending[a].txs : t.nonce < state.nonce[a]}
      l == Without(p.pending[a], old)
      costly == TooCostly(l, state.balance[a])
      invalid == {t \in l.txs \ costly : \E c \in costly : t.nonce > c.nonce}
      rest == LowerCap(Without(l, costly \cup invalid), state.balance[a])
      dropped == [ForgetAll(ForgetAll(p, old), costly) EXCEPT !.pending[a] = rest]
  IN  IF p.pending[a].txs = {} THEN p
      ELSE [FoldLeft(Enqueue, dropped, ByNonce(invalid)) EXCEPT
              !.beats = IF rest.txs = {} THEN Remove(@, a) ELSE @]

Latest(p) ==
  [p EXCEPT !.next = [a \in Accounts |->
     IF p.pending[a].txs = {} THEN @[a] ELSE Max({t.nonce : t \in p.pending[a].txs}) + 1]]

-----------------------------------------------------------------------------
State == [nonce |-> nonce, balance |-> balance]

AddTx(t) ==
  LET r == Add(pool, t, t.from \in RpcAccounts, State)
  IN  /\ pool' = Settle(r, t.from, State)
      /\ locals' = IF r.queued /\ t.from \in RpcAccounts THEN locals \cup {t.from} ELSE locals
      /\ UNCHANGED <<nonce, balance, gasPrice>>

(* reset on a new head, with another nonce and balance of one account.  If *)
(* the nonce falls, a transaction of the old chain may come back.          *)
Reset(a, n, b, reinject, order) ==
  LET state == [nonce |-> [nonce EXCEPT ![a] = n], balance |-> [balance EXCEPT ![a] = b]]
      managed == [pool EXCEPT !.next = state.nonce]
      added == IF reinject = <<>> THEN managed
               ELSE Settle(Add(managed, reinject[1], FALSE, state), a, state)
      demoted == FoldLeft(LAMBDA q, x : Demote(q, x, state), added, order)
  IN  /\ pool' = PromoteExecutables(Latest(demoted), order, state)
      /\ nonce' = state.nonce /\ balance' = state.balance
      /\ UNCHANGED <<gasPrice, locals>>

Reinjected(a, n) ==
  {<<>>} \cup {<<t>> : t \in {x \in Txs : x.from = a /\ n <= x.nonce /\ x.nonce < nonce[a]}}

(* blockTiming and msg_RecvErrTx remove a transaction of the pool. *)
Expire(t) ==
  /\ t \in pool.all
  /\ pool' = RemoveTx(pool, t, TRUE)
  /\ UNCHANGED <<nonce, balance, gasPrice, locals>>

(* The queue of a remote account that has been silent for Lifetime. *)
Evict(a) ==
  /\ a \notin locals /\ pool.queue[a].txs # {}
  /\ pool' = RemoveAll(pool, ByNonce(pool.queue[a].txs), TRUE)
  /\ UNCHANGED <<nonce, balance, gasPrice, locals>>

SetGasPrice(price) ==
  /\ gasPrice' = price
  /\ pool' = Dropped(CapPrice(pool, price))
  /\ UNCHANGED <<nonce, balance, locals>>

Next ==
  \/ \E t \in Txs : AddTx(t) \/ Expire(t)
  \/ \E a \in Accounts, n \in 0..MaxNonce, b \in Funds, order \in SetToSeqs(Accounts) :
       \E reinject \in Reinjected(a, n) : Reset(a, n, b, reinject, order)
  \/ \E a \in Accounts : Evict(a)
  \/ \E price \in GasPrices : SetGasPrice(price)

Spec == Init /\ [][Next]_vars

-----------------------------------------------------------------------------
Listed(a) == pool.pending[a].txs \cup pool.queue[a].txs

(* Every transaction of the pool is in exactly one list, with a nonce of   *)
(* its own: what replaces, drops and moves transactions never loses one    *)
(* from the lists or leaves one there ("total transaction count").         *)
AllAreListed ==
  /\ pool.all = UNION {Listed(a) : a \in Accounts}
  /\ \A a \in Accounts : \A s, t \in Listed(a) : s.nonce = t.nonce => s = t
  /\ \A a \in Accounts : pool.pending[a].txs \cap pool.queue[a].txs = {}

=============================================================================
