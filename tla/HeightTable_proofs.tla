-------------------------- MODULE HeightTable_proofs ---------------------------
(***************************************************************************)
(* Proofs about the table of Processes by height, for both windows, every  *)
(* length of the chain and every order of the handlers.                    *)
(*                                                                         *)
(* The inductive invariant has two parts.  Table says that the table and   *)
(* the Processes fit together.  Roles follows the handlers of role         *)
(* messages: as long as none was handled behind a later one, a closed      *)
(* Process is of a passed height, so that a handler never gets a second    *)
(* Process of a height, and the handler of the last block gets the current *)
(* one.                                                                    *)
(***************************************************************************)
EXTENDS HeightTable, SequenceTheorems, TLAPS

\* The table and the Processes, for the current number cur; back: the number has fallen.
Table(cur, map, ps, back) ==
    /\ ps \in Seq(Process)
    /\ \A k \in DOMAIN map :
           /\ k \in Heights /\ k + 2 * Keep >= cur /\ (back \/ k <= cur + 2)
           /\ map[k] \in DOMAIN ps /\ ps[map[k]].number = k /\ ~ps[map[k]].closed
    /\ \A p \in DOMAIN ps :
           ps[p].closed \/ (ps[p].number \in DOMAIN map /\ map[ps[p].number] = p)

\* The handlers that have got their Process.
Got == {b \in Blocks : rolePc[b] \in {"start", "done"}}

\* What the handlers of role messages know while the numbers rise.
Rising ==
    /\ \A b \in Blocks : rolePc[b] \notin {"none", "set"} => b + 1 <= curNumber
    /\ \A p \in DOMAIN procs : procs[p].closed => procs[p].number + Keep < curNumber
    /\ \A p \in DOMAIN procs : procs[p].starts > 0 => \E b \in Got : roleHas[b] = p
    /\ \A b \in Got : /\ procs[roleHas[b]].number <= curNumber
                      /\ procs[roleHas[b]].number >= b + 1
                      /\ rolePc[b] = "done" =>
                             procs[roleHas[b]].running \/ procs[roleHas[b]].closed
    /\ \A b, d \in Got : procs[roleHas[b]].number = procs[roleHas[d]].number =>
                            roleHas[b] = roleHas[d]

Roles ==
    /\ chain \in -1 .. MaxBlock
    /\ curNumber \in Nat /\ curNumber <= chain + 1
    /\ wentBack \in BOOLEAN
    /\ rolePc \in [Blocks -> {"none", "set", "get", "start", "done", "out"}]
    /\ DOMAIN roleHas = Blocks
    /\ \A b \in Blocks : rolePc[b] # "none" => b <= chain
    /\ \A b \in Got : roleHas[b] \in DOMAIN procs
    /\ wentBack \/ Rising

IInv == Table(curNumber, processMap, procs, wentBack) /\ Roles

-------------------------------------------------------------------------------
\* getProcess keeps the table and changes no Process; a new one is open and not started.
LEMMA GetProcessKeeps ==
    ASSUME NEW cur \in Nat, NEW map, NEW ps, NEW back \in BOOLEAN, Table(cur, map, ps, back),
           NEW n \in Heights, n + 2 * Keep >= cur, back \/ n <= cur + 2
    PROVE  LET qs == Created(map, ps, n)
               new == Entered(map, ps, n)
           IN  /\ Table(cur, new, qs, back)
               /\ n \in DOMAIN new
               /\ DOMAIN ps \subseteq DOMAIN qs
               /\ \A p \in DOMAIN ps : qs[p] = ps[p]
               /\ \A p \in DOMAIN qs : p \in DOMAIN ps \/ (qs[p].starts = 0 /\ ~qs[p].closed)
<1> DEFINE qs == Created(map, ps, n)
           new == Entered(map, ps, n)
<1>1. CASE n \in DOMAIN map
  BY <1>1 DEF Created, Entered
<1>2. CASE n \notin DOMAIN map
  <2> DEFINE x == newProcess(n)
  <2>1. /\ qs = Append(ps, x)
        /\ new = [k \in DOMAIN map \cup {n} |-> IF k = n THEN Len(ps) + 1 ELSE map[k]]
    BY <1>2 DEF Created, Entered
  <2>2. x \in Process /\ x.number = n /\ ~x.closed /\ x.starts = 0
    BY DEF newProcess, Process
  <2> HIDE DEF x, qs, new
  <2>3. /\ qs \in Seq(Process) /\ DOMAIN qs = DOMAIN ps \cup {Len(ps) + 1}
        /\ Len(ps) + 1 \notin DOMAIN ps /\ qs[Len(ps) + 1] = x
        /\ \A p \in DOMAIN ps : qs[p] = ps[p]
    BY <2>1, <2>2 DEF Table
  <2>4. \A k \in DOMAIN new :
           /\ k \in Heights /\ k + 2 * Keep >= cur /\ (back \/ k <= cur + 2)
           /\ new[k] \in DOMAIN qs /\ qs[new[k]].number = k /\ ~qs[new[k]].closed
    BY <2>1, <2>2, <2>3 DEF Table
  <2>5. \A p \in DOMAIN qs :
           qs[p].closed \/ (qs[p].number \in DOMAIN new /\ new[qs[p].number] = p)
    BY <1>2, <2>1, <2>2, <2>3 DEF Table
  <2>6. Table(cur, new, qs, back)
    BY <2>3, <2>4, <2>5 DEF Table
  <2> QED
    BY <2>1, <2>2, <2>3, <2>6 DEF qs, new
<1> QED
  BY <1>1, <1>2

\* Steps that only add Processes leave the role handlers alone.
LEMMA AddKeepsRoles ==
    ASSUME Roles, UNCHANGED <<chain, curNumber, rolePc, roleHas, wentBack>>,
           DOMAIN procs \subseteq DOMAIN procs', \A p \in DOMAIN procs : procs'[p] = procs[p],
           \A p \in DOMAIN procs' :
               p \in DOMAIN procs \/ (procs'[p].starts = 0 /\ ~procs'[p].closed)
    PROVE  Roles'
<1>1. Got' = Got
  BY DEF Got
<1>2. ASSUME Rising PROVE Rising'
  <2>1. \A b \in Got : procs'[roleHas[b]] = procs[roleHas[b]]
    BY DEF Roles
  <2>2. \A p \in DOMAIN procs' : procs'[p].starts > 0 => \E b \in Got : roleHas[b] = p
    BY <1>2 DEF Rising
  <2>3. \A p \in DOMAIN procs' : procs'[p].closed => procs'[p].number + Keep < curNumber
    BY <1>2 DEF Rising
  <2> QED
    BY <1>1, <1>2, <2>1, <2>2, <2>3 DEF Rising
<1> QED
  BY <1>1, <1>2 DEF Roles

\* A message of a legal height asks for its Process.
LEMMA GetKeeps ==
    ASSUME IInv, NEW n \in Heights, Get(n)
    PROVE  IInv'
<1>1. /\ curNumber \in Nat /\ wentBack \in BOOLEAN /\ n + 2 * Keep >= curNumber
      /\ n <= curNumber + 2
  BY KeepAssumption, MaxBlockAssumption DEF IInv, Roles, Get, isLegalNumber, Heights
<1>2. /\ Table(curNumber, processMap', procs', wentBack)
      /\ DOMAIN procs \subseteq DOMAIN procs' /\ \A p \in DOMAIN procs : procs'[p] = procs[p]
      /\ \A p \in DOMAIN procs' :
             p \in DOMAIN procs \/ (procs'[p].starts = 0 /\ ~procs'[p].closed)
  BY <1>1, GetProcessKeeps DEF IInv, Get, getProcess
<1>3. Roles'
  BY <1>2, AddKeepsRoles DEF IInv, Get
<1> QED
  BY <1>2, <1>3 DEF IInv, Get

\* GetProcessAndPreProcess asks twice.
LEMMA GetPairKeeps ==
    ASSUME IInv, NEW n \in Heights, GetPair(n)
    PROVE  IInv'
<1> DEFINE ps == Created(processMap, procs, n)
           map == Entered(processMap, procs, n)
<1>1. /\ curNumber \in Nat /\ wentBack \in BOOLEAN /\ n + 2 * Keep >= curNumber
      /\ n <= curNumber + 2 /\ n - 1 \in Heights /\ (n - 1) + 2 * Keep >= curNumber
      /\ n - 1 <= curNumber + 2
  BY MaxBlockAssumption DEF IInv, Roles, GetPair, isLegalNumber, Heights
<1>2. /\ Table(curNumber, map, ps, wentBack)
      /\ DOMAIN procs \subseteq DOMAIN ps /\ \A p \in DOMAIN procs : ps[p] = procs[p]
      /\ \A p \in DOMAIN ps : p \in DOMAIN procs \/ (ps[p].starts = 0 /\ ~ps[p].closed)
  BY <1>1, GetProcessKeeps DEF IInv
<1>3. procs' = Created(map, ps, n - 1) /\ processMap' = Entered(map, ps, n - 1)
  BY DEF GetPair
<1> HIDE DEF ps, map
<1>4. /\ Table(curNumber, processMap', procs', wentBack)
      /\ DOMAIN ps \subseteq DOMAIN procs' /\ \A p \in DOMAIN ps : procs'[p] = ps[p]
      /\ \A p \in DOMAIN procs' : p \in DOMAIN ps \/ (procs'[p].starts = 0 /\ ~procs'[p].closed)
  BY <1>1, <1>2, <1>3, GetProcessKeeps
<1>5. /\ DOMAIN procs \subseteq DOMAIN procs' /\ \A p \in DOMAIN procs : procs'[p] = procs[p]
      /\ \A p \in DOMAIN procs' :
             p \in DOMAIN procs \/ (procs'[p].starts = 0 /\ ~procs'[p].closed)
  BY <1>2, <1>4
<1>6. Roles'
  BY <1>5, AddKeepsRoles DEF IInv, GetPair
<1> QED
  BY <1>4, <1>6 DEF IInv, GetPair

\* GetCurrentProcess of a role handler: while numbers rise, an earlier handler that got
\* a Process of this height has got the same one.
LEMMA RoleGetKeeps ==
    ASSUME IInv, NEW b \in Blocks, RoleGet(b)
    PROVE  IInv'
<1> DEFINE p0 == processMap'[curNumber]
<1>1. /\ curNumber \in Nat /\ wentBack \in BOOLEAN /\ curNumber \in Heights
      /\ curNumber + 2 * Keep >= curNumber /\ curNumber <= curNumber + 2
  BY KeepAssumption, MaxBlockAssumption DEF IInv, Roles, Heights
<1>2. /\ Table(curNumber, processMap', procs', wentBack) /\ curNumber \in DOMAIN processMap'
      /\ DOMAIN procs \subseteq DOMAIN procs' /\ \A p \in DOMAIN procs : procs'[p] = procs[p]
      /\ \A p \in DOMAIN procs' :
             p \in DOMAIN procs \/ (procs'[p].starts = 0 /\ ~procs'[p].closed)
  BY <1>1, GetProcessKeeps DEF IInv, RoleGet, getProcess
<1>3. p0 \in DOMAIN procs' /\ procs'[p0].number = curNumber /\ ~procs'[p0].closed
  BY <1>2 DEF Table
<1>4. /\ rolePc[b] = "get" /\ rolePc' = [rolePc EXCEPT ![b] = "start"]
      /\ roleHas' = [roleHas EXCEPT ![b] = p0] /\ UNCHANGED <<chain, curNumber, wentBack>>
  BY DEF RoleGet
<1> HIDE DEF p0
<1>5. Got' = Got \cup {b} /\ b \notin Got
  BY <1>4 DEF Got, IInv, Roles
<1>6. /\ roleHas'[b] = p0 /\ \A d \in Got : roleHas'[d] = roleHas[d]
  BY <1>4, <1>5 DEF Got, IInv, Roles
<1>7. \A d \in Got : roleHas[d] \in DOMAIN procs /\ procs'[roleHas[d]] = procs[roleHas[d]]
  BY <1>2 DEF IInv, Roles
<1>8. ASSUME Rising PROVE Rising'
  <2>1. \A d \in Blocks : rolePc'[d] \notin {"none", "set"} => d + 1 <= curNumber
    BY <1>4, <1>8 DEF Rising, IInv, Roles
  <2>2. \A p \in DOMAIN procs' : procs'[p].closed => procs'[p].number + Keep < curNumber
    BY <1>2, <1>8 DEF Rising
  <2>3. \A p \in DOMAIN procs' : procs'[p].starts > 0 => \E d \in Got' : roleHas'[d] = p
    BY <1>2, <1>5, <1>6, <1>8 DEF Rising
  <2>4. \A d \in Got' : /\ procs'[roleHas'[d]].number <= curNumber
                        /\ procs'[roleHas'[d]].number >= d + 1
                        /\ rolePc'[d] = "done" =>
                               procs'[roleHas'[d]].running \/ procs'[roleHas'[d]].closed
    <3> SUFFICES ASSUME NEW d \in Got'
                 PROVE  /\ procs'[roleHas'[d]].number <= curNumber
                        /\ procs'[roleHas'[d]].number >= d + 1
                        /\ rolePc'[d] = "done" =>
                               procs'[roleHas'[d]].running \/ procs'[roleHas'[d]].closed
      OBVIOUS
    <3>1. CASE d = b
      <4>1. b + 1 <= curNumber /\ rolePc'[b] = "start"
        BY <1>4, <1>8 DEF Rising, IInv, Roles
      <4>2. b \in Int /\ curNumber \in Int
        BY <1>1 DEF Blocks
      <4> QED
        BY <1>3, <1>6, <3>1, <4>1, <4>2
    <3>2. CASE d # b
      BY <1>4, <1>5, <1>6, <1>7, <1>8, <3>2 DEF Rising, IInv, Roles, Got
    <3> QED
      BY <3>1, <3>2
  <2>5. \A d \in Got : procs[roleHas[d]].number = curNumber => roleHas[d] = p0
    <3> SUFFICES ASSUME NEW d \in Got, procs[roleHas[d]].number = curNumber
                 PROVE  roleHas[d] = p0
      OBVIOUS
    <3>1. ~procs[roleHas[d]].closed
      BY <1>1, <1>7, <1>8, KeepAssumption DEF Rising
    <3> QED
      BY <1>2, <1>7, <3>1 DEF Table, p0
  <2>6. \A d, e \in Got' : procs'[roleHas'[d]].number = procs'[roleHas'[e]].number =>
                              roleHas'[d] = roleHas'[e]
    BY <1>3, <1>5, <1>6, <1>7, <1>8, <2>5 DEF Rising
  <2> QED
    BY <1>4, <2>1, <2>2, <2>3, <2>4, <2>6 DEF Rising
<1>9. Roles'
  BY <1>2, <1>3, <1>4, <1>5, <1>6, <1>7, <1>8 DEF Roles, IInv
<1> QED
  BY <1>2, <1>4, <1>9 DEF IInv

-------------------------------------------------------------------------------
\* A function on the first n numbers is a sequence of length n.
LEMMA FunctionIsSeq ==
    ASSUME NEW S, NEW n \in Nat, NEW f \in [1 .. n -> S]
    PROVE  f \in Seq(S) /\ Len(f) = n
<1>1. f \in Seq(S)
  BY SeqDef, Zenon
<1>2. DOMAIN f = 1 .. Len(f) /\ Len(f) \in Nat /\ DOMAIN f = 1 .. n
  BY <1>1, LenProperties
<1> QED
  BY <1>1, <1>2

\* What fixProcessMap does to the Processes: those of passed heights are closed.
LEMMA ClosedProcesses ==
    ASSUME Table(curNumber, processMap, procs, wentBack), NEW m \in Nat
    PROVE  /\ Closed(m) \in Seq(Process) /\ DOMAIN Closed(m) = DOMAIN procs
           /\ \A p \in DOMAIN procs :
                  /\ Closed(m)[p].number = procs[p].number
                  /\ Closed(m)[p].starts = procs[p].starts
                  /\ procs[p].closed => Closed(m)[p].closed
                  /\ procs[p].running => Closed(m)[p].running \/ Closed(m)[p].closed
                  /\ \/ Closed(m)[p].closed /\ \E k \in Passed(m) : processMap[k] = p
                     \/ Closed(m)[p] = procs[p] /\ \A k \in Passed(m) : processMap[k] # p
<1> DEFINE cs == Closed(m)
           x(p) == [procs[p] EXCEPT !.running = FALSE, !.closed = TRUE]
<1>1. DOMAIN cs = DOMAIN procs
  BY DEF Closed
<1>2. ASSUME NEW p \in DOMAIN procs
      PROVE  \/ cs[p] = x(p) /\ \E k \in Passed(m) : processMap[k] = p
             \/ cs[p] = procs[p] /\ \A k \in Passed(m) : processMap[k] # p
  BY DEF Closed
<1>3. ASSUME NEW p \in DOMAIN procs
      PROVE  /\ procs[p] \in Process /\ x(p) \in Process /\ x(p).number = procs[p].number
             /\ x(p).starts = procs[p].starts /\ x(p).closed
  <2>1. procs[p] \in Process
    BY DEF Table
  <2> QED
    BY <2>1 DEF Process
<1> HIDE DEF cs, x
<1>4. Len(procs) \in Nat /\ DOMAIN procs = 1 .. Len(procs)
  BY LenProperties DEF Table
<1>5. \A p \in DOMAIN procs : cs[p] \in Process
  BY <1>2, <1>3
<1>6. cs \in [1 .. Len(procs) -> Process]
  <2>1. cs = [p \in DOMAIN procs |-> cs[p]]
    BY DEF cs, Closed
  <2> QED
    BY <1>4, <1>5, <2>1
<1>7. cs \in Seq(Process)
  BY <1>4, <1>6, FunctionIsSeq
<1> QED
  BY <1>1, <1>2, <1>3, <1>7 DEF cs

\* SetCurNumber with fixProcessMap, first step of a role handler.
LEMMA RoleSetKeeps ==
    ASSUME IInv, NEW b \in Blocks, RoleSet(b)
    PROVE  IInv'
<1> DEFINE m == b + 1
           cs == Closed(m)
           kept == Kept(m)
<1>1. /\ curNumber' = m /\ processMap' = kept /\ procs' = cs
      /\ wentBack' = (wentBack \/ m < curNumber) /\ UNCHANGED <<chain, roleHas>>
  BY DEF RoleSet, SetCurNumber, NewNumber
<1>2. PICK pc \in {"get", "out"} : rolePc' = [rolePc EXCEPT ![b] = pc]
  BY DEF RoleSet
<1>3. m \in Nat /\ curNumber \in Nat /\ rolePc[b] = "set" /\ b <= chain /\ m <= chain + 1
  BY MaxBlockAssumption DEF IInv, Roles, RoleSet, Blocks
<1>4. \A k \in DOMAIN kept : k \in DOMAIN processMap /\ kept[k] = processMap[k] /\ k + Keep >= m
  BY <1>3, KeepAssumption, MaxBlockAssumption DEF Kept, Passed, IInv, Table, Heights
<1>5. \A k \in DOMAIN processMap : k \in DOMAIN kept \/ k \in Passed(m)
  BY DEF Kept
<1>6. \A k \in Passed(m) : k \in DOMAIN processMap /\ k + Keep < m
  BY DEF Passed
<1>7. /\ cs \in Seq(Process) /\ DOMAIN cs = DOMAIN procs
      /\ \A p \in DOMAIN procs :
             /\ cs[p].number = procs[p].number /\ cs[p].starts = procs[p].starts
             /\ procs[p].closed => cs[p].closed
             /\ procs[p].running => cs[p].running \/ cs[p].closed
             /\ \/ cs[p].closed /\ \E k \in Passed(m) : processMap[k] = p
                \/ cs[p] = procs[p] /\ \A k \in Passed(m) : processMap[k] # p
  BY <1>3, ClosedProcesses DEF IInv
<1> HIDE DEF m, cs, kept
<1>8. Table(m, kept, cs, wentBack')
  <2>1. ASSUME NEW k \in DOMAIN kept
        PROVE  /\ k \in Heights /\ k + 2 * Keep >= m /\ (wentBack' \/ k <= m + 2)
               /\ kept[k] \in DOMAIN cs /\ cs[kept[k]].number = k /\ ~cs[kept[k]].closed
    <3>1. k \in Heights /\ k \in Int /\ k + 2 * Keep >= m
      BY <1>3, <1>4, KeepAssumption, MaxBlockAssumption DEF IInv, Table, Heights
    <3>2. wentBack' \/ k <= m + 2
      <4>1. CASE wentBack \/ m < curNumber
        BY <1>1, <4>1, Zenon
      <4>2. CASE ~wentBack /\ ~(m < curNumber)
        <5>1. k <= curNumber + 2
          BY <1>4, <4>2, Zenon DEF IInv, Table
        <5>2. k <= m + 2
          BY <1>3, <3>1, <4>2, <5>1
        <5> QED
          BY <5>2, Zenon
      <4> QED
        BY <4>1, <4>2, Zenon
    <3>3. kept[k] \in DOMAIN procs /\ procs[kept[k]].number = k /\ ~procs[kept[k]].closed
      BY <1>4 DEF IInv, Table
    <3>4. \A j \in Passed(m) : processMap[j] # kept[k]
      <4>1. k \notin Passed(m)
        BY <1>3, <1>4, <1>6, <3>1, KeepAssumption
      <4> QED
        BY <1>6, <3>3, <4>1 DEF IInv, Table
    <3> QED
      BY <1>7, <3>1, <3>2, <3>3, <3>4
  <2>2. \A p \in DOMAIN cs :
           cs[p].closed \/ (cs[p].number \in DOMAIN kept /\ kept[cs[p].number] = p)
    BY <1>4, <1>5, <1>7 DEF IInv, Table
  <2> QED
    BY <1>7, <2>1, <2>2 DEF Table
<1>9. Got' = Got /\ b \notin Got
  BY <1>2, <1>3 DEF Got, IInv, Roles
<1>10. ASSUME Rising, m >= curNumber PROVE Rising'
  <2>1. \A d \in Blocks : rolePc'[d] \notin {"none", "set"} => d + 1 <= m
    BY <1>2, <1>3, <1>10 DEF Rising, IInv, Roles, m, Blocks
  <2>2. \A p \in DOMAIN procs : procs[p].number \in Int
    <3>1. \A p \in DOMAIN procs : procs[p] \in Process
      BY DEF IInv, Table
    <3> QED
      BY <3>1, MaxBlockAssumption DEF Process, Heights
  <2>3. \A p \in DOMAIN cs : cs[p].closed => cs[p].number + Keep < m
    <3> SUFFICES ASSUME NEW p \in DOMAIN procs, cs[p].closed PROVE procs[p].number + Keep < m
      BY <1>7
    <3>1. CASE procs[p].closed
      BY <1>3, <1>10, <2>2, <3>1, KeepAssumption DEF Rising
    <3>2. CASE ~procs[p].closed
      BY <1>6, <1>7, <3>2 DEF IInv, Table
    <3> QED
      BY <3>1, <3>2
  <2>4. \A p \in DOMAIN cs : cs[p].starts > 0 => \E d \in Got : roleHas[d] = p
    BY <1>7, <1>10 DEF Rising
  <2>5. \A d \in Got : roleHas[d] \in DOMAIN procs /\ rolePc'[d] = rolePc[d]
    BY <1>2, <1>9 DEF IInv, Roles, Got
  <2>6. \A d \in Got : /\ cs[roleHas[d]].number <= m /\ cs[roleHas[d]].number >= d + 1
                       /\ rolePc'[d] = "done" => cs[roleHas[d]].running \/ cs[roleHas[d]].closed
    BY <1>3, <1>7, <1>10, <2>2, <2>5 DEF Rising
  <2>7. \A d, e \in Got : cs[roleHas[d]].number = cs[roleHas[e]].number => roleHas[d] = roleHas[e]
    BY <1>7, <1>10, <2>5 DEF Rising
  <2> QED
    BY <1>1, <1>9, <2>1, <2>3, <2>4, <2>6, <2>7 DEF Rising
<1>11. Roles'
  <2>1. wentBack' \in BOOLEAN
    BY <1>1, Zenon
  <2>2. wentBack' \/ Rising'
    <3>1. CASE wentBack \/ m < curNumber
      BY <1>1, <3>1, Zenon
    <3>2. CASE ~wentBack /\ ~(m < curNumber)
      <4>1. m >= curNumber
        BY <1>3, <3>2
      <4>2. Rising
        BY <3>2, Zenon DEF IInv, Roles
      <4> QED
        BY <1>10, <4>1, <4>2, Zenon
    <3> QED
      BY <3>1, <3>2, Zenon
  <2> QED
    BY <1>1, <1>2, <1>3, <1>7, <1>9, <2>1, <2>2 DEF Roles, IInv
<1> QED
  BY <1>1, <1>8, <1>11 DEF IInv

\* StartRunning of the Process that a role handler got.
LEMMA RoleStartKeeps ==
    ASSUME IInv, NEW b \in Blocks, RoleStart(b)
    PROVE  IInv'
<1> DEFINE r == roleHas[b]
           x == [procs[r] EXCEPT !.running = TRUE,
                                 !.starts = @ + (IF procs[r].running THEN 0 ELSE 1)]
<1>1. b \in Got /\ r \in DOMAIN procs /\ procs[r] \in Process
  BY DEF IInv, Roles, Table, Got, RoleStart
<1>2. /\ procs' = [procs EXCEPT ![r] = x] /\ rolePc' = [rolePc EXCEPT ![b] = "done"]
      /\ rolePc[b] = "start" /\ UNCHANGED <<chain, curNumber, processMap, roleHas, wentBack>>
  BY DEF RoleStart
<1>3. /\ x \in Process /\ x.number = procs[r].number /\ x.closed = procs[r].closed /\ x.running
  <2> DEFINE s == procs[r].starts + (IF procs[r].running THEN 0 ELSE 1)
  <2>1. s \in Nat /\ x = [procs[r] EXCEPT !.running = TRUE, !.starts = s]
    BY <1>1 DEF Process
  <2> HIDE DEF s, x
  <2> QED
    BY <1>1, <2>1 DEF Process
<1> HIDE DEF x
<1>4. /\ procs' \in Seq(Process) /\ DOMAIN procs' = DOMAIN procs
      /\ \A p \in DOMAIN procs : procs'[p] = IF p = r THEN x ELSE procs[p]
  BY <1>1, <1>2, <1>3, ExceptSeq, LenProperties DEF IInv, Table
<1> HIDE DEF r
<1>5. \A p \in DOMAIN procs : /\ procs'[p].number = procs[p].number
                              /\ procs'[p].closed = procs[p].closed
                              /\ p = r \/ procs'[p] = procs[p]
  BY <1>3, <1>4
<1>6. Table(curNumber, processMap, procs', wentBack)
  BY <1>4, <1>5 DEF IInv, Table
<1>7. Got' = Got /\ \A d \in Got : roleHas[d] \in DOMAIN procs
  BY <1>1, <1>2 DEF Got, IInv, Roles
<1>8. ASSUME Rising PROVE Rising'
  <2>1. \A d \in Blocks : rolePc'[d] \notin {"none", "set"} => d + 1 <= curNumber
    BY <1>2, <1>8 DEF Rising, IInv, Roles
  <2>2. \A p \in DOMAIN procs' : procs'[p].starts > 0 => \E d \in Got : roleHas[d] = p
    BY <1>1, <1>4, <1>5, <1>8 DEF Rising, r
  <2>3. \A d \in Got : rolePc'[d] = "done" =>
                           procs'[roleHas[d]].running \/ procs'[roleHas[d]].closed
    <3> SUFFICES ASSUME NEW d \in Got, rolePc'[d] = "done"
                 PROVE  procs'[roleHas[d]].running \/ procs'[roleHas[d]].closed
      OBVIOUS
    <3>1. CASE roleHas[d] = r
      BY <1>1, <1>3, <1>4, <3>1
    <3>2. CASE roleHas[d] # r
      <4>1. rolePc[d] = "done"
        BY <1>2, <3>2 DEF r, Got, IInv, Roles
      <4>2. procs'[roleHas[d]] = procs[roleHas[d]]
        BY <1>5, <1>7, <3>2
      <4> QED
        BY <1>8, <4>1, <4>2, Zenon DEF Rising
    <3> QED
      BY <3>1, <3>2
  <2> QED
    BY <1>2, <1>4, <1>5, <1>7, <1>8, <2>1, <2>2, <2>3 DEF Rising
<1>9. Roles'
  <2>1. wentBack' \/ Rising'
    BY <1>2, <1>8, Zenon DEF IInv, Roles
  <2> QED
    BY <1>2, <1>4, <1>7, <2>1 DEF Roles, IInv, Got
<1> QED
  BY <1>2, <1>6, <1>9 DEF IInv

\* A new block brings a role message.
LEMMA NewBlockKeeps ==
    ASSUME IInv, NewBlock
    PROVE  IInv'
<1>1. /\ chain' = chain + 1 /\ chain < MaxBlock /\ rolePc' = [rolePc EXCEPT ![chain + 1] = "set"]
      /\ UNCHANGED <<curNumber, processMap, procs, roleHas, wentBack>>
  BY DEF NewBlock
<1>2. chain + 1 \in Blocks /\ chain \in Int /\ rolePc[chain + 1] = "none"
  BY <1>1, MaxBlockAssumption DEF IInv, Roles, Blocks
<1>3. Got' = Got /\ chain + 1 \notin Got
  BY <1>1, <1>2 DEF Got, IInv, Roles
<1>4. ASSUME Rising PROVE Rising'
  <2>1. \A d \in Got : rolePc'[d] = rolePc[d]
    BY <1>1, <1>3 DEF Got, IInv, Roles
  <2>2. \A d \in Blocks : rolePc'[d] \notin {"none", "set"} => d + 1 <= curNumber
    BY <1>1, <1>4 DEF Rising, IInv, Roles
  <2> QED
    BY <1>1, <1>3, <1>4, <2>1, <2>2 DEF Rising
<1>5. Roles'
  <2>1. wentBack' \/ Rising'
    BY <1>1, <1>4, Zenon DEF IInv, Roles
  <2>2. chain' \in -1 .. MaxBlock /\ curNumber' <= chain' + 1 /\ curNumber' \in Nat
    BY <1>1, <1>2, MaxBlockAssumption DEF IInv, Roles
  <2>3. \A d \in Blocks : rolePc'[d] # "none" => d <= chain'
    BY <1>1, <1>2 DEF IInv, Roles, Blocks
  <2> QED
    BY <1>1, <1>3, <2>1, <2>2, <2>3 DEF Roles, IInv
<1> QED
  BY <1>1, <1>5 DEF IInv

-------------------------------------------------------------------------------
\* The inductive invariant holds in every reachable state.
LEMMA Inductive == Spec => []IInv
<1>1. ASSUME Init PROVE IInv
  <2>1. procs \in Seq(Process) /\ DOMAIN procs = {} /\ DOMAIN processMap = {} /\ Got = {}
    BY <1>1 DEF Init, Got
  <2>2. Rising
    BY <1>1, <2>1 DEF Init, Rising
  <2>3. Roles
    <3>1. chain \in -1 .. MaxBlock /\ curNumber \in Nat /\ curNumber <= chain + 1
      <4>1. chain = -1 /\ curNumber = 0
        BY <1>1, Zenon DEF Init
      <4> QED
        BY <4>1, MaxBlockAssumption
    <3>3. wentBack \in BOOLEAN
      BY <1>1, Zenon DEF Init
    <3>2. /\ rolePc \in [Blocks -> {"none", "set", "get", "start", "done", "out"}]
          /\ DOMAIN roleHas = Blocks /\ \A b \in Blocks : rolePc[b] # "none" => b <= chain
      BY <1>1 DEF Init
    <3> QED
      BY <2>1, <2>2, <3>1, <3>2, <3>3, Zenon DEF Roles
  <2> QED
    BY <2>1, <2>3 DEF IInv, Table
<1>2. ASSUME IInv, Next PROVE IInv'
  <2>1. ASSUME NEW b \in Blocks, RoleSet(b) PROVE IInv'
    BY <1>2, <2>1, RoleSetKeeps
  <2>2. ASSUME NEW b \in Blocks, RoleGet(b) PROVE IInv'
    BY <1>2, <2>2, RoleGetKeeps
  <2>3. ASSUME NEW b \in Blocks, RoleStart(b) PROVE IInv'
    BY <1>2, <2>3, RoleStartKeeps
  <2>4. ASSUME NEW n \in Heights, Get(n) PROVE IInv'
    BY <1>2, <2>4, GetKeeps
  <2>5. ASSUME NEW n \in Heights, GetPair(n) PROVE IInv'
    BY <1>2, <2>5, GetPairKeeps
  <2>6. CASE NewBlock
    BY <1>2, <2>6, NewBlockKeeps
  <2> QED
    BY <1>2, <2>1, <2>2, <2>3, <2>4, <2>5, <2>6 DEF Next
<1>3. ASSUME IInv, UNCHANGED vars PROVE IInv'
  <2>1. Got' = Got
    BY <1>3 DEF Got, vars
  <2> QED
    BY <1>3, <2>1 DEF IInv, Table, Roles, Rising, vars
<1> QED
  BY <1>1, <1>2, <1>3, PTL DEF Spec

\* What either table hands out is an open Process of the height asked for (getProcess,
\* fixProcessMap).
THEOREM TablesHoldOpenProcesses == Spec => []TableHoldsOpen
<1>1. IInv => TableHoldsOpen
  BY DEF IInv, Table, TableHoldsOpen
<1> QED
  BY <1>1, Inductive, PTL

\* No Process leaves a table without being closed (fixProcessMap).
THEOREM ForgottenProcessesAreClosed == Spec => []ForgottenIsClosed
<1>1. IInv => ForgottenIsClosed
  BY DEF IInv, Table, ForgottenIsClosed
<1> QED
  BY <1>1, Inductive, PTL

\* A table never holds heights outside its window and the one below it, so its size is
\* bounded while the numbers rise (isLegalNumber, GetProcessAndPreProcess).
THEOREM TablesAreBounded == Spec => []WithinWindow
<1>1. IInv => WithinWindow
  BY DEF IInv, Table, WithinWindow
<1> QED
  BY <1>1, Inductive, PTL

\* Two Processes of one height are started only if a role message was handled behind a
\* later one (handleRoleUpdatedMsg, SetCurNumber).
THEOREM HeightsAreStartedOnce == Spec => []OneStartPerHeight
<1>1. ASSUME IInv PROVE OneStartPerHeight
  <2>1. CASE wentBack
    BY <2>1, Zenon DEF OneStartPerHeight
  <2>2. CASE ~wentBack
    <3>1. Rising
      BY <1>1, <2>2, Zenon DEF IInv, Roles
    <3>2. \A p, q \in DOMAIN procs :
             procs[p].number = procs[q].number /\ procs[p].starts > 0 /\ procs[q].starts > 0
                 => p = q
      <4> SUFFICES ASSUME NEW p \in DOMAIN procs, NEW q \in DOMAIN procs,
                          procs[p].number = procs[q].number,
                          procs[p].starts > 0, procs[q].starts > 0
                   PROVE  p = q
        OBVIOUS
      <4>1. PICK b \in Got : roleHas[b] = p
        BY <3>1 DEF Rising
      <4>2. PICK d \in Got : roleHas[d] = q
        BY <3>1 DEF Rising
      <4> QED
        BY <3>1, <4>1, <4>2 DEF Rising
    <3> QED
      BY <3>2, Zenon DEF OneStartPerHeight
  <2> QED
    BY <2>1, <2>2, Zenon
<1> QED
  BY <1>1, Inductive, PTL

\* Once all role handlers are through, with none handled behind a later one, the Process
\* of the height after the last block is current and running, however they overlapped
\* (handleRoleUpdatedMsg, GetCurrentProcess, StartRunning).
THEOREM LatestProcessRuns == Spec => []LatestRuns
<1>1. ASSUME IInv PROVE LatestRuns
  <2> SUFFICES ASSUME \A b \in 0 .. chain : rolePc[b] = "done", chain >= 0, ~wentBack
               PROVE  /\ curNumber = chain + 1 /\ curNumber \in DOMAIN processMap
                      /\ procs[processMap[curNumber]].running
    BY Zenon DEF LatestRuns
  <2>1. Rising
    BY <1>1, Zenon DEF IInv, Roles
  <2>2. /\ chain \in Blocks /\ rolePc[chain] = "done" /\ curNumber \in Nat /\ chain \in Int
        /\ curNumber <= chain + 1
    BY <1>1, MaxBlockAssumption DEF IInv, Roles, Blocks
  <2>3. chain + 1 <= curNumber /\ chain \in Got
    BY <2>1, <2>2 DEF Rising, Got
  <2>4. curNumber = chain + 1
    BY <2>2, <2>3
  <2> DEFINE p == roleHas[chain]
  <2>5. /\ p \in DOMAIN procs /\ procs[p].number <= curNumber
        /\ procs[p].number >= chain + 1 /\ (procs[p].running \/ procs[p].closed)
    BY <1>1, <2>1, <2>2, <2>3 DEF Rising, IInv, Roles
  <2>6. procs[p].number \in Int
    <3>1. procs[p] \in Process
      BY <1>1, <2>5 DEF IInv, Table
    <3> QED
      BY <3>1, MaxBlockAssumption DEF Process, Heights
  <2>7. procs[p].number = curNumber
    BY <2>2, <2>4, <2>5, <2>6
  <2>8. ~procs[p].closed
    BY <2>1, <2>2, <2>5, <2>7, KeepAssumption DEF Rising
  <2> QED
    BY <1>1, <2>4, <2>5, <2>7, <2>8 DEF IInv, Table
<1> QED
  BY <1>1, Inductive, PTL
===============================================================================
