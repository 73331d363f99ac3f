------------------------------ MODULE HeightTable ------------------------------
(***************************************************************************)
(* The table of Processes by height that the block verification and the    *)
(* block generation each keep (blkverify/process_manage.go with Keep = 0,  *)
(* blockgenor/process_manage.go with Keep = 1).                            *)
(*                                                                         *)
(* Every method holds the table's mutex and is one action.  A handler calls*)
(* several of them one after the other, with other handlers in between: a  *)
(* handler is a goroutine of its own.  Role messages come from a block     *)
(* each, and their handlers run in any order.  A Process is an object: its *)
(* identity is its index in procs.  What a handler does to the Process it  *)
(* got is the subject of BlkVerify and of BlockGen.                      *)
(***************************************************************************)
EXTENDS Integers, Sequences, FiniteSets

CONSTANTS
    Keep,          \* heights below the current one that are kept
    MaxBlock,      \* bound: last block of the chain
    MaxProcs       \* bound: Processes created

ASSUME KeepAssumption == Keep \in {0, 1}
ASSUME MaxBlockAssumption == MaxBlock \in Nat

VARIABLES
    chain,         \* number of the last block whose role message was published
    curNumber,     \* pm.curNumber
    processMap,    \* pm.processMap: height -> Process
    procs,         \* the Processes created so far
    rolePc,        \* rolePc[b]: next step of the handler of the role message of block b
    roleHas,       \* roleHas[b]: the Process that handler got
    wentBack       \* SetCurNumber has lowered the current number (history)

vars == <<chain, curNumber, processMap, procs, rolePc, roleHas, wentBack>>

Blocks == 0 .. MaxBlock
Heights == 0 .. MaxBlock + 4
Process == [number : Heights, running : BOOLEAN, starts : Nat, closed : BOOLEAN]

newProcess(n) == [number |-> n, running |-> FALSE, starts |-> 0, closed |-> FALSE]

Init ==
    /\ chain = -1
    /\ curNumber = 0
    /\ processMap = <<>>
    /\ procs = <<>>
    /\ rolePc = [b \in Blocks |-> "none"]
    /\ roleHas = [b \in Blocks |-> 0]
    /\ wentBack = FALSE

-------------------------------------------------------------------------------
(***************************************************************************)
(* The methods of ProcessManage.                                           *)
(***************************************************************************)

isLegalNumber(n) == n + Keep >= curNumber /\ n <= curNumber + 2

\* getProcess: the Process of a height is created when it is first asked for; the
\* Processes and the table after it.
Created(map, ps, n) == IF n \in DOMAIN map THEN ps ELSE Append(ps, newProcess(n))
Entered(map, ps, n) ==
    IF n \in DOMAIN map THEN map
    ELSE [k \in DOMAIN map \cup {n} |-> IF k = n THEN Len(ps) + 1 ELSE map[k]]

getProcess(n) ==
    /\ procs' = Created(processMap, procs, n)
    /\ processMap' = Entered(processMap, procs, n)

\* Heights that fixProcessMap takes off the table.
Passed(number) == {k \in DOMAIN processMap : k + Keep < number}

\* Mutant of Closed: the loop deletes but does not close.
ClosedNothing(number) == procs

\* The Processes after fixProcessMap has closed those of passed heights.
Closed(number) ==
    LET gone == {processMap[k] : k \in Passed(number)}
    IN  [p \in DOMAIN procs |->
            IF p \in gone THEN [procs[p] EXCEPT !.running = FALSE, !.closed = TRUE]
            ELSE procs[p]]

\* The table after fixProcessMap has deleted the passed heights.
Kept(number) == [k \in DOMAIN processMap \ Passed(number) |-> processMap[k]]

\* Mutant of NewNumber: only the next number is taken.
NewNumberIfNext(number) == IF number = curNumber + 1 THEN number ELSE curNumber

\* SetCurNumber takes the number of the message, whatever the current one is.
NewNumber(number) == number

SetCurNumber(number) ==
    /\ curNumber' = NewNumber(number)
    /\ processMap' = Kept(NewNumber(number))
    /\ procs' = Closed(NewNumber(number))
    /\ wentBack' = (wentBack \/ number < curNumber)

-------------------------------------------------------------------------------
(***************************************************************************)
(* The handlers.                                                           *)
(***************************************************************************)

\* The identity service publishes the role message of the next block.
NewBlock ==
    /\ chain < MaxBlock
    /\ chain' = chain + 1
    /\ rolePc' = [rolePc EXCEPT ![chain + 1] = "set"]
    /\ UNCHANGED <<curNumber, processMap, procs, roleHas, wentBack>>

\* First step of the role handler; a node that is neither validator nor broadcast node
\* ends with it.
RoleSet(b) ==
    /\ rolePc[b] = "set"
    /\ SetCurNumber(b + 1)
    /\ \E pc \in {"get", "out"} : rolePc' = [rolePc EXCEPT ![b] = pc]
    /\ UNCHANGED <<chain, roleHas>>

\* Mutant of RoleGet: every role message starts a fresh Process of the current height.
RoleGetFresh(b) ==
    /\ rolePc[b] = "get"
    /\ Len(procs) < MaxProcs
    /\ procs' = Append([p \in DOMAIN procs |->
                           IF procs[p].number = curNumber
                           THEN [procs[p] EXCEPT !.running = FALSE, !.closed = TRUE]
                           ELSE procs[p]], newProcess(curNumber))
    /\ processMap' = [k \in DOMAIN processMap \cup {curNumber} |->
                         IF k = curNumber THEN Len(procs) + 1 ELSE processMap[k]]
    /\ roleHas' = [roleHas EXCEPT ![b] = Len(procs) + 1]
    /\ rolePc' = [rolePc EXCEPT ![b] = "start"]
    /\ UNCHANGED <<chain, curNumber, wentBack>>

\* GetCurrentProcess: by now the current number may be another one.
RoleGet(b) ==
    /\ rolePc[b] = "get"
    /\ Len(procs) < MaxProcs
    /\ getProcess(curNumber)
    /\ roleHas' = [roleHas EXCEPT ![b] = processMap'[curNumber]]
    /\ rolePc' = [rolePc EXCEPT ![b] = "start"]
    /\ UNCHANGED <<chain, curNumber, wentBack>>

\* StartRunning starts a Process that has not been started, a closed one included.
RoleStart(b) ==
    /\ rolePc[b] = "start"
    /\ procs' = [procs EXCEPT ![roleHas[b]].running = TRUE,
                              ![roleHas[b]].starts = @ + (IF procs[roleHas[b]].running THEN 0 ELSE 1)]
    /\ rolePc' = [rolePc EXCEPT ![b] = "done"]
    /\ UNCHANGED <<chain, curNumber, processMap, roleHas, wentBack>>

\* A message of height n: GetProcess refuses it or hands out the Process.
Get(n) ==
    /\ Len(procs) < MaxProcs
    /\ isLegalNumber(n)
    /\ getProcess(n)
    /\ UNCHANGED <<chain, curNumber, rolePc, roleHas, wentBack>>

\* GetProcessAndPreProcess, in the block generation only: the height below n is
\* created too, and may be below every legal number.
GetPair(n) ==
    /\ Keep = 1 /\ n > 0
    /\ Len(procs) + 1 < MaxProcs
    /\ isLegalNumber(n)
    /\ LET ps == Created(processMap, procs, n)
           map == Entered(processMap, procs, n)
       IN  procs' = Created(map, ps, n - 1) /\ processMap' = Entered(map, ps, n - 1)
    /\ UNCHANGED <<chain, curNumber, rolePc, roleHas, wentBack>>

Next ==
    \/ NewBlock
    \/ \E b \in Blocks : RoleSet(b) \/ RoleGet(b) \/ RoleStart(b)
    \/ \E n \in Heights : Get(n) \/ GetPair(n)

Spec == Init /\ [][Next]_vars

-------------------------------------------------------------------------------

\* What the table hands out is a Process of that height that nobody has closed: Close
\* and the deletion from the map happen under one lock.
TableHoldsOpen ==
    \A n \in DOMAIN processMap :
        procs[processMap[n]].number = n /\ ~procs[processMap[n]].closed

\* A Process that is not in the table any more has been closed: nothing that runs is
\* forgotten without Close.
ForgottenIsClosed ==
    \A p \in DOMAIN procs :
        \/ procs[p].closed
        \/ procs[p].number \in DOMAIN processMap /\ processMap[procs[p].number] = p

\* The heights in the table span the window of legal numbers and one height below it
\* (GetProcessAndPreProcess): while numbers only rise the table is bounded.
WithinWindow ==
    \A n \in DOMAIN processMap :
        /\ n + 2 * Keep >= curNumber
        /\ wentBack \/ n <= curNumber + 2

\* Two Processes of one height are started only after a role message was handled
\* behind a later one: then the second starts with an empty cache of requests, and what
\* the first one signed is not known to it.
OneStartPerHeight ==
    wentBack \/
    \A p, q \in DOMAIN procs :
        procs[p].number = procs[q].number /\ procs[p].starts > 0 /\ procs[q].starts > 0 => p = q

\* Once the role handlers are through, with none handled behind a later one, the
\* Process of the height after the last block is current and running: an overlap of two
\* handlers, where the earlier one gets the Process of the later one, loses no start.
LatestRuns ==
    /\ \A b \in 0 .. chain : rolePc[b] = "done"
    /\ chain >= 0 /\ ~wentBack
    => /\ curNumber = chain + 1
       /\ curNumber \in DOMAIN processMap
       /\ procs[processMap[curNumber]].running
===============================================================================
