----------------------------- MODULE UcosSched ------------------------------
(***************************************************************************)
(* The scheduler of uC/OS-II as it keeps its promise (PrioSched): a table  *)
(* of task control blocks by priority, the chain of those the clock        *)
(* interrupt goes through, and the ready tasks in a table of bits.  The    *)
(* kernel calls OSTaskCreate, OSTimeDly and OSTaskDel consist of critical  *)
(* sections; between two of them an interrupt may come, and at its end     *)
(* another task may be given the processor.  The handlers run with         *)
(* interrupts disabled, so each is one step.                               *)
(***************************************************************************)
EXTENDS Integers, FiniteSets

CONSTANTS
    Prios,          \* the priorities in use
    Idle,           \* OS_TASK_IDLE_PRIO: OS_LOWEST_PRIO, 20
    NumTCBs,        \* OS_MAX_TASKS + OS_N_SYS_TASKS
    MaxDelay        \* the longest delay asked for, in clock ticks

ASSUME UcosAssumption ==
    /\ Prios \subseteq 0 .. 63
    /\ Idle \in Prios /\ \A p \in Prios : p <= Idle
    /\ NumTCBs \in Nat
    /\ MaxDelay \in Nat \ {0}

VARIABLES
    OSRdyGrp,       \* the rows of OSRdyTbl in which a bit is set
    OSRdyTbl,       \* row p >> 3, bit p & 7: task p is ready
    OSTCBPrioTbl,   \* "free", "reserved" or "task", by priority
    OSTCBList,      \* the tasks in the chain; the idle task is its last
    OSTCBFreeList,  \* how many control blocks are not in use
    OSTCBDly,       \* ticks each task still has to wait
    OSPrioCur,      \* the task that has the processor
    OSLockNesting,
    call,           \* where each task is in a kernel call
    prio            \* the priority each task gives to OSTaskCreate; its own
                    \*   in the model when it is in no such call

rdyVars == <<OSRdyGrp, OSRdyTbl>>
tcbVars == <<OSTCBPrioTbl, OSTCBList, OSTCBFreeList>>
vars == <<rdyVars, tcbVars, OSTCBDly, OSPrioCur, OSLockNesting, call, prio>>

Rows == 0 .. 7
Calls == {"app", "take", "link", "undo", "sched", "deleting", "deleted"}

TypeOK ==
    /\ OSRdyGrp \subseteq Rows
    /\ OSRdyTbl \in [Rows -> SUBSET Rows]
    /\ OSTCBPrioTbl \in [Prios -> {"free", "reserved", "task"}]
    /\ OSTCBList \subseteq Prios
    /\ OSTCBFreeList \in Nat
    /\ OSTCBDly \in [Prios -> 0 .. MaxDelay]
    /\ OSPrioCur \in Prios
    /\ OSLockNesting \in {0, 1}
    /\ call \in [Prios -> Calls]
    /\ prio \in [Prios -> Prios]

-----------------------------------------------------------------------------
\* The ready table

Row(p) == p \div 8
Bit(p) == p % 8

InTable(p) == Bit(p) \in OSRdyTbl[Row(p)]

\* Tasks S become ready: their bits are set.
MakeReady(S) ==
    /\ OSRdyTbl' = [y \in Rows |->
                      OSRdyTbl[y] \cup {Bit(p) : p \in {q \in S : Row(q) = y}}]
    /\ OSRdyGrp' = OSRdyGrp \cup {Row(p) : p \in S}

\* Task p is no longer ready: a row without a bit leaves the group.
MakeNotReady(p) ==
    /\ OSRdyTbl' = [OSRdyTbl EXCEPT ![Row(p)] = @ \ {Bit(p)}]
    /\ OSRdyGrp' = IF OSRdyTbl'[Row(p)] = {} THEN OSRdyGrp \ {Row(p)}
                                             ELSE OSRdyGrp

\* OSUnMapTbl: the lowest bit that is set.
OSUnMap(S) == CHOOSE x \in S : \A z \in S : x <= z

\* OS_SchedNew, from a group and a table.
HighRdy(grp, tbl) == OSUnMap(grp) * 8 + OSUnMap(tbl[OSUnMap(grp)])

\* Mutation: OSLockNesting is not looked at.
RescheduleLocked == OSPrioCur' = HighRdy(OSRdyGrp', OSRdyTbl')

\* The end of OS_Sched and OSIntExit, the ready table being as it will be.
Reschedule ==
    OSPrioCur' = IF OSLockNesting = 0 THEN HighRdy(OSRdyGrp', OSRdyTbl')
                                      ELSE OSPrioCur

-----------------------------------------------------------------------------
At(p, l) == p = OSPrioCur /\ call[p] = l

Goto(p, l) == call' = [call EXCEPT ![p] = l]

\* OSTaskCreate reserves the priority; one in use is refused.
Reserve(p, q) ==
    /\ At(p, "app") /\ p # Idle
    /\ OSTCBPrioTbl[q] = "free"
    /\ OSTCBPrioTbl' = [OSTCBPrioTbl EXCEPT ![q] = "reserved"]
    /\ prio' = [prio EXCEPT ![p] = q]
    /\ Goto(p, "take")
    /\ UNCHANGED <<rdyVars, OSTCBList, OSTCBFreeList, OSTCBDly, OSPrioCur,
                   OSLockNesting>>

\* OS_TCBInit takes a control block, if there is one left.
TakeTCB(p) ==
    /\ At(p, "take")
    /\ \/ /\ OSTCBFreeList > 0
          /\ OSTCBFreeList' = OSTCBFreeList - 1
          /\ Goto(p, "link")
       \/ /\ OSTCBFreeList = 0
          /\ Goto(p, "undo") /\ UNCHANGED OSTCBFreeList
    /\ UNCHANGED <<rdyVars, OSTCBPrioTbl, OSTCBList, OSTCBDly, OSPrioCur,
                   OSLockNesting, prio>>

\* OSTaskCreate gives the priority free again.
Undo(p) ==
    /\ At(p, "undo")
    /\ OSTCBPrioTbl' = [OSTCBPrioTbl EXCEPT ![prio[p]] = "free"]
    /\ prio' = [prio EXCEPT ![p] = p]
    /\ Goto(p, "app")
    /\ UNCHANGED <<rdyVars, OSTCBList, OSTCBFreeList, OSTCBDly, OSPrioCur,
                   OSLockNesting>>

\* OS_TCBInit puts the filled block into the table and the chain: the new
\* task is ready, at the begin of its function.
LinkTCB(p) ==
    /\ At(p, "link")
    /\ OSTCBPrioTbl' = [OSTCBPrioTbl EXCEPT ![prio[p]] = "task"]
    /\ OSTCBList' = OSTCBList \cup {prio[p]}
    /\ MakeReady({prio[p]})
    /\ OSTCBDly' = [OSTCBDly EXCEPT ![prio[p]] = 0]
    /\ call' = [call EXCEPT ![prio[p]] = "app", ![p] = "sched"]
    /\ prio' = [prio EXCEPT ![p] = p]
    /\ UNCHANGED <<OSTCBFreeList, OSPrioCur, OSLockNesting>>

\* OS_Sched, at the end of a call.
OS_Sched(p) ==
    /\ p = OSPrioCur /\ call[p] \in {"sched", "deleted"}
    /\ UNCHANGED <<rdyVars, tcbVars, OSTCBDly, OSLockNesting, prio>>
    /\ Reschedule
    /\ Goto(p, "app")

\* Mutation: OSTimeDly returns without OS_Sched.
DlyWithoutSched(p, ticks) ==
    /\ At(p, "app") /\ p # Idle
    /\ MakeNotReady(p)
    /\ OSTCBDly' = [OSTCBDly EXCEPT ![p] = ticks]
    /\ UNCHANGED <<tcbVars, OSPrioCur, OSLockNesting, call, prio>>

OSTimeDly(p, ticks) ==
    /\ At(p, "app") /\ p # Idle
    /\ MakeNotReady(p)
    /\ OSTCBDly' = [OSTCBDly EXCEPT ![p] = ticks]
    /\ Goto(p, "sched")
    /\ UNCHANGED <<tcbVars, OSPrioCur, OSLockNesting, prio>>

\* OSTaskDel(OS_PRIO_SELF): the task is no longer ready, but must not lose
\* the processor before the call is through.
OSTaskDel(p) ==
    /\ At(p, "app") /\ p # Idle
    /\ MakeNotReady(p)
    /\ OSTCBDly' = [OSTCBDly EXCEPT ![p] = 0]
    /\ OSLockNesting' = OSLockNesting + 1
    /\ Goto(p, "deleting")
    /\ UNCHANGED <<tcbVars, OSPrioCur, prio>>

\* Mutation: the block is not put back into the free list.
UnlinkAndLose(p) ==
    /\ At(p, "deleting")
    /\ OSLockNesting' = OSLockNesting - 1
    /\ OSTCBPrioTbl' = [OSTCBPrioTbl EXCEPT ![p] = "free"]
    /\ OSTCBList' = OSTCBList \ {p}
    /\ Goto(p, "deleted")
    /\ UNCHANGED <<rdyVars, OSTCBFreeList, OSTCBDly, OSPrioCur, prio>>

\* After OS_Dummy interrupts are disabled again and the block is given back.
UnlinkTCB(p) ==
    /\ At(p, "deleting")
    /\ OSLockNesting' = OSLockNesting - 1
    /\ OSTCBPrioTbl' = [OSTCBPrioTbl EXCEPT ![p] = "free"]
    /\ OSTCBList' = OSTCBList \ {p}
    /\ OSTCBFreeList' = OSTCBFreeList + 1
    /\ Goto(p, "deleted")
    /\ UNCHANGED <<rdyVars, OSTCBDly, OSPrioCur, prio>>

\* The idle task ends the chain and is not looked at.
Waiting == {p \in OSTCBList \ {Idle} : OSTCBDly[p] > 0}

\* OSTimeTick
OSTimeTick ==
    /\ OSTCBDly' = [p \in Prios |-> IF p \in Waiting THEN OSTCBDly[p] - 1
                                                     ELSE OSTCBDly[p]]
    /\ MakeReady({p \in Waiting : OSTCBDly[p] = 1})

\* Mutation: OSIntExit does not look for a more urgent task.
InterruptReturns ==
    /\ OSTimeTick
    /\ UNCHANGED <<tcbVars, OSPrioCur, OSLockNesting, call, prio>>

\* An interrupt: the clock's, or another handler, which uses no kernel call.
\* OSIntExit may give the processor to another task.
Interrupt ==
    /\ OSTimeTick \/ UNCHANGED <<rdyVars, OSTCBDly>>
    /\ Reschedule
    /\ UNCHANGED <<tcbVars, OSLockNesting, call, prio>>

-----------------------------------------------------------------------------
\* OSStart: the tasks created before it are ready, the most urgent one runs.
Init ==
    \E A \in SUBSET Prios :
      /\ Idle \in A /\ Cardinality(A) <= NumTCBs
      /\ OSTCBPrioTbl = [p \in Prios |-> IF p \in A THEN "task" ELSE "free"]
      /\ OSTCBList = A
      /\ OSTCBFreeList = NumTCBs - Cardinality(A)
      /\ OSTCBDly = [p \in Prios |-> 0]
      /\ OSRdyTbl = [y \in Rows |-> {Bit(p) : p \in {q \in A : Row(q) = y}}]
      /\ OSRdyGrp = {Row(p) : p \in A}
      /\ OSPrioCur = HighRdy(OSRdyGrp, OSRdyTbl)
      /\ OSLockNesting = 0
      /\ call = [p \in Prios |-> "app"]
      /\ prio = [p \in Prios |-> p]

Next ==
    \/ \E p \in Prios :
         \/ \E q \in Prios : Reserve(p, q)
         \/ TakeTCB(p) \/ Undo(p) \/ LinkTCB(p)
         \/ OS_Sched(p)
         \/ \E ticks \in 1 .. MaxDelay : OSTimeDly(p, ticks)
         \/ OSTaskDel(p) \/ UnlinkTCB(p)
    \/ Interrupt

Spec == Init /\ [][Next]_vars
-----------------------------------------------------------------------------
Exists(p) == OSTCBPrioTbl[p] = "task" /\ call[p] # "deleting"

\* The kernel does what the application relies on: the tasks that exist, less
\* one that is deleting itself, and their delays behave like PrioSched.
PS == INSTANCE PrioSched WITH Tasks <- Prios,
                              alive <- {p \in Prios : Exists(p)},
                              dly <- OSTCBDly

ImplementsPrioSched == PS!SchedSpec

\* The task that executes its own code is the most urgent of the ready tasks,
\* whatever interrupts came between two critical sections of a call.
MostUrgentRuns == call[OSPrioCur] = "app" => PS!Running(OSPrioCur)

\* A task that is deleting itself does not lose the processor before its
\* control block is given back, although it is not ready any more.
DeletionKeepsProcessor == \A p \in Prios : call[p] = "deleting" => p = OSPrioCur

Creating(p) == call[p] \in {"take", "link", "undo"}

\* A reserved priority is about to be used, or given free, by one task.
ReservedByOne ==
    \A q \in Prios :
        OSTCBPrioTbl[q] = "reserved" <=>
            \E p \in Prios :
                /\ Creating(p) /\ prio[p] = q
                /\ \A r \in Prios : Creating(r) /\ prio[r] = q => r = p

\* Every control block is free, in the chain or in the hands of a task that
\* fills it.
TCBsAccounted ==
    OSTCBFreeList + Cardinality(OSTCBList)
        + Cardinality({p \in Prios : call[p] = "link"}) = NumTCBs

\* Tasks that create and delete in the middle of each other's calls lose
\* neither a priority nor a control block, and share none
\* (os_task.c:238-260, 490-520).
NothingLost == ReservedByOne /\ TCBsAccounted
=============================================================================
