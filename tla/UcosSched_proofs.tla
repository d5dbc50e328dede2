-------------------------- MODULE UcosSched_proofs ---------------------------
(***************************************************************************)
(* Proofs about UcosSched for every set of priorities, number of control   *)
(* blocks and longest delay: the table of bits names the ready tasks, the  *)
(* most urgent one runs, and the kernel implements PrioSched.              *)
(***************************************************************************)
EXTENDS UcosSched, FiniteSetTheorems, TLAPS

LEMMA PrioFacts ==
    /\ \A p \in Prios : p \in 0 .. 63 /\ p <= Idle
    /\ Idle \in Prios /\ NumTCBs \in Nat /\ MaxDelay \in Nat /\ MaxDelay > 0
BY UcosAssumption

LEMMA Places ==
    ASSUME NEW p \in Prios
    PROVE  Row(p) \in Rows /\ Bit(p) \in Rows /\ p = Row(p) * 8 + Bit(p)
BY PrioFacts DEF Row, Bit, Rows

LEMMA PlaceOf ==
    ASSUME NEW y \in Rows, NEW x \in Rows
    PROVE  Row(y * 8 + x) = y /\ Bit(y * 8 + x) = x
BY DEF Row, Bit, Rows

\* OSUnMapTbl names the lowest bit.
LEMMA LowestBit ==
    ASSUME NEW S \in SUBSET Rows, S # {}
    PROVE  OSUnMap(S) \in S /\ \A z \in S : OSUnMap(S) <= z
<1>1. \E x \in S : \A z \in S : x <= z
  <2>1. S \subseteq {0, 1, 2, 3, 4, 5, 6, 7} BY DEF Rows
  <2>2. CASE 0 \in S BY <2>1, <2>2
  <2>3. CASE 0 \notin S /\ 1 \in S BY <2>1, <2>3
  <2>4. CASE S \cap 0 .. 1 = {} /\ 2 \in S BY <2>1, <2>4
  <2>5. CASE S \cap 0 .. 2 = {} /\ 3 \in S BY <2>1, <2>5
  <2>6. CASE S \cap 0 .. 3 = {} /\ 4 \in S BY <2>1, <2>6
  <2>7. CASE S \cap 0 .. 4 = {} /\ 5 \in S BY <2>1, <2>7
  <2>8. CASE S \cap 0 .. 5 = {} /\ 6 \in S BY <2>1, <2>8
  <2>9. CASE S \cap 0 .. 6 = {}
    <3>1. \A z \in S : z = 7 BY <2>1, <2>9
    <3> QED BY <3>1
  <2> QED BY <2>2, <2>3, <2>4, <2>5, <2>6, <2>7, <2>8, <2>9
<1> QED BY <1>1 DEF OSUnMap

-----------------------------------------------------------------------------
\* The ready table

\* The group and the table name the tasks R.
Table(grp, tbl, R) ==
    /\ grp \subseteq Rows /\ tbl \in [Rows -> SUBSET Rows]
    /\ \A y \in Rows : y \in grp <=> tbl[y] # {}
    /\ \A y \in Rows : \A x \in tbl[y] : y * 8 + x \in R
    /\ \A p \in R : Bit(p) \in tbl[Row(p)]

\* OS_SchedNew finds the most urgent of them.
LEMMA HighestFound ==
    ASSUME NEW grp, NEW tbl, NEW R \in SUBSET Prios, R # {},
           Table(grp, tbl, R)
    PROVE  HighRdy(grp, tbl) \in R /\ \A r \in R : HighRdy(grp, tbl) <= r
<1> DEFINE y == OSUnMap(grp)
           x == OSUnMap(tbl[y])
<1>1. grp # {} /\ grp \in SUBSET Rows
  <2>1. PICK r \in R : TRUE OBVIOUS
  <2>2. Row(r) \in Rows /\ Bit(r) \in tbl[Row(r)] BY Places, <2>1 DEF Table
  <2> QED BY <2>2 DEF Table
<1>2. y \in grp /\ \A z \in grp : y <= z BY <1>1, LowestBit
<1>3. y \in Rows /\ tbl[y] # {} /\ tbl[y] \in SUBSET Rows BY <1>1, <1>2 DEF Table
<1>4. x \in tbl[y] /\ \A z \in tbl[y] : x <= z BY <1>3, LowestBit
<1>5. y * 8 + x \in R BY <1>3, <1>4 DEF Table
<1>6. ASSUME NEW r \in R PROVE y * 8 + x <= r
  <2>1. Row(r) \in Rows /\ Bit(r) \in Rows /\ r = Row(r) * 8 + Bit(r)
    BY Places
  <2>2. Bit(r) \in tbl[Row(r)] BY DEF Table
  <2>3. Row(r) \in grp BY <2>1, <2>2 DEF Table
  <2>4. y <= Row(r) BY <1>2, <2>3
  <2>5. CASE y = Row(r)
    <3>1. x <= Bit(r) BY <1>4, <2>2, <2>5
    <3>2. x \in Rows BY <1>3, <1>4
    <3> HIDE DEF y, x
    <3> QED BY <3>1, <3>2, <2>5, <2>1, <1>3 DEF Rows
  <2>6. CASE y < Row(r)
    <3>1. x \in Rows BY <1>3, <1>4
    <3> HIDE DEF y, x
    <3> QED BY <3>1, <2>6, <2>1, <1>3 DEF Rows
  <2> HIDE DEF y, x
  <2> QED BY <2>4, <2>5, <2>6, <2>1, <1>3 DEF Rows
<1>7. HighRdy(grp, tbl) = y * 8 + x BY DEF HighRdy
<1> QED BY <1>5, <1>6, <1>7

LEMMA MadeReady ==
    ASSUME NEW R \in SUBSET Prios, NEW S \in SUBSET Prios,
           Table(OSRdyGrp, OSRdyTbl, R), MakeReady(S)
    PROVE  Table(OSRdyGrp', OSRdyTbl', R \cup S)
<1>1. \A y \in Rows : OSRdyTbl'[y] =
        OSRdyTbl[y] \cup {Bit(p) : p \in {q \in S : Row(q) = y}}
  BY DEF MakeReady
<1>2. OSRdyGrp' = OSRdyGrp \cup {Row(p) : p \in S} BY DEF MakeReady
<1>3. OSRdyGrp' \subseteq Rows BY <1>2, Places DEF Table
<1>4. OSRdyTbl' \in [Rows -> SUBSET Rows]
  <2>1. OSRdyTbl \in [Rows -> SUBSET Rows] BY DEF Table
  <2>2. ASSUME NEW y \in Rows
        PROVE  OSRdyTbl[y] \cup {Bit(p) : p \in {q \in S : Row(q) = y}}
                 \in SUBSET Rows
    BY <2>1, Places
  <2> QED BY <2>2 DEF MakeReady
<1>5. ASSUME NEW y \in Rows PROVE y \in OSRdyGrp' <=> OSRdyTbl'[y] # {}
  <2>1. y \in OSRdyGrp <=> OSRdyTbl[y] # {} BY DEF Table
  <2>2. y \in {Row(p) : p \in S} <=>
          {Bit(p) : p \in {q \in S : Row(q) = y}} # {}
    OBVIOUS
  <2> QED BY <2>1, <2>2, <1>1, <1>2
<1>6. ASSUME NEW y \in Rows, NEW x \in OSRdyTbl'[y]
      PROVE  y * 8 + x \in R \cup S
  <2>1. CASE x \in OSRdyTbl[y] BY <2>1 DEF Table
  <2>2. CASE x \in {Bit(p) : p \in {q \in S : Row(q) = y}}
    <3>1. PICK p \in S : Row(p) = y /\ Bit(p) = x BY <2>2
    <3> QED BY <3>1, Places
  <2> QED BY <1>1, <2>1, <2>2
<1>7. ASSUME NEW p \in R \cup S PROVE Bit(p) \in OSRdyTbl'[Row(p)]
  <2>1. Row(p) \in Rows BY Places
  <2> QED BY <2>1, <1>1 DEF Table
<1> QED BY <1>3, <1>4, <1>5, <1>6, <1>7 DEF Table

LEMMA MadeNotReady ==
    ASSUME NEW R \in SUBSET Prios, NEW p \in Prios,
           Table(OSRdyGrp, OSRdyTbl, R), MakeNotReady(p)
    PROVE  Table(OSRdyGrp', OSRdyTbl', R \ {p})
<1>0. Row(p) \in Rows /\ Bit(p) \in Rows /\ p = Row(p) * 8 + Bit(p)
  BY Places
<1>1. OSRdyTbl \in [Rows -> SUBSET Rows] BY DEF Table
<1>2. \A y \in Rows :
        OSRdyTbl'[y] = IF y = Row(p) THEN OSRdyTbl[y] \ {Bit(p)}
                                     ELSE OSRdyTbl[y]
  BY <1>0, <1>1 DEF MakeNotReady
<1>3. OSRdyTbl' \in [Rows -> SUBSET Rows] BY <1>0, <1>1 DEF MakeNotReady
<1>4. OSRdyGrp' \subseteq Rows BY DEF MakeNotReady, Table
<1>5. ASSUME NEW y \in Rows PROVE y \in OSRdyGrp' <=> OSRdyTbl'[y] # {}
  BY <1>0, <1>2 DEF MakeNotReady, Table
<1>6. ASSUME NEW y \in Rows, NEW x \in OSRdyTbl'[y]
      PROVE  y * 8 + x \in R \ {p}
  <2>1. x \in OSRdyTbl[y] /\ x \in Rows BY <1>1, <1>2
  <2>2. y * 8 + x \in R BY <2>1 DEF Table
  <2>3. Row(y * 8 + x) = y /\ Bit(y * 8 + x) = x BY <2>1, PlaceOf
  <2>4. y # Row(p) \/ x # Bit(p) BY <1>2
  <2> QED BY <2>2, <2>3, <2>4
<1>7. ASSUME NEW q \in R \ {p} PROVE Bit(q) \in OSRdyTbl'[Row(q)]
  <2>1. Row(q) \in Rows /\ q = Row(q) * 8 + Bit(q) BY Places
  <2>2. Bit(q) \in OSRdyTbl[Row(q)] BY DEF Table
  <2>3. Row(q) # Row(p) \/ Bit(q) # Bit(p) BY <1>0, <2>1
  <2> QED BY <1>2, <2>1, <2>2, <2>3
<1> QED BY <1>3, <1>4, <1>5, <1>6, <1>7 DEF Table

-----------------------------------------------------------------------------
\* The inductive invariant

ReadyTasks == {p \in Prios : PS!Ready(p)}

\* The table of bits names the ready tasks; the idle task is always one.
TableRight == Table(OSRdyGrp, OSRdyTbl, ReadyTasks)

IdleReady ==
    OSTCBPrioTbl[Idle] = "task" /\ call[Idle] = "app" /\ OSTCBDly[Idle] = 0

\* The tasks in the chain are those that have a control block; only those
\* wait, and only those execute kernel calls.
BlocksRight ==
    \A p \in Prios :
      /\ p \in OSTCBList <=> OSTCBPrioTbl[p] = "task"
      /\ OSTCBDly[p] > 0 => Exists(p)
      /\ call[p] \notin {"app", "deleted"} => OSTCBPrioTbl[p] = "task"

\* Creators hold their priorities reserved, each its own.
ReservationsKept ==
    \A p \in Prios : Creating(p) =>
      /\ OSTCBPrioTbl[prio[p]] = "reserved"
      /\ \A q \in Prios : Creating(q) /\ prio[q] = prio[p] => q = p

\* The scheduler is locked exactly while a task deletes itself.
LockRight ==
    /\ DeletionKeepsProcessor
    /\ OSLockNesting = IF call[OSPrioCur] = "deleting" THEN 1 ELSE 0

\* A task that is not about to call OS_Sched is the most urgent.
RunsMostUrgent ==
    call[OSPrioCur] = "app" \/ Creating(OSPrioCur) => PS!Running(OSPrioCur)

KernelOK ==
    /\ TypeOK /\ TableRight /\ IdleReady /\ BlocksRight
    /\ ReservationsKept /\ LockRight /\ RunsMostUrgent

\* A task that gets the processor from the scheduler is the most urgent.
LEMMA Rescheduled ==
    ASSUME NEW R \in SUBSET Prios, Idle \in R,
           R = ReadyTasks', Table(OSRdyGrp', OSRdyTbl', R),
           OSLockNesting = 0, Reschedule
    PROVE  OSPrioCur' \in Prios /\ PS!Running(OSPrioCur)'
<1>1. OSPrioCur' = HighRdy(OSRdyGrp', OSRdyTbl') BY DEF Reschedule
<1>2. OSPrioCur' \in R /\ \A r \in R : OSPrioCur' <= r
  BY <1>1, HighestFound
<1> QED BY <1>2 DEF ReadyTasks, PS!Running, PS!Ready

LEMMA InReady ==
    ASSUME NEW p \in Prios
    PROVE  p \in ReadyTasks <=> Exists(p) /\ OSTCBDly[p] = 0
BY DEF ReadyTasks, PS!Ready

\* The same of the next state.
LEMMA InReadyNext ==
    ASSUME NEW p \in Prios
    PROVE  p \in ReadyTasks' <=> (Exists(p) /\ OSTCBDly[p] = 0)'
BY DEF ReadyTasks, PS!Ready

\* What a step that keeps the ready tasks and their table has to show.
LEMMA SameReady ==
    ASSUME KernelOK, UNCHANGED <<rdyVars, OSTCBDly>>,
           \A p \in Prios : Exists(p)' = Exists(p)
    PROVE  ReadyTasks' = ReadyTasks /\ TableRight'
<1>1. ReadyTasks' = ReadyTasks
  <2>1. \A p \in Prios : p \in ReadyTasks' <=> p \in ReadyTasks
    BY InReady, InReadyNext
  <2>2. ReadyTasks \subseteq Prios /\ ReadyTasks' \subseteq Prios
    BY DEF ReadyTasks
  <2> QED BY <2>1, <2>2
<1> QED BY <1>1 DEF KernelOK, TableRight, Table, rdyVars

\* The running task keeps the processor and stays the most urgent.
LEMMA SameRunning ==
    ASSUME NEW p \in Prios, ReadyTasks' = ReadyTasks, PS!Running(p)
    PROVE  PS!Running(p)'
<1>1. ReadyTasks \subseteq Prios BY DEF ReadyTasks
<1>2. p \in ReadyTasks /\ \A r \in ReadyTasks : p <= r
  BY DEF ReadyTasks, PS!Running, PS!Ready
<1> QED BY <1>2 DEF ReadyTasks, PS!Running, PS!Ready

LEMMA TypeStep == TypeOK /\ KernelOK /\ [Next]_vars => TypeOK'
<1> SUFFICES ASSUME TypeOK, KernelOK, [Next]_vars PROVE TypeOK'
  OBVIOUS
<1> USE DEF TypeOK, Calls
<1>1. ASSUME NEW R \in SUBSET Prios, NEW S \in SUBSET Prios,
             Table(OSRdyGrp', OSRdyTbl', R)
      PROVE  OSRdyGrp' \subseteq Rows /\ OSRdyTbl' \in [Rows -> SUBSET Rows]
  BY <1>1 DEF Table
<1>2. ReadyTasks \in SUBSET Prios /\ Table(OSRdyGrp, OSRdyTbl, ReadyTasks)
  BY DEF ReadyTasks, KernelOK, TableRight
<1>3. ASSUME NEW p \in Prios, NEW q \in Prios, Reserve(p, q) PROVE TypeOK'
  BY <1>3 DEF Reserve, Goto, rdyVars
<1>4. ASSUME NEW p \in Prios, TakeTCB(p) PROVE TypeOK'
  BY <1>4 DEF TakeTCB, Goto, rdyVars
<1>5. ASSUME NEW p \in Prios, Undo(p) PROVE TypeOK'
  BY <1>5 DEF Undo, Goto, rdyVars
<1>6. ASSUME NEW p \in Prios, LinkTCB(p) PROVE TypeOK'
  <2>1. prio[p] \in Prios OBVIOUS
  <2>2. Table(OSRdyGrp', OSRdyTbl', ReadyTasks \cup {prio[p]})
    BY <1>2, <1>6, <2>1, MadeReady DEF LinkTCB
  <2>3. OSRdyGrp' \subseteq Rows /\ OSRdyTbl' \in [Rows -> SUBSET Rows]
    BY <2>2 DEF Table
  <2> QED BY <1>6, <2>1, <2>3, PrioFacts DEF LinkTCB
<1>7. ASSUME NEW p \in Prios, OS_Sched(p) PROVE TypeOK'
  <2>1. OSPrioCur' \in Prios
    <3>1. CASE OSLockNesting = 0
      <4>1. OSPrioCur' = HighRdy(OSRdyGrp, OSRdyTbl)
        BY <1>7, <3>1 DEF OS_Sched, Reschedule, rdyVars
      <4>2. Idle \in ReadyTasks
        BY InReady, PrioFacts DEF KernelOK, IdleReady, Exists
      <4> QED BY <4>1, <4>2, <1>2, HighestFound
    <3>2. CASE OSLockNesting # 0
      BY <1>7, <3>2 DEF OS_Sched, Reschedule
    <3> QED BY <3>1, <3>2
  <2> QED BY <1>7, <2>1 DEF OS_Sched, Goto, rdyVars, tcbVars
<1>8. ASSUME NEW p \in Prios, MakeNotReady(p)
      PROVE  OSRdyGrp' \subseteq Rows /\ OSRdyTbl' \in [Rows -> SUBSET Rows]
  <2>1. Table(OSRdyGrp', OSRdyTbl', ReadyTasks \ {p})
    BY <1>2, <1>8, MadeNotReady
  <2> QED BY <2>1 DEF Table
<1>9. ASSUME NEW p \in Prios, NEW ticks \in 1 .. MaxDelay, OSTimeDly(p, ticks)
      PROVE  TypeOK'
  BY <1>8, <1>9, PrioFacts DEF OSTimeDly, Goto, tcbVars
<1>10. ASSUME NEW p \in Prios, OSTaskDel(p) PROVE TypeOK'
  <2>1. OSLockNesting = 0
    BY <1>10 DEF OSTaskDel, At, KernelOK, LockRight
  <2> QED BY <1>8, <1>10, <2>1, PrioFacts DEF OSTaskDel, Goto, tcbVars
<1>11. ASSUME NEW p \in Prios, UnlinkTCB(p) PROVE TypeOK'
  <2>1. OSLockNesting = 1
    BY <1>11 DEF UnlinkTCB, At, KernelOK, LockRight
  <2> QED BY <1>11, <2>1 DEF UnlinkTCB, Goto, rdyVars
<1>12. CASE Interrupt
  <2>1. /\ OSRdyGrp' \subseteq Rows /\ OSRdyTbl' \in [Rows -> SUBSET Rows]
        /\ OSTCBDly' \in [Prios -> 0 .. MaxDelay]
        /\ \E R \in SUBSET Prios :
               Idle \in R /\ Table(OSRdyGrp', OSRdyTbl', R)
    <3>0. Idle \in ReadyTasks
      BY InReady, PrioFacts DEF KernelOK, IdleReady, Exists
    <3>1. CASE OSTimeTick
      <4>1. {q \in Waiting : OSTCBDly[q] = 1} \in SUBSET Prios BY DEF Waiting
      <4>2. Table(OSRdyGrp', OSRdyTbl',
                  ReadyTasks \cup {q \in Waiting : OSTCBDly[q] = 1})
        BY <1>2, <3>1, <4>1, MadeReady DEF OSTimeTick
      <4>3. OSTCBDly' \in [Prios -> 0 .. MaxDelay]
        BY <3>1, PrioFacts DEF OSTimeTick, Waiting
      <4>4. OSRdyGrp' \subseteq Rows /\ OSRdyTbl' \in [Rows -> SUBSET Rows]
        BY <4>2 DEF Table
      <4> QED BY <1>2, <3>0, <4>1, <4>2, <4>3, <4>4
    <3>2. CASE UNCHANGED <<rdyVars, OSTCBDly>>
      BY <1>2, <3>0, <3>2 DEF rdyVars, Table
    <3> QED BY <1>12, <3>1, <3>2 DEF Interrupt
  <2>2. OSPrioCur' \in Prios
    BY <1>12, <2>1, HighestFound DEF Interrupt, Reschedule
  <2> QED BY <1>12, <2>1, <2>2 DEF Interrupt, tcbVars
<1>13. CASE UNCHANGED vars BY <1>13 DEF vars, rdyVars, tcbVars
<1> QED BY <1>3, <1>4, <1>5, <1>6, <1>7, <1>9, <1>10, <1>11, <1>12, <1>13
        DEF Next

-----------------------------------------------------------------------------
\* Each step keeps the invariant and is a step of PrioSched, or hidden there.

Hidden == UNCHANGED <<{p \in Prios : Exists(p)}, OSTCBDly>>

LEMMA HiddenStep ==
    ASSUME UNCHANGED OSTCBDly, \A p \in Prios : Exists(p)' = Exists(p)
    PROVE  Hidden
BY DEF Hidden

LEMMA ReserveStep ==
    ASSUME KernelOK, TypeOK', NEW p \in Prios, NEW q \in Prios, Reserve(p, q)
    PROVE  KernelOK' /\ Hidden
<1> USE DEF KernelOK, TypeOK
<1>1. /\ p = OSPrioCur /\ OSPrioCur' = p /\ call[p] = "app" /\ p # Idle
      /\ \A r \in Prios : call'[r] = IF r = p THEN "take" ELSE call[r]
      /\ \A r \in Prios : prio'[r] = IF r = p THEN q ELSE prio[r]
      /\ OSTCBPrioTbl[q] = "free"
      /\ \A r \in Prios : OSTCBPrioTbl'[r] =
                            IF r = q THEN "reserved" ELSE OSTCBPrioTbl[r]
      /\ UNCHANGED <<rdyVars, OSTCBDly, OSTCBList, OSLockNesting>>
  BY DEF Reserve, At, Goto
<1>2. PS!Running(p) BY <1>1 DEF RunsMostUrgent
<1>3. OSTCBPrioTbl[p] = "task" BY <1>2 DEF PS!Running, PS!Ready, Exists
<1>4. \A r \in Prios : Exists(r)' = Exists(r) BY <1>1 DEF Exists
<1>5. ReadyTasks' = ReadyTasks /\ TableRight' BY <1>1, <1>4, SameReady
<1>6. PS!Running(OSPrioCur)' BY <1>1, <1>2, <1>5, SameRunning
<1>7. IdleReady' BY <1>1, PrioFacts DEF IdleReady
<1>8. BlocksRight' BY <1>1, <1>3, <1>4 DEF BlocksRight
<1>9. ReservationsKept' BY <1>1 DEF ReservationsKept, Creating
<1>10. LockRight' BY <1>1 DEF LockRight, DeletionKeepsProcessor
<1> QED BY <1>1, <1>4, <1>5, <1>6, <1>7, <1>8, <1>9, <1>10, HiddenStep
        DEF RunsMostUrgent

LEMMA TakeStep ==
    ASSUME KernelOK, TypeOK', NEW p \in Prios, TakeTCB(p)
    PROVE  KernelOK' /\ Hidden
<1> USE DEF KernelOK, TypeOK
<1>1. /\ p = OSPrioCur /\ OSPrioCur' = p /\ call[p] = "take"
      /\ call'[p] \in {"link", "undo"}
      /\ \A r \in Prios \ {p} : call'[r] = call[r]
      /\ UNCHANGED <<rdyVars, OSTCBDly, OSTCBList, OSLockNesting,
                     OSTCBPrioTbl, prio>>
  BY DEF TakeTCB, At, Goto
<1>2. PS!Running(p) BY <1>1 DEF RunsMostUrgent, Creating
<1>4. \A r \in Prios : Exists(r)' = Exists(r) BY <1>1 DEF Exists
<1>5. ReadyTasks' = ReadyTasks /\ TableRight' BY <1>1, <1>4, SameReady
<1>6. PS!Running(OSPrioCur)' BY <1>1, <1>2, <1>5, SameRunning
<1>7. IdleReady' BY <1>1, PrioFacts DEF IdleReady
<1>8. BlocksRight' BY <1>1, <1>4 DEF BlocksRight
<1>9. ReservationsKept' BY <1>1 DEF ReservationsKept, Creating
<1>10. LockRight' BY <1>1 DEF LockRight, DeletionKeepsProcessor
<1> QED BY <1>1, <1>4, <1>5, <1>6, <1>7, <1>8, <1>9, <1>10, HiddenStep
        DEF RunsMostUrgent

LEMMA UndoStep ==
    ASSUME KernelOK, TypeOK', NEW p \in Prios, Undo(p)
    PROVE  KernelOK' /\ Hidden
<1> USE DEF KernelOK, TypeOK
<1>1. /\ p = OSPrioCur /\ OSPrioCur' = p /\ call[p] = "undo"
      /\ \A r \in Prios : call'[r] = IF r = p THEN "app" ELSE call[r]
      /\ \A r \in Prios \ {p} : prio'[r] = prio[r]
      /\ \A r \in Prios : OSTCBPrioTbl'[r] =
                         IF r = prio[p] THEN "free" ELSE OSTCBPrioTbl[r]
      /\ UNCHANGED <<rdyVars, OSTCBDly, OSTCBList, OSLockNesting>>
  BY DEF Undo, At, Goto
<1>2. PS!Running(p) BY <1>1 DEF RunsMostUrgent, Creating
<1>3. OSTCBPrioTbl[prio[p]] = "reserved"
  BY <1>1 DEF ReservationsKept, Creating
<1>4. \A r \in Prios : Exists(r)' = Exists(r) BY <1>1, <1>3 DEF Exists
<1>5. ReadyTasks' = ReadyTasks /\ TableRight' BY <1>1, <1>4, SameReady
<1>6. PS!Running(OSPrioCur)' BY <1>1, <1>2, <1>5, SameRunning
<1>7. IdleReady' BY <1>1, <1>3, PrioFacts DEF IdleReady
<1>8. BlocksRight' BY <1>1, <1>3, <1>4 DEF BlocksRight
<1>9. ReservationsKept' BY <1>1 DEF ReservationsKept, Creating
<1>10. LockRight' BY <1>1 DEF LockRight, DeletionKeepsProcessor
<1> QED BY <1>1, <1>4, <1>5, <1>6, <1>7, <1>8, <1>9, <1>10, HiddenStep
        DEF RunsMostUrgent

LEMMA LinkStep ==
    ASSUME KernelOK, TypeOK', NEW p \in Prios, LinkTCB(p)
    PROVE  /\ KernelOK'
           /\ PS!Running(p) /\ PS!Create(prio[p])
<1> USE DEF KernelOK, TypeOK
<1> DEFINE q == prio[p]
<1>1. q \in Prios OBVIOUS
<1>2. call[p] = "link" /\ p = OSPrioCur BY DEF LinkTCB, At
<1>3. /\ OSTCBPrioTbl[q] = "reserved" /\ OSTCBPrioTbl[p] = "task" /\ q # p
      /\ OSTCBDly[q] = 0
  BY <1>1, <1>2, PrioFacts DEF ReservationsKept, Creating, BlocksRight, Exists
<1> HIDE DEF q
<1>4. /\ \A r \in Prios : OSTCBPrioTbl'[r] =
                         IF r = q THEN "task" ELSE OSTCBPrioTbl[r]
      /\ OSTCBList' = OSTCBList \cup {q}
      /\ MakeReady({q})
      /\ OSTCBDly' = OSTCBDly
      /\ \A r \in Prios : call'[r] = IF r = p THEN "sched"
                                      ELSE IF r = q THEN "app" ELSE call[r]
      /\ \A r \in Prios \ {p} : prio'[r] = prio[r]
      /\ UNCHANGED <<OSPrioCur, OSLockNesting>>
  BY <1>1, <1>3 DEF LinkTCB, q
<1>5. PS!Running(p) BY <1>2 DEF RunsMostUrgent, Creating
<1>6. \A r \in Prios : Exists(r)' <=> (Exists(r) \/ r = q)
  BY <1>1, <1>2, <1>3, <1>4 DEF Exists
<1>7. ReadyTasks' = ReadyTasks \cup {q}
  <2>1. \A r \in Prios : r \in ReadyTasks' <=> r \in ReadyTasks \/ r = q
    BY <1>1, <1>3, <1>4, <1>6, InReady, InReadyNext
  <2>2. ReadyTasks \subseteq Prios /\ ReadyTasks' \subseteq Prios
    BY DEF ReadyTasks
  <2> QED BY <2>1, <2>2, <1>1
<1>8. TableRight'
  BY <1>1, <1>4, <1>7, MadeReady DEF TableRight, ReadyTasks
<1>9. IdleReady' BY <1>2, <1>3, <1>4, PrioFacts DEF IdleReady
<1>10. BlocksRight' BY <1>1, <1>2, <1>3, <1>4, <1>6 DEF BlocksRight
<1>11. ReservationsKept'
  <2> SUFFICES ASSUME NEW r \in Prios, Creating(r)'
               PROVE  /\ OSTCBPrioTbl'[prio'[r]] = "reserved"
                      /\ \A t \in Prios :
                           Creating(t)' /\ prio'[t] = prio'[r] => t = r
    BY DEF ReservationsKept
  <2>1. \A t \in Prios : Creating(t)' => Creating(t) /\ t # p
    BY <1>4 DEF Creating
  <2>2. Creating(p) BY <1>2 DEF Creating
  <2>3. prio[r] # q /\ prio[r] \in Prios
    BY <2>1, <2>2 DEF ReservationsKept, q
  <2>4. OSTCBPrioTbl[prio[r]] = "reserved"
    BY <2>1 DEF ReservationsKept
  <2> QED BY <2>1, <2>3, <2>4, <1>4 DEF ReservationsKept
<1>12. LockRight' BY <1>2, <1>3, <1>4 DEF LockRight, DeletionKeepsProcessor
<1>13. RunsMostUrgent' BY <1>2, <1>4 DEF RunsMostUrgent, Creating
<1>14. PS!Create(q)
  <2>1. {r \in Prios : Exists(r)}' = {r \in Prios : Exists(r)} \cup {q}
    BY <1>1, <1>6
  <2> QED BY <2>1, <1>4 DEF PS!Create
<1> QED BY <1>5, <1>8, <1>9, <1>10, <1>11, <1>12, <1>13, <1>14 DEF q

LEMMA SchedStep ==
    ASSUME KernelOK, TypeOK', NEW p \in Prios, OS_Sched(p)
    PROVE  KernelOK' /\ Hidden
<1> USE DEF KernelOK, TypeOK
<1>1. /\ p = OSPrioCur /\ call[p] \in {"sched", "deleted"}
      /\ Reschedule
      /\ \A r \in Prios : call'[r] = IF r = p THEN "app" ELSE call[r]
      /\ UNCHANGED <<rdyVars, tcbVars, OSTCBDly, OSLockNesting, prio>>
  BY DEF OS_Sched, Goto
<1>2. OSLockNesting = 0 BY <1>1 DEF LockRight
<1>3. \A r \in Prios : Exists(r)' = Exists(r)
  BY <1>1 DEF Exists, tcbVars
<1>4. ReadyTasks' = ReadyTasks /\ TableRight' BY <1>1, <1>3, SameReady
<1>5. ReadyTasks \in SUBSET Prios /\ Idle \in ReadyTasks
  BY InReady, PrioFacts DEF ReadyTasks, IdleReady, Exists
<1>6. PS!Running(OSPrioCur)'
  BY <1>1, <1>2, <1>4, <1>5, Rescheduled DEF TableRight
<1>7. \A r \in Prios : call'[r] # "deleting"
  BY <1>1 DEF LockRight, DeletionKeepsProcessor
<1>8. LockRight' BY <1>1, <1>2, <1>7 DEF LockRight, DeletionKeepsProcessor
<1>9. IdleReady' BY <1>1, PrioFacts DEF IdleReady, tcbVars
<1>10. BlocksRight' BY <1>1, <1>3 DEF BlocksRight, tcbVars
<1>11. ReservationsKept' BY <1>1 DEF ReservationsKept, Creating, tcbVars
<1> QED BY <1>1, <1>3, <1>4, <1>6, <1>8, <1>9, <1>10, <1>11, HiddenStep
        DEF RunsMostUrgent

\* The caller leaves the ready table.
LEMMA LeavesTable ==
    ASSUME KernelOK, NEW p \in Prios, MakeNotReady(p),
           \A r \in Prios \ {p} : /\ Exists(r)' = Exists(r)
                                  /\ OSTCBDly'[r] = OSTCBDly[r],
           ~(Exists(p) /\ OSTCBDly[p] = 0)'
    PROVE  TableRight'
<1>1. \A r \in Prios : r \in ReadyTasks' <=> r \in ReadyTasks /\ r # p
  BY InReady, InReadyNext
<1>2. ReadyTasks \subseteq Prios /\ ReadyTasks' \subseteq Prios
  BY DEF ReadyTasks
<1>3. ReadyTasks' = ReadyTasks \ {p} BY <1>1, <1>2
<1> QED BY <1>2, <1>3, MadeNotReady DEF KernelOK, TableRight

LEMMA DelayStep ==
    ASSUME KernelOK, TypeOK', NEW p \in Prios, NEW ticks \in 1 .. MaxDelay,
           OSTimeDly(p, ticks)
    PROVE  /\ KernelOK'
           /\ PS!Running(p) /\ PS!Delay(p, ticks)
<1> USE DEF KernelOK, TypeOK
<1>0. ticks \in Nat /\ ticks > 0 BY PrioFacts
<1>1. /\ p = OSPrioCur /\ call[p] = "app" /\ p # Idle
      /\ MakeNotReady(p)
      /\ OSTCBDly' = [OSTCBDly EXCEPT ![p] = ticks]
      /\ \A r \in Prios : call'[r] = IF r = p THEN "sched" ELSE call[r]
      /\ UNCHANGED <<tcbVars, OSPrioCur, OSLockNesting, prio>>
  BY DEF OSTimeDly, At, Goto
<1>2. PS!Running(p) BY <1>1 DEF RunsMostUrgent
<1>3. Exists(p) BY <1>2 DEF PS!Running, PS!Ready
<1>4. \A r \in Prios : Exists(r)' = Exists(r)
  BY <1>1 DEF Exists, tcbVars
<1>5. \A r \in Prios \ {p} : OSTCBDly'[r] = OSTCBDly[r] BY <1>1
<1>6. OSTCBDly'[p] = ticks BY <1>1
<1>7. TableRight' BY <1>0, <1>1, <1>4, <1>5, <1>6, LeavesTable
<1>8. IdleReady' BY <1>1, <1>5, PrioFacts DEF IdleReady, tcbVars
<1>9. BlocksRight' BY <1>1, <1>3, <1>4, <1>5, <1>6
                   DEF BlocksRight, tcbVars, Exists
<1>10. ReservationsKept' BY <1>1 DEF ReservationsKept, Creating, tcbVars
<1>11. LockRight' BY <1>1 DEF LockRight, DeletionKeepsProcessor
<1>12. RunsMostUrgent' BY <1>1 DEF RunsMostUrgent, Creating
<1>13. PS!Delay(p, ticks) BY <1>1, <1>4 DEF PS!Delay
<1> QED BY <1>2, <1>7, <1>8, <1>9, <1>10, <1>11, <1>12, <1>13

LEMMA DeleteStep ==
    ASSUME KernelOK, TypeOK', NEW p \in Prios, OSTaskDel(p)
    PROVE  /\ KernelOK'
           /\ PS!Running(p) /\ PS!Delete(p)
<1> USE DEF KernelOK, TypeOK
<1>1. /\ p = OSPrioCur /\ call[p] = "app" /\ p # Idle
      /\ MakeNotReady(p)
      /\ OSTCBDly' = [OSTCBDly EXCEPT ![p] = 0]
      /\ OSLockNesting' = OSLockNesting + 1
      /\ \A r \in Prios : call'[r] = IF r = p THEN "deleting" ELSE call[r]
      /\ UNCHANGED <<tcbVars, OSPrioCur, prio>>
  BY DEF OSTaskDel, At, Goto
<1>2. PS!Running(p) BY <1>1 DEF RunsMostUrgent
<1>3. Exists(p) /\ OSTCBDly[p] = 0 BY <1>2 DEF PS!Running, PS!Ready
<1>4. \A r \in Prios : Exists(r)' <=> Exists(r) /\ r # p
  BY <1>1 DEF Exists, tcbVars
<1>5. OSTCBDly' = OSTCBDly BY <1>1, <1>3
<1>6. TableRight'
  <2>1. \A r \in Prios \ {p} : Exists(r)' = Exists(r)
    BY <1>1 DEF Exists, tcbVars
  <2>2. ~Exists(p)' BY <1>4
  <2> QED BY <1>1, <1>5, <2>1, <2>2, LeavesTable
<1>7. IdleReady' BY <1>1, <1>5, PrioFacts DEF IdleReady, tcbVars
<1>8. BlocksRight' BY <1>1, <1>3, <1>4, <1>5
                   DEF BlocksRight, tcbVars, Exists
<1>9. ReservationsKept' BY <1>1 DEF ReservationsKept, Creating, tcbVars
<1>10. LockRight' BY <1>1 DEF LockRight, DeletionKeepsProcessor
<1>11. RunsMostUrgent' BY <1>1 DEF RunsMostUrgent, Creating
<1>12. PS!Delete(p)
  <2>1. {r \in Prios : Exists(r)}' = {r \in Prios : Exists(r)} \ {p}
    BY <1>4
  <2> QED BY <2>1, <1>5 DEF PS!Delete
<1> QED BY <1>2, <1>6, <1>7, <1>8, <1>9, <1>10, <1>11, <1>12

LEMMA UnlinkStep ==
    ASSUME KernelOK, TypeOK', NEW p \in Prios, UnlinkTCB(p)
    PROVE  KernelOK' /\ Hidden
<1> USE DEF KernelOK, TypeOK
<1>1. /\ p = OSPrioCur /\ call[p] = "deleting"
      /\ OSLockNesting' = OSLockNesting - 1
      /\ \A r \in Prios : OSTCBPrioTbl'[r] =
                         IF r = p THEN "free" ELSE OSTCBPrioTbl[r]
      /\ OSTCBList' = OSTCBList \ {p}
      /\ \A r \in Prios : call'[r] = IF r = p THEN "deleted" ELSE call[r]
      /\ UNCHANGED <<rdyVars, OSTCBDly, OSPrioCur, prio>>
  BY DEF UnlinkTCB, At, Goto
<1>2. OSTCBPrioTbl[p] = "task" /\ p # Idle BY <1>1 DEF BlocksRight, IdleReady
<1>3. \A r \in Prios : Exists(r)' = Exists(r) BY <1>1 DEF Exists
<1>4. TableRight' BY <1>1, <1>3, SameReady
<1>5. IdleReady' BY <1>1, <1>2, PrioFacts DEF IdleReady
<1>6. BlocksRight' BY <1>1, <1>3 DEF BlocksRight
<1>7. ReservationsKept' BY <1>1, <1>2 DEF ReservationsKept, Creating
<1>8. LockRight' BY <1>1 DEF LockRight, DeletionKeepsProcessor
<1>9. RunsMostUrgent' BY <1>1 DEF RunsMostUrgent, Creating
<1> QED BY <1>1, <1>3, <1>4, <1>5, <1>6, <1>7, <1>8, <1>9, HiddenStep

LEMMA InterruptStep ==
    ASSUME KernelOK, TypeOK', Interrupt
    PROVE  KernelOK' /\ (PS!Tick \/ Hidden)
<1> USE DEF KernelOK, TypeOK
<1> DEFINE W == {p \in Waiting : OSTCBDly[p] = 1}
<1>1. Reschedule /\ UNCHANGED <<tcbVars, OSLockNesting, call, prio>>
  BY DEF Interrupt
<1>2. \A r \in Prios : Exists(r)' = Exists(r) BY <1>1 DEF Exists, tcbVars
<1>3. ReadyTasks \in SUBSET Prios /\ ReadyTasks' \in SUBSET Prios
      /\ Idle \in ReadyTasks
  BY InReady, PrioFacts DEF ReadyTasks, IdleReady, Exists
<1>4. \A r \in Prios : r \in Waiting <=> OSTCBDly[r] > 0
  BY PrioFacts DEF Waiting, BlocksRight, IdleReady, Exists
<1>5. /\ TableRight' /\ (PS!Tick \/ Hidden)
      /\ \A r \in Prios : OSTCBDly'[r] > 0 => OSTCBDly[r] > 0
      /\ Idle \in ReadyTasks'
  <2>1. CASE OSTimeTick
    <3>1. /\ \A r \in Prios : OSTCBDly'[r] = IF OSTCBDly[r] > 0
                               THEN OSTCBDly[r] - 1 ELSE OSTCBDly[r]
          /\ MakeReady(W)
      BY <2>1, <1>4 DEF OSTimeTick
    <3>2. W \in SUBSET Prios BY DEF Waiting
    <3>3. \A r \in Prios : r \in W <=> OSTCBDly[r] = 1 BY <1>4, PrioFacts
    <3>4. \A r \in Prios : OSTCBDly[r] = 1 => Exists(r)
      BY DEF BlocksRight
    <3>5. ReadyTasks' = ReadyTasks \cup W
      <4> HIDE DEF W
      <4>1. \A r \in Prios : OSTCBDly'[r] = 0 <=>
                               OSTCBDly[r] = 0 \/ OSTCBDly[r] = 1
        BY <3>1, PrioFacts
      <4>2. \A r \in Prios : r \in ReadyTasks' <=> r \in ReadyTasks \/ r \in W
        BY <4>1, <3>3, <3>4, <1>2, InReady, InReadyNext
      <4> QED BY <4>2, <1>3, <3>2
    <3>6. TableRight' BY <3>1, <3>2, <3>5, <1>3, MadeReady DEF TableRight
    <3>7. PS!Tick \/ Hidden
      <4>1. CASE \E r \in Prios : OSTCBDly[r] > 0
        <5>1. \E r \in {t \in Prios : Exists(t)} : OSTCBDly[r] > 0
          BY <4>1 DEF BlocksRight
        <5>2. OSTCBDly' = [r \in Prios |-> IF OSTCBDly[r] > 0
                                           THEN OSTCBDly[r] - 1 ELSE 0]
          BY <3>1, PrioFacts
        <5> QED BY <5>1, <5>2, <1>2 DEF PS!Tick
      <4>2. CASE \A r \in Prios : ~(OSTCBDly[r] > 0)
        <5>1. OSTCBDly' = OSTCBDly
          <6>1. \A r \in Prios : OSTCBDly'[r] = OSTCBDly[r] BY <4>2, <3>1
          <6>2. /\ OSTCBDly \in [Prios -> 0 .. MaxDelay]
                /\ OSTCBDly' \in [Prios -> 0 .. MaxDelay]
            OBVIOUS
          <6> QED BY <6>1, <6>2
        <5> QED BY <5>1, <1>2, HiddenStep
      <4> QED BY <4>1, <4>2
    <3>8. \A r \in Prios : OSTCBDly'[r] > 0 => OSTCBDly[r] > 0 BY <3>1
    <3> QED BY <3>5, <3>6, <3>7, <3>8, <1>3
  <2>2. CASE UNCHANGED <<rdyVars, OSTCBDly>>
    <3>1. ReadyTasks' = ReadyTasks /\ TableRight' BY <2>2, <1>2, SameReady
    <3> QED BY <2>2, <3>1, <1>2, <1>3, HiddenStep
  <2> QED BY <2>1, <2>2 DEF Interrupt
<1> HIDE DEF W
<1>6. IdleReady'
  BY <1>1, <1>5, InReadyNext, PrioFacts DEF IdleReady, tcbVars
<1>7. BlocksRight' BY <1>1, <1>2, <1>5 DEF BlocksRight, tcbVars
<1>8. ReservationsKept' BY <1>1 DEF ReservationsKept, Creating, tcbVars
<1>9. LockRight' /\ RunsMostUrgent'
  <2>1. CASE OSLockNesting = 0
    <3>1. PS!Running(OSPrioCur)'
      BY <2>1, <1>1, <1>3, <1>5, Rescheduled DEF TableRight
    <3>2. \A r \in Prios : call'[r] # "deleting"
      BY <2>1, <1>1 DEF LockRight, DeletionKeepsProcessor
    <3> QED BY <2>1, <3>1, <3>2, <1>1
            DEF LockRight, DeletionKeepsProcessor, RunsMostUrgent
  <2>2. CASE OSLockNesting # 0
    <3>1. OSPrioCur' = OSPrioCur BY <2>2, <1>1 DEF Reschedule
    <3>2. call[OSPrioCur] = "deleting" BY <2>2 DEF LockRight
    <3> QED BY <3>1, <3>2, <1>1
            DEF LockRight, DeletionKeepsProcessor, RunsMostUrgent, Creating
  <2> QED BY <2>1, <2>2
<1> QED BY <1>5, <1>6, <1>7, <1>8, <1>9

LEMMA KernelStep ==
    ASSUME KernelOK, [Next]_vars
    PROVE  KernelOK' /\ (PS!SchedNext \/ Hidden)
<1>1. TypeOK' BY TypeStep DEF KernelOK
<1>2. ASSUME NEW p \in Prios, PS!Running(p),
             \/ \E u \in Prios : PS!Create(u)
             \/ \E n \in 0 .. MaxDelay : PS!Delay(p, n)
             \/ PS!Delete(p)
      PROVE  PS!SchedNext
  BY <1>2 DEF PS!SchedNext
<1>3. ASSUME NEW p \in Prios, NEW q \in Prios, Reserve(p, q)
      PROVE  KernelOK' /\ Hidden
  BY <1>1, <1>3, ReserveStep
<1>4. ASSUME NEW p \in Prios,
             TakeTCB(p) \/ Undo(p) \/ OS_Sched(p) \/ UnlinkTCB(p)
      PROVE  KernelOK' /\ Hidden
  BY <1>1, <1>4, TakeStep, UndoStep, SchedStep, UnlinkStep
<1>5. ASSUME NEW p \in Prios, LinkTCB(p) PROVE KernelOK' /\ PS!SchedNext
  <2>1. prio[p] \in Prios BY DEF KernelOK, TypeOK
  <2> QED BY <1>1, <1>2, <1>5, <2>1, LinkStep
<1>6. ASSUME NEW p \in Prios, NEW ticks \in 1 .. MaxDelay, OSTimeDly(p, ticks)
      PROVE  KernelOK' /\ PS!SchedNext
  <2>1. ticks \in 0 .. MaxDelay BY PrioFacts
  <2> QED BY <1>1, <1>2, <1>6, <2>1, DelayStep
<1>7. ASSUME NEW p \in Prios, OSTaskDel(p) PROVE KernelOK' /\ PS!SchedNext
  BY <1>1, <1>2, <1>7, DeleteStep
<1>8. CASE Interrupt
  <2>1. PS!Tick => PS!SchedNext BY DEF PS!SchedNext
  <2> QED BY <1>1, <1>8, <2>1, InterruptStep
<1>9. CASE UNCHANGED vars
  <2>1. \A p \in Prios : Exists(p)' = Exists(p)
    BY <1>9 DEF vars, tcbVars, Exists
  <2>2. ReadyTasks' = ReadyTasks /\ TableRight'
    BY <1>9, <2>1, SameReady DEF vars
  <2>3. IdleReady' /\ BlocksRight' /\ ReservationsKept' /\ LockRight'
    BY <1>9, <2>1 DEF KernelOK, IdleReady, BlocksRight, ReservationsKept,
       Creating, LockRight, DeletionKeepsProcessor, vars, tcbVars
  <2>4. RunsMostUrgent'
    BY <1>9, <2>2, SameRunning DEF KernelOK, TypeOK, RunsMostUrgent, Creating,
       vars
  <2>5. Hidden BY <1>9, <2>1, HiddenStep DEF vars
  <2> QED BY <1>1, <2>2, <2>3, <2>4, <2>5 DEF KernelOK
<1> QED BY <1>3, <1>4, <1>5, <1>6, <1>7, <1>8, <1>9 DEF Next

LEMMA KernelInit == Init => KernelOK /\ PS!SchedInit
<1> SUFFICES ASSUME Init PROVE KernelOK /\ PS!SchedInit OBVIOUS
<1>1. PICK A \in SUBSET Prios :
        /\ Idle \in A /\ Cardinality(A) <= NumTCBs
        /\ OSTCBPrioTbl = [p \in Prios |-> IF p \in A THEN "task" ELSE "free"]
        /\ OSTCBList = A
        /\ OSTCBFreeList = NumTCBs - Cardinality(A)
        /\ OSTCBDly = [p \in Prios |-> 0]
        /\ OSRdyTbl = [y \in Rows |-> {Bit(p) : p \in {q \in A : Row(q) = y}}]
        /\ OSRdyGrp = {Row(p) : p \in A}
        /\ OSPrioCur = HighRdy(OSRdyGrp, OSRdyTbl)
        /\ OSLockNesting = 0
        /\ call = [p \in Prios |-> "app"]
        /\ prio = [p \in Prios |-> p]
  BY DEF Init
<1>2. \A p \in Prios : Exists(p) <=> p \in A BY <1>1 DEF Exists
<1>3. ReadyTasks = A
  <2>1. \A p \in Prios : p \in ReadyTasks <=> p \in A BY <1>1, <1>2, InReady
  <2> QED BY <2>1 DEF ReadyTasks
<1>4. Table(OSRdyGrp, OSRdyTbl, A)
  <2>1. OSRdyGrp \subseteq Rows BY <1>1, Places
  <2>2. OSRdyTbl \in [Rows -> SUBSET Rows]
    <3>1. \A y \in Rows : {Bit(p) : p \in {q \in A : Row(q) = y}}
                            \in SUBSET Rows
      BY Places
    <3> QED BY <1>1, <3>1
  <2>3. \A y \in Rows : y \in OSRdyGrp <=> OSRdyTbl[y] # {} BY <1>1
  <2>4. ASSUME NEW y \in Rows, NEW x \in OSRdyTbl[y] PROVE y * 8 + x \in A
    <3>1. PICK p \in A : Row(p) = y /\ Bit(p) = x BY <1>1
    <3> QED BY <3>1, Places
  <2>5. \A p \in A : Bit(p) \in OSRdyTbl[Row(p)] BY <1>1, Places
  <2> QED BY <2>1, <2>2, <2>3, <2>4, <2>5 DEF Table
<1>5. OSPrioCur \in A /\ \A r \in A : OSPrioCur <= r
  BY <1>1, <1>4, HighestFound
<1>6. OSTCBFreeList \in Nat
  <2>1. IsFiniteSet(0 .. 63) BY 0 \in Int, 63 \in Int, FS_Interval, Zenon
  <2>2. IsFiniteSet(A) BY <2>1, FS_Subset, UcosAssumption
  <2>3. Cardinality(A) \in Nat BY <2>2, FS_CardinalityType
  <2> QED BY <1>1, <2>3, PrioFacts
<1>7. TypeOK BY <1>1, <1>4, <1>5, <1>6, PrioFacts DEF TypeOK, Table, Calls
<1>8. PS!Running(OSPrioCur)
  BY <1>3, <1>5 DEF ReadyTasks, PS!Running, PS!Ready
<1>9. TableRight /\ IdleReady BY <1>1, <1>3, <1>4, PrioFacts
                              DEF TableRight, IdleReady
<1>10. BlocksRight /\ ReservationsKept
  BY <1>1 DEF BlocksRight, ReservationsKept, Creating
<1>11. LockRight /\ RunsMostUrgent
  BY <1>1, <1>5, <1>8 DEF LockRight, DeletionKeepsProcessor, RunsMostUrgent
<1>12. PS!SchedInit BY <1>1 DEF PS!SchedInit
<1> QED BY <1>7, <1>9, <1>10, <1>11, <1>12 DEF KernelOK

-----------------------------------------------------------------------------
\* No priority and no control block is lost.

\* Every reserved priority has a creator.
Held ==
    \A q \in Prios : OSTCBPrioTbl[q] = "reserved" =>
        \E p \in Prios : Creating(p) /\ prio[p] = q

Filling == {p \in Prios : call[p] = "link"}

LEMMA HeldStep ==
    ASSUME KernelOK, Held, [Next]_vars
    PROVE  Held'
<1> USE DEF KernelOK, TypeOK
<1>1. ASSUME NEW p \in Prios, NEW q \in Prios, Reserve(p, q) PROVE Held'
  BY <1>1 DEF Reserve, At, Goto, Held, Creating
<1>2. ASSUME NEW p \in Prios, TakeTCB(p) PROVE Held'
  BY <1>2 DEF TakeTCB, At, Goto, Held, Creating
<1>3. ASSUME NEW p \in Prios, Undo(p) PROVE Held'
  BY <1>3 DEF Undo, At, Goto, Held, Creating
<1>4. ASSUME NEW p \in Prios, LinkTCB(p) PROVE Held'
  <2>1. /\ Creating(p) /\ prio[p] \in Prios
        /\ OSTCBPrioTbl[prio[p]] = "reserved"
    BY <1>4 DEF LinkTCB, At, ReservationsKept, Creating
  <2>2. ~Creating(prio[p]) BY <2>1 DEF BlocksRight, Creating
  <2>3. ASSUME NEW q \in Prios, OSTCBPrioTbl'[q] = "reserved"
        PROVE  \E r \in Prios : Creating(r)' /\ prio'[r] = q
    <3>1. q # prio[p] /\ OSTCBPrioTbl[q] = "reserved"
      BY <1>4, <2>1, <2>3 DEF LinkTCB
    <3>2. PICK r \in Prios : Creating(r) /\ prio[r] = q BY <3>1 DEF Held
    <3>3. r # p /\ r # prio[p] BY <3>1, <3>2, <2>2
    <3>4. call'[r] = call[r] /\ prio'[r] = prio[r]
      BY <1>4, <3>3, <2>1 DEF LinkTCB
    <3> QED BY <3>2, <3>4 DEF Creating
  <2> QED BY <2>3 DEF Held
<1>5. ASSUME NEW p \in Prios, OS_Sched(p) PROVE Held'
  BY <1>5 DEF OS_Sched, Goto, Held, Creating, tcbVars
<1>6. ASSUME NEW p \in Prios, NEW ticks \in 1 .. MaxDelay, OSTimeDly(p, ticks)
      PROVE  Held'
  BY <1>6 DEF OSTimeDly, At, Goto, Held, Creating, tcbVars
<1>7. ASSUME NEW p \in Prios, OSTaskDel(p) PROVE Held'
  BY <1>7 DEF OSTaskDel, At, Goto, Held, Creating, tcbVars
<1>8. ASSUME NEW p \in Prios, UnlinkTCB(p) PROVE Held'
  BY <1>8 DEF UnlinkTCB, At, Goto, Held, Creating
<1>9. CASE Interrupt
  BY <1>9 DEF Interrupt, Held, Creating, tcbVars
<1>10. CASE UNCHANGED vars BY <1>10 DEF vars, tcbVars, Held, Creating
<1> QED BY <1>1, <1>2, <1>3, <1>4, <1>5, <1>6, <1>7, <1>8, <1>9, <1>10
        DEF Next

LEMMA FinitePrios ==
    ASSUME NEW S \in SUBSET Prios
    PROVE  IsFiniteSet(S) /\ Cardinality(S) \in Nat
<1>1. IsFiniteSet(0 .. 63) BY 0 \in Int, 63 \in Int, FS_Interval, Zenon
<1>2. IsFiniteSet(S) BY <1>1, FS_Subset, UcosAssumption
<1> QED BY <1>2, FS_CardinalityType

\* One task more, or one less.
LEMMA Added ==
    ASSUME NEW S \in SUBSET Prios, NEW p \in Prios \ S
    PROVE  Cardinality(S \cup {p}) = Cardinality(S) + 1
BY FinitePrios, FS_AddElement

LEMMA Removed ==
    ASSUME NEW S \in SUBSET Prios, NEW p \in S
    PROVE  Cardinality(S \ {p}) = Cardinality(S) - 1
BY FinitePrios, FS_RemoveElement

\* Only three steps change the count's parts.
LEMMA SameCount ==
    ASSUME TCBsAccounted, UNCHANGED <<OSTCBFreeList, OSTCBList>>,
           Filling' = Filling
    PROVE  TCBsAccounted'
BY DEF TCBsAccounted, Filling

LEMMA TakeCounts ==
    ASSUME KernelOK, TCBsAccounted, NEW p \in Prios, TakeTCB(p)
    PROVE  TCBsAccounted'
<1> USE DEF KernelOK, TypeOK
<1>1. call[p] = "take" /\ UNCHANGED OSTCBList BY DEF TakeTCB, At
<1>2. CASE OSTCBFreeList > 0 /\ OSTCBFreeList' = OSTCBFreeList - 1
           /\ Goto(p, "link")
  <2>1. Filling' = Filling \cup {p} /\ p \notin Filling
    BY <1>1, <1>2 DEF Filling, Goto
  <2>2. Cardinality(Filling') = Cardinality(Filling) + 1
    BY <2>1, Added DEF Filling
  <2>3. Cardinality(Filling) \in Nat /\ Cardinality(OSTCBList) \in Nat
    BY FinitePrios DEF Filling
  <2> QED BY <1>1, <1>2, <2>2, <2>3 DEF TCBsAccounted, Filling
<1>3. CASE Goto(p, "undo") /\ UNCHANGED OSTCBFreeList
  BY <1>1, <1>3, SameCount DEF Filling, Goto
<1> QED BY <1>2, <1>3 DEF TakeTCB

LEMMA LinkCounts ==
    ASSUME KernelOK, TCBsAccounted, NEW p \in Prios, LinkTCB(p)
    PROVE  TCBsAccounted'
<1> USE DEF KernelOK, TypeOK
<1>1. call[p] = "link" /\ prio[p] \in Prios BY DEF LinkTCB, At
<1>2. OSTCBPrioTbl[prio[p]] = "reserved"
  BY <1>1 DEF ReservationsKept, Creating
<1>3. prio[p] \notin OSTCBList /\ prio[p] \notin Filling
  BY <1>1, <1>2 DEF BlocksRight, Filling
<1>4. Filling' = Filling \ {p} /\ p \in Filling
  BY <1>1, <1>3 DEF LinkTCB, Filling
<1>5. Cardinality(Filling') = Cardinality(Filling) - 1
  BY <1>4, Removed DEF Filling
<1>6. Cardinality(OSTCBList') = Cardinality(OSTCBList) + 1
  BY <1>1, <1>3, Added DEF LinkTCB
<1>7. UNCHANGED OSTCBFreeList BY DEF LinkTCB
<1>8. Cardinality(Filling) \in Nat /\ Cardinality(OSTCBList) \in Nat
  BY FinitePrios DEF Filling
<1> QED BY <1>5, <1>6, <1>7, <1>8 DEF TCBsAccounted, Filling

LEMMA UnlinkCounts ==
    ASSUME KernelOK, TCBsAccounted, NEW p \in Prios, UnlinkTCB(p)
    PROVE  TCBsAccounted'
<1> USE DEF KernelOK, TypeOK
<1>1. call[p] = "deleting" /\ p \in OSTCBList
  BY DEF UnlinkTCB, At, BlocksRight
<1>2. Filling' = Filling BY <1>1 DEF UnlinkTCB, Goto, Filling
<1>3. Cardinality(OSTCBList') = Cardinality(OSTCBList) - 1
  BY <1>1, Removed DEF UnlinkTCB
<1>4. OSTCBFreeList' = OSTCBFreeList + 1 BY DEF UnlinkTCB
<1>5. Cardinality(Filling) \in Nat /\ Cardinality(OSTCBList) \in Nat
  BY FinitePrios DEF Filling
<1>6. OSTCBFreeList + Cardinality(OSTCBList) + Cardinality(Filling) = NumTCBs
  BY DEF TCBsAccounted, Filling
<1>7. (OSTCBFreeList + Cardinality(OSTCBList) + Cardinality(Filling) = NumTCBs)'
  BY <1>2, <1>3, <1>4, <1>5, <1>6
<1> QED BY <1>7 DEF TCBsAccounted, Filling

LEMMA CountStep ==
    ASSUME KernelOK, TCBsAccounted, [Next]_vars
    PROVE  TCBsAccounted'
<1> USE DEF KernelOK, TypeOK
<1>1. ASSUME NEW p \in Prios, NEW q \in Prios, Reserve(p, q)
      PROVE  TCBsAccounted'
  BY <1>1, SameCount DEF Reserve, At, Goto, Filling
<1>2. ASSUME NEW p \in Prios, TakeTCB(p) \/ LinkTCB(p) \/ UnlinkTCB(p)
      PROVE  TCBsAccounted'
  BY <1>2, TakeCounts, LinkCounts, UnlinkCounts
<1>3. ASSUME NEW p \in Prios, Undo(p) PROVE TCBsAccounted'
  BY <1>3, SameCount DEF Undo, At, Goto, Filling
<1>4. ASSUME NEW p \in Prios, OS_Sched(p) PROVE TCBsAccounted'
  BY <1>4, SameCount DEF OS_Sched, Goto, Filling, tcbVars
<1>5. ASSUME NEW p \in Prios, NEW ticks \in 1 .. MaxDelay, OSTimeDly(p, ticks)
      PROVE  TCBsAccounted'
  BY <1>5, SameCount DEF OSTimeDly, At, Goto, Filling, tcbVars
<1>6. ASSUME NEW p \in Prios, OSTaskDel(p) PROVE TCBsAccounted'
  BY <1>6, SameCount DEF OSTaskDel, At, Goto, Filling, tcbVars
<1>7. CASE Interrupt BY <1>7, SameCount DEF Interrupt, Filling, tcbVars
<1>8. CASE UNCHANGED vars BY <1>8, SameCount DEF vars, Filling, tcbVars
<1> QED BY <1>1, <1>2, <1>3, <1>4, <1>5, <1>6, <1>7, <1>8 DEF Next

LEMMA NothingLostInit == Init => Held /\ TCBsAccounted
<1> SUFFICES ASSUME Init PROVE Held /\ TCBsAccounted OBVIOUS
<1>1. PICK A \in SUBSET Prios :
        /\ OSTCBPrioTbl = [p \in Prios |-> IF p \in A THEN "task" ELSE "free"]
        /\ OSTCBList = A
        /\ OSTCBFreeList = NumTCBs - Cardinality(A)
        /\ call = [p \in Prios |-> "app"]
  BY DEF Init
<1>2. Held BY <1>1 DEF Held
<1>3. Filling = {} BY <1>1 DEF Filling
<1>4. Cardinality(A) \in Nat BY FinitePrios
<1>5. Cardinality(Filling) = 0 BY <1>3, FS_EmptySet
<1>6. OSTCBFreeList + Cardinality(OSTCBList) + Cardinality(Filling) = NumTCBs
  BY <1>1, <1>4, <1>5, PrioFacts
<1> QED BY <1>2, <1>6 DEF TCBsAccounted, Filling

\* Every variable of the kernel keeps its type: no delay is counted below 0 by
\* OSTimeTick and OSLockNesting never exceeds 1.
THEOREM TypeCorrect == Spec => []TypeOK
<1>1. KernelOK /\ [Next]_vars => KernelOK' BY KernelStep
<1>2. KernelOK => TypeOK BY DEF KernelOK
<1> QED BY KernelInit, <1>1, <1>2, PTL DEF Spec

\* Whatever interrupts come between two critical sections, a task in its own
\* code is the most urgent ready task, and one that deletes itself (OSTaskDel)
\* keeps the processor until it has given back its control block.
THEOREM RightTaskRuns ==
    Spec => [](MostUrgentRuns /\ DeletionKeepsProcessor)
<1>1. KernelOK /\ [Next]_vars => KernelOK' BY KernelStep
<1>2. KernelOK => MostUrgentRuns /\ DeletionKeepsProcessor
  BY DEF KernelOK, RunsMostUrgent, MostUrgentRuns, LockRight
<1> QED BY KernelInit, <1>1, <1>2, PTL DEF Spec

\* Every step of the kernel's calls and of its clock interrupt is a step of
\* PrioSched, on which the model of the application (KbsTasks) is built, or
\* hidden there.
THEOREM KernelImplements == Spec => ImplementsPrioSched
<1>1. KernelOK /\ [Next]_vars =>
        KernelOK' /\ [PS!SchedNext]_(PS!schedVars)
  BY KernelStep DEF Hidden, PS!schedVars
<1> QED BY KernelInit, <1>1, PTL DEF Spec, ImplementsPrioSched, PS!SchedSpec

\* A task that deletes itself (OSTaskDel) is not ready any more while OS_Dummy
\* lets interrupts in, and still the processor is its own until the control
\* block is back: no task is ever stopped in the middle of its deletion.
THEOREM DeletionIsSafe == Spec => []DeletionKeepsProcessor
<1>1. KernelOK /\ [Next]_vars => KernelOK' BY KernelStep
<1>2. KernelOK => DeletionKeepsProcessor BY DEF KernelOK, LockRight
<1> QED BY KernelInit, <1>1, <1>2, PTL DEF Spec

\* However the critical sections of creations and deletions follow each other,
\* every reserved priority has exactly one creator that will use it or give it
\* free, and every control block is in the free list, in the chain or in the
\* hands of one creator.
THEOREM KernelLosesNothing == Spec => []NothingLost
<1>1. KernelOK /\ [Next]_vars => KernelOK' BY KernelStep
<1>2. KernelOK /\ Held /\ [Next]_vars => Held' BY HeldStep
<1>3. KernelOK /\ TCBsAccounted /\ [Next]_vars => TCBsAccounted' BY CountStep
<1>4. ASSUME KernelOK, Held PROVE ReservedByOne
  <2>1. ASSUME NEW q \in Prios, OSTCBPrioTbl[q] = "reserved"
        PROVE  \E p \in Prios :
                 /\ Creating(p) /\ prio[p] = q
                 /\ \A r \in Prios : Creating(r) /\ prio[r] = q => r = p
    BY <1>4, <2>1 DEF Held, KernelOK, ReservationsKept
  <2>2. ASSUME NEW q \in Prios, NEW p \in Prios, Creating(p), prio[p] = q
        PROVE  OSTCBPrioTbl[q] = "reserved"
    BY <1>4, <2>2 DEF KernelOK, ReservationsKept
  <2> QED BY <2>1, <2>2 DEF ReservedByOne
<1>5. KernelOK /\ Held /\ TCBsAccounted => NothingLost
  BY <1>4 DEF NothingLost
<1> QED BY KernelInit, NothingLostInit, <1>1, <1>2, <1>3, <1>5, PTL DEF Spec
=============================================================================
