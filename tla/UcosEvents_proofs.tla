-------------------------- MODULE UcosEvents_proofs --------------------------
(***************************************************************************)
(* Proofs about UcosEvents for any tasks, timeouts, flags and waits: what  *)
(* the ready table and the wait lists hold, that no token of the semaphore *)
(* is lost, and that nobody sleeps on flags that are up.                   *)
(***************************************************************************)
EXTENDS UcosEvents, FiniteSetTheorems, WellFoundedInduction, TLAPS

\* Every variable has its type; of the observer only that it is a number.
Types == /\ rdy \subseteq Tasks
         /\ OSTCBStat \in [Tasks -> SUBSET {"SEM", "FLAG", "SUSPEND"}]
         /\ OSTCBStatPend \in [Tasks -> {"OK", "TO", "ABORT"}]
         /\ OSTCBDly \in [Tasks -> 0 .. MaxTimeout]
         /\ at \in [Tasks -> {"app", "sem", "flag"}]
         /\ OSEventCnt \in 0 .. MaxCnt
         /\ semWait \subseteq Tasks
         /\ OSFlagFlags \subseteq Flags
         /\ flagWait \subseteq Tasks
         /\ want \in [Tasks -> Waits \cup {NoWait}]
         /\ OSTCBFlagsRdy \in [Tasks -> SUBSET Flags]
         /\ tokens \in Int

\* What keeps one task from running and where it is in its pend.
TaskInv(t) ==
    /\ t \in rdy <=> OSTCBStat[t] = {} /\ OSTCBDly[t] = 0
    /\ "SEM" \in OSTCBStat[t] => at[t] = "sem"
    /\ "FLAG" \in OSTCBStat[t] => at[t] = "flag"
    /\ at[t] # "app" /\ OSTCBStat[t] \cap {"SEM", "FLAG"} = {} => OSTCBDly[t] = 0
    /\ t \in semWait <=> InList(t, "sem", "SEM")
    /\ t \in flagWait <=> InList(t, "flag", "FLAG")

Inv == Types /\ \A t \in Tasks : TaskInv(t)

\* The actions, one name each.
SemPends == \E t \in Tasks : \E timeout \in 0 .. MaxTimeout : OSSemPend(t, timeout)
FlagPends == \E t \in Tasks : \E timeout \in 0 .. MaxTimeout :
                \E w \in Waits : OSFlagPend(t, w, timeout)
Delays == \E t \in Tasks : \E ticks \in 1 .. MaxTimeout : OSTimeDly(t, ticks)

LEMMA NextCases ==
    ASSUME Next
    PROVE  \/ SemPends \/ FlagPends \/ Delays
           \/ \E t \in Tasks : SemPended(t)
           \/ \E t \in Tasks : FlagPended(t)
           \/ \E t \in Tasks : OSTimeDlyResume(t)
           \/ \E t \in Tasks : OSTaskSuspend(t)
           \/ \E t \in Tasks : OSTaskResume(t)
           \/ \E cnt \in 0 .. MaxCnt : OSSemSet(cnt)
           \/ \E w \in Waits : OSFlagAccept(w)
           \/ OSSemAccept \/ OSSemPost
           \/ \E b \in BOOLEAN : OSSemPendAbort(b)
           \/ \E flags \in SUBSET Flags : OSFlagPost(flags)
           \/ OSTimeTick
BY Zenon DEF Next, SemPends, FlagPends, Delays

LEMMA Constants == Tasks \subseteq Nat /\ MaxTimeout \in Nat /\ MaxCnt \in Nat
                   /\ Waits \subseteq Wait /\ IsFiniteSet(Tasks)
BY EventsAssumption

LEMMA WaitOfTask ==
    ASSUME NEW w \in Waits \cup {NoWait}
    PROVE  w \in Wait
<1>1. NoWait \in Wait BY DEF NoWait, Wait
<1> QED BY <1>1, Constants

LEMMA HaveFlags ==
    ASSUME NEW w \in Wait, NEW f \in SUBSET Flags
    PROVE  Have(w, f) \in SUBSET Flags /\ Consumed(w, Have(w, f), f) \in SUBSET Flags
<1>1. w.flags \in SUBSET Flags BY DEF Wait
<1> QED BY <1>1 DEF Have, Consumed

LEMMA ConsumedFlags ==
    ASSUME NEW w \in Wait, NEW got \in SUBSET Flags, NEW f \in SUBSET Flags
    PROVE  Consumed(w, got, f) \in SUBSET Flags
BY DEF Consumed

-----------------------------------------------------------------------------
\* The most urgent of the tasks S.
LEMMA MostUrgentIn ==
    ASSUME NEW S \in SUBSET Tasks, S # {}
    PROVE  MostUrgent(S) \in S
<1>1. S \in SUBSET Nat BY Constants
<1> DEFINE R == {ss \in Nat \X Nat : ss[1] < ss[2]}
<1>2. IsWellFoundedOn(R, Nat) BY NatLessThanWellFounded DEF OpToRel
<1> HIDE DEF R
<1>3. \E t \in S : \A u \in S : ~ (<<u, t>> \in R) BY <1>1, <1>2, WFMin
<1>4. \A u, t \in S : u < t => <<u, t>> \in R BY <1>1 DEF R
<1>5. \A u, t \in S : ~ (u < t) => t <= u BY <1>1
<1>6. \E t \in S : \A u \in S : t <= u BY <1>3, <1>4, <1>5
<1> QED BY <1>6 DEF MostUrgent

-----------------------------------------------------------------------------
\* Types

LEMMA TaskRdyTypes ==
    ASSUME NEW S \in SUBSET Tasks, NEW why, NEW status \in {"OK", "TO", "ABORT"},
           Types, TaskRdy(S, why, status)
    PROVE  /\ rdy' \subseteq Tasks
           /\ OSTCBStat' \in [Tasks -> SUBSET {"SEM", "FLAG", "SUSPEND"}]
           /\ OSTCBStatPend' \in [Tasks -> {"OK", "TO", "ABORT"}]
           /\ OSTCBDly' \in [Tasks -> 0 .. MaxTimeout]
<1>1. 0 \in 0 .. MaxTimeout BY Constants
<1>2. OSTCBDly' \in [Tasks -> 0 .. MaxTimeout] BY <1>1 DEF Types, TaskRdy
<1>3. /\ rdy' \subseteq Tasks
      /\ OSTCBStat' \in [Tasks -> SUBSET {"SEM", "FLAG", "SUSPEND"}]
      /\ OSTCBStatPend' \in [Tasks -> {"OK", "TO", "ABORT"}]
  BY DEF Types, TaskRdy
<1> QED BY <1>2, <1>3

LEMMA ExpireTypes ==
    ASSUME NEW E \in SUBSET Tasks, Types, Expire(E)
    PROVE  /\ rdy' \subseteq Tasks
           /\ OSTCBStat' \in [Tasks -> SUBSET {"SEM", "FLAG", "SUSPEND"}]
           /\ OSTCBStatPend' \in [Tasks -> {"OK", "TO", "ABORT"}]
BY DEF Types, Expire

LEMMA ResumedTypes ==
    ASSUME NEW t \in Tasks, Types, Resumed(t)
    PROVE  /\ rdy' \subseteq Tasks
           /\ OSTCBStat' \in [Tasks -> SUBSET {"SEM", "FLAG", "SUSPEND"}]
           /\ OSTCBStatPend' \in [Tasks -> {"OK", "TO", "ABORT"}]
           /\ OSTCBDly' \in [Tasks -> 0 .. MaxTimeout]
           /\ at' \in [Tasks -> {"app", "sem", "flag"}]
BY DEF Types, Resumed

LEMMA TypesStep ==
    ASSUME Types, Next
    PROVE  Types'
<1>1. CASE SemPends
  <2>1. PICK t \in Tasks, timeout \in 0 .. MaxTimeout : OSSemPend(t, timeout)
    BY <1>1 DEF SemPends
  <2>2. CASE Take /\ UNCHANGED <<tcbVars, at, semWait>>
    BY <2>1, <2>2, Constants DEF OSSemPend, Take, Types, tcbVars, flagVars
  <2>3. CASE OSEventCnt = 0 /\ Block(t, "SEM", timeout)
                /\ semWait' = semWait \cup {t} /\ at' = [at EXCEPT ![t] = "sem"]
                /\ UNCHANGED <<OSEventCnt, tokens>>
    BY <2>1, <2>3 DEF OSSemPend, Block, Types, flagVars
  <2> QED BY <2>1, <2>2, <2>3 DEF OSSemPend
<1>2. CASE FlagPends
  <2>1. PICK t \in Tasks, timeout \in 0 .. MaxTimeout, w \in Waits :
            OSFlagPend(t, w, timeout)
    BY <1>2 DEF FlagPends
  <2>2. w \in Wait BY Constants
  <2>3. Consumed(w, Have(w, OSFlagFlags), OSFlagFlags) \in SUBSET Flags
    BY <2>2, HaveFlags DEF Types
  <2>4. CASE Met(w, OSFlagFlags)
    BY <2>1, <2>3, <2>4 DEF OSFlagPend, Types, tcbVars, semVars
  <2>5. CASE ~Met(w, OSFlagFlags)
    BY <2>1, <2>5 DEF OSFlagPend, Block, Types, semVars
  <2> QED BY <2>4, <2>5
<1>3. CASE Delays
  <2>1. PICK t \in Tasks, ticks \in 1 .. MaxTimeout : OSTimeDly(t, ticks)
    BY <1>3 DEF Delays
  <2>2. ticks \in 0 .. MaxTimeout BY Constants
  <2> QED BY <2>1, <2>2 DEF OSTimeDly, Types, semVars, flagVars
<1>4. ASSUME NEW t \in Tasks, SemPended(t) PROVE Types'
  BY <1>4, ResumedTypes DEF SemPended, Types, flagVars
<1>5. ASSUME NEW t \in Tasks, FlagPended(t) PROVE Types'
  <2>1. want[t] \in Wait /\ OSTCBFlagsRdy[t] \in SUBSET Flags
    BY WaitOfTask DEF Types
  <2>2. Consumed(want[t], OSTCBFlagsRdy[t], OSFlagFlags) \in SUBSET Flags
    BY <2>1, ConsumedFlags DEF Types
  <2> QED BY <1>5, <2>2, ResumedTypes DEF FlagPended, Types, semVars
<1>6. ASSUME NEW t \in Tasks, OSTimeDlyResume(t) PROVE Types'
  <2>1. Expire({t}) /\ OSTCBDly' = [OSTCBDly EXCEPT ![t] = 0]
    BY <1>6 DEF OSTimeDlyResume
  <2>2. OSTCBDly' \in [Tasks -> 0 .. MaxTimeout] BY <2>1, Constants DEF Types
  <2> QED BY <1>6, <2>1, <2>2, ExpireTypes
        DEF OSTimeDlyResume, Types, semVars, flagVars
<1>7. ASSUME NEW t \in Tasks, OSTaskSuspend(t) PROVE Types'
  BY <1>7 DEF OSTaskSuspend, Types, semVars, flagVars
<1>8. ASSUME NEW t \in Tasks, OSTaskResume(t) PROVE Types'
  BY <1>8 DEF OSTaskResume, Types, semVars, flagVars
<1>9. ASSUME NEW cnt \in 0 .. MaxCnt, OSSemSet(cnt) PROVE Types'
  BY <1>9, Constants DEF OSSemSet, Types, tcbVars, flagVars
<1>10. ASSUME NEW w \in Waits, OSFlagAccept(w) PROVE Types'
  <2>1. Consumed(w, Have(w, OSFlagFlags), OSFlagFlags) \in SUBSET Flags
    BY Constants, HaveFlags DEF Types
  <2> QED BY <1>10, <2>1 DEF OSFlagAccept, Types, tcbVars, semVars
<1>11. CASE OSSemAccept
  BY <1>11, Constants DEF OSSemAccept, Take, Types, tcbVars, flagVars
<1>12. CASE OSSemPost
  <2>1. tokens' \in Int BY <1>12 DEF OSSemPost, Types
  <2>2. CASE semWait # {}
    <3> DEFINE S == {MostUrgent(semWait)}
    <3>1. S \in SUBSET Tasks BY <2>2, MostUrgentIn DEF Types
    <3>2. /\ TaskRdy(S, "SEM", "OK") /\ semWait' = semWait \ S
          /\ UNCHANGED <<OSEventCnt, at, flagVars>>
      BY <1>12, <2>2 DEF OSSemPost
    <3> HIDE DEF S
    <3> QED BY <2>1, <3>1, <3>2, TaskRdyTypes DEF Types, flagVars
  <2>3. CASE semWait = {}
    <3>1. OSEventCnt' \in 0 .. MaxCnt
      BY <1>12, <2>3, Constants DEF OSSemPost, Types
    <3>2. UNCHANGED <<tcbVars, semWait, at, flagVars>>
      BY <1>12, <2>3 DEF OSSemPost
    <3> QED BY <2>1, <3>1, <3>2 DEF Types, tcbVars, flagVars
  <2> QED BY <2>2, <2>3
<1>13. ASSUME NEW b \in BOOLEAN, OSSemPendAbort(b) PROVE Types'
  <2> DEFINE S == IF b THEN semWait ELSE {MostUrgent(semWait)}
  <2>1. TaskRdy(S, "SEM", "ABORT") /\ semWait' = semWait \ S
    BY <1>13 DEF OSSemPendAbort
  <2>2. S \in SUBSET Tasks BY <1>13, MostUrgentIn DEF OSSemPendAbort, Types
  <2> HIDE DEF S
  <2> QED BY <1>13, <2>1, <2>2, TaskRdyTypes DEF OSSemPendAbort, Types, flagVars
<1>14. ASSUME NEW flags \in SUBSET Flags, OSFlagPost(flags) PROVE Types'
  <2>1. PICK f \in SUBSET Flags : FlagPost(f)
    BY <1>14 DEF OSFlagPost, Types
  <2> DEFINE woken == {t \in flagWait : Met(want[t], f)}
  <2>2. woken \in SUBSET Tasks BY DEF Types
  <2>3. OSTCBFlagsRdy' \in [Tasks -> SUBSET Flags]
    <3>1. ASSUME NEW t \in Tasks PROVE Have(want[t], f) \in SUBSET Flags
      BY WaitOfTask, HaveFlags DEF Types
    <3> QED BY <2>1, <3>1 DEF FlagPost, Types
  <2>4. TaskRdy(woken, "FLAG", "OK") /\ flagWait' = flagWait \ woken
    BY <2>1 DEF FlagPost
  <2> HIDE DEF woken
  <2> QED BY <2>1, <2>2, <2>3, <2>4, TaskRdyTypes DEF FlagPost, Types, semVars
<1>15. CASE OSTimeTick
  <2>1. OSTCBDly' \in [Tasks -> 0 .. MaxTimeout]
    BY <1>15, Constants DEF OSTimeTick, Types
  <2> QED BY <1>15, <2>1, ExpireTypes DEF OSTimeTick, Types, semVars, flagVars
<1> QED BY NextCases, <1>1, <1>2, <1>3, <1>4, <1>5, <1>6, <1>7, <1>8, <1>9,
           <1>10, <1>11, <1>12, <1>13, <1>14, <1>15

-----------------------------------------------------------------------------
\* Ready table and wait lists

\* What was waited for has come: of the tasks in one list, or of nobody.
LEMMA TaskRdyInv ==
    ASSUME Inv, NEW S \in SUBSET Tasks,
           NEW status \in {"OK", "ABORT"},
           \/ S \subseteq semWait /\ TaskRdy(S, "SEM", status)
              /\ semWait' = semWait \ S /\ flagWait' = flagWait
           \/ S \subseteq flagWait /\ TaskRdy(S, "FLAG", status)
              /\ flagWait' = flagWait \ S /\ semWait' = semWait,
           at' = at,
           NEW u \in Tasks
    PROVE  TaskInv(u)'
<1>0. TaskInv(u) /\ OSTCBStat[u] \in SUBSET {"SEM", "FLAG", "SUSPEND"}
  BY DEF Inv, Types
<1>1. CASE u \notin S
  BY <1>0, <1>1 DEF TaskRdy, TaskInv, InList, Suspended
<1>2. CASE u \in S /\ S \subseteq semWait /\ TaskRdy(S, "SEM", status)
             /\ semWait' = semWait \ S /\ flagWait' = flagWait
  <2>1. at[u] = "sem" BY <1>0, <1>2 DEF TaskInv, InList
  <2>2. OSTCBStat'[u] = OSTCBStat[u] \ {"SEM"} /\ OSTCBDly'[u] = 0
          /\ OSTCBStatPend'[u] # "TO"
    BY <1>2 DEF TaskRdy
  <2>3. u \in rdy' <=> u \in rdy \/ "SUSPEND" \notin OSTCBStat[u]
    BY <1>2 DEF TaskRdy, Suspended
  <2>4. u \in semWait /\ u \notin semWait' /\ u \notin flagWait'
    BY <1>0, <1>2, <2>1 DEF TaskInv, InList
  <2> QED BY <1>0, <2>1, <2>2, <2>3, <2>4 DEF TaskInv, InList
<1>3. CASE u \in S /\ S \subseteq flagWait /\ TaskRdy(S, "FLAG", status)
             /\ flagWait' = flagWait \ S /\ semWait' = semWait
  <2>1. at[u] = "flag" BY <1>0, <1>3 DEF TaskInv, InList
  <2>2. OSTCBStat'[u] = OSTCBStat[u] \ {"FLAG"} /\ OSTCBDly'[u] = 0
          /\ OSTCBStatPend'[u] # "TO"
    BY <1>3 DEF TaskRdy
  <2>3. u \in rdy' <=> u \in rdy \/ "SUSPEND" \notin OSTCBStat[u]
    BY <1>3 DEF TaskRdy, Suspended
  <2>4. u \in flagWait /\ u \notin semWait' /\ u \notin flagWait'
    BY <1>0, <1>3, <2>1 DEF TaskInv, InList
  <2> QED BY <1>0, <2>1, <2>2, <2>3, <2>4 DEF TaskInv, InList
<1> QED BY <1>1, <1>2, <1>3

\* The delays of the tasks E, and of no other, are over.
LEMMA ExpireInv ==
    ASSUME Inv, NEW E \in SUBSET Tasks, Expire(E),
           \A t \in E : OSTCBDly[t] # 0 /\ OSTCBDly'[t] = 0,
           \A t \in Tasks \ E : OSTCBDly'[t] = 0 <=> OSTCBDly[t] = 0,
           UNCHANGED <<at, semWait, flagWait>>,
           NEW u \in Tasks
    PROVE  TaskInv(u)'
<1>0. TaskInv(u) /\ OSTCBStat[u] \in SUBSET {"SEM", "FLAG", "SUSPEND"}
  BY DEF Inv, Types
<1>1. CASE u \notin E
  BY <1>0, <1>1 DEF Expire, TaskInv, InList, Suspended
<1>2. CASE u \in E
  <2>1. OSTCBDly[u] # 0 /\ OSTCBDly'[u] = 0 BY <1>2
  <2>2. OSTCBStat'[u] = OSTCBStat[u] \ {"SEM", "FLAG"} BY <1>2 DEF Expire
  <2>3. OSTCBStatPend'[u] = IF OSTCBStat[u] \cap {"SEM", "FLAG"} # {} THEN "TO" ELSE "OK"
    BY <1>2 DEF Expire
  <2>4. u \in rdy' <=> u \in rdy \/ "SUSPEND" \notin OSTCBStat[u]
    BY <1>2 DEF Expire, Suspended
  <2> QED BY <1>0, <2>1, <2>2, <2>3, <2>4 DEF TaskInv, InList
<1> QED BY <1>1, <1>2

LEMMA InvStep ==
    ASSUME Inv, Next
    PROVE  Inv'
<1>0. Types /\ Types' BY TypesStep DEF Inv
<1> SUFFICES ASSUME NEW u \in Tasks PROVE TaskInv(u)'
  BY <1>0 DEF Inv
<1>u. TaskInv(u) /\ OSTCBStat[u] \in SUBSET {"SEM", "FLAG", "SUSPEND"}
        /\ OSTCBDly[u] \in 0 .. MaxTimeout
  BY <1>0 DEF Inv, Types
<1>same. ASSUME UNCHANGED <<tcbVars, at, semWait, flagWait>> PROVE TaskInv(u)'
  BY <1>u, <1>same DEF TaskInv, InList, tcbVars
<1>1. CASE SemPends
  <2>1. PICK t \in Tasks, timeout \in 0 .. MaxTimeout : OSSemPend(t, timeout)
    BY <1>1 DEF SemPends
  <2>2. CASE UNCHANGED <<tcbVars, at, semWait>>
    BY <1>same, <2>1, <2>2 DEF OSSemPend, flagVars
  <2>3. CASE Block(t, "SEM", timeout) /\ semWait' = semWait \cup {t}
                /\ at' = [at EXCEPT ![t] = "sem"]
    BY <1>0, <1>u, <2>1, <2>3
       DEF OSSemPend, Block, TaskInv, InList, Types, InApp, flagVars
  <2> QED BY <2>1, <2>2, <2>3 DEF OSSemPend
<1>2. CASE FlagPends
  <2>1. PICK t \in Tasks, timeout \in 0 .. MaxTimeout, w \in Waits :
            OSFlagPend(t, w, timeout)
    BY <1>2 DEF FlagPends
  <2>2. CASE UNCHANGED <<tcbVars, at, flagWait>>
    BY <1>same, <2>1, <2>2 DEF OSFlagPend, semVars
  <2>3. CASE Block(t, "FLAG", timeout) /\ flagWait' = flagWait \cup {t}
                /\ at' = [at EXCEPT ![t] = "flag"]
    BY <1>0, <1>u, <2>1, <2>3
       DEF OSFlagPend, Block, TaskInv, InList, Types, InApp, semVars
  <2> QED BY <2>1, <2>2, <2>3 DEF OSFlagPend
<1>3. CASE Delays
  <2>1. PICK t \in Tasks, ticks \in 1 .. MaxTimeout : OSTimeDly(t, ticks)
    BY <1>3 DEF Delays
  <2>2. ticks # 0 BY Constants
  <2> QED BY <1>0, <1>u, <2>1, <2>2
          DEF OSTimeDly, TaskInv, InList, Types, InApp, Running, semVars, flagVars
<1>4. ASSUME NEW t \in Tasks, SemPended(t) PROVE TaskInv(u)'
  BY <1>0, <1>u, <1>4
     DEF SemPended, Resumed, TaskInv, InList, Types, Running, flagVars
<1>5. ASSUME NEW t \in Tasks, FlagPended(t) PROVE TaskInv(u)'
  BY <1>0, <1>u, <1>5
     DEF FlagPended, Resumed, TaskInv, InList, Types, Running, semVars
<1>6. ASSUME NEW t \in Tasks, OSTimeDlyResume(t) PROVE TaskInv(u)'
  <2>1. /\ Expire({t}) /\ OSTCBDly' = [OSTCBDly EXCEPT ![t] = 0]
        /\ OSTCBDly[t] # 0 /\ UNCHANGED <<at, semWait, flagWait>>
    BY <1>0, <1>6 DEF OSTimeDlyResume, semVars, flagVars, Types
  <2> QED BY <1>0, <2>1, ExpireInv DEF Types
<1>7. ASSUME NEW t \in Tasks, OSTaskSuspend(t) PROVE TaskInv(u)'
  BY <1>0, <1>u, <1>7 DEF OSTaskSuspend, TaskInv, InList, Types, semVars, flagVars
<1>8. ASSUME NEW t \in Tasks, OSTaskResume(t) PROVE TaskInv(u)'
  BY <1>0, <1>u, <1>8
     DEF OSTaskResume, TaskInv, InList, Suspended, Types, semVars, flagVars
<1>9. ASSUME NEW cnt \in 0 .. MaxCnt, OSSemSet(cnt) PROVE TaskInv(u)'
  BY <1>same, <1>9 DEF OSSemSet, flagVars
<1>10. ASSUME NEW w \in Waits, OSFlagAccept(w) PROVE TaskInv(u)'
  BY <1>same, <1>10 DEF OSFlagAccept, semVars
<1>11. CASE OSSemAccept
  BY <1>same, <1>11 DEF OSSemAccept, flagVars
<1>12. CASE OSSemPost
  <2>1. CASE semWait # {}
    <3> DEFINE S == {MostUrgent(semWait)}
    <3>1. S \subseteq semWait BY <1>0, <2>1, MostUrgentIn DEF Types
    <3>2. /\ TaskRdy(S, "SEM", "OK") /\ semWait' = semWait \ S
          /\ UNCHANGED <<at, flagWait>>
      BY <1>12, <2>1 DEF OSSemPost, flagVars
    <3>3. S \in SUBSET Tasks BY <1>0, <3>1 DEF Types
    <3> HIDE DEF S
    <3> QED BY <3>1, <3>2, <3>3, TaskRdyInv
  <2>2. CASE semWait = {}
    BY <1>same, <1>12, <2>2 DEF OSSemPost, flagVars
  <2> QED BY <2>1, <2>2
<1>13. ASSUME NEW b \in BOOLEAN, OSSemPendAbort(b) PROVE TaskInv(u)'
  <2> DEFINE S == IF b THEN semWait ELSE {MostUrgent(semWait)}
  <2>1. TaskRdy(S, "SEM", "ABORT") /\ semWait' = semWait \ S
          /\ UNCHANGED <<at, flagWait>>
    BY <1>13 DEF OSSemPendAbort, flagVars
  <2>2. S \subseteq semWait /\ S \in SUBSET Tasks
    BY <1>0, <1>13, MostUrgentIn DEF OSSemPendAbort, Types
  <2> HIDE DEF S
  <2> QED BY <2>1, <2>2, TaskRdyInv
<1>14. ASSUME NEW flags \in SUBSET Flags, OSFlagPost(flags) PROVE TaskInv(u)'
  <2>1. PICK f : FlagPost(f) BY <1>14 DEF OSFlagPost
  <2> DEFINE S == {t \in flagWait : Met(want[t], f)}
  <2>2. TaskRdy(S, "FLAG", "OK") /\ flagWait' = flagWait \ S
          /\ UNCHANGED <<at, semWait>>
    BY <2>1 DEF FlagPost, semVars
  <2>3. S \subseteq flagWait /\ S \in SUBSET Tasks BY <1>0 DEF Types
  <2> HIDE DEF S
  <2> QED BY <2>2, <2>3, TaskRdyInv
<1>15. CASE OSTimeTick
  <2> DEFINE E == {t \in Tasks : OSTCBDly[t] = 1}
  <2>1. Expire(E) /\ UNCHANGED <<at, semWait, flagWait>>
    BY <1>15 DEF OSTimeTick, semVars, flagVars
  <2>2. \A t \in E : OSTCBDly[t] # 0 /\ OSTCBDly'[t] = 0
    BY <1>15 DEF OSTimeTick
  <2>3. \A t \in Tasks \ E : OSTCBDly'[t] = 0 <=> OSTCBDly[t] = 0
    BY <1>0, <1>15, Constants DEF OSTimeTick, Types
  <2>4. E \in SUBSET Tasks OBVIOUS
  <2> HIDE DEF E
  <2> QED BY <2>1, <2>2, <2>3, <2>4, ExpireInv
<1> QED BY NextCases, <1>1, <1>2, <1>3, <1>4, <1>5, <1>6, <1>7, <1>8, <1>9,
           <1>10, <1>11, <1>12, <1>13, <1>14, <1>15

LEMMA InitInv ==
    ASSUME Init
    PROVE  Inv
<1>1. Types
  <2>1. 0 \in 0 .. MaxTimeout /\ tokens \in Int BY Constants DEF Init
  <2> QED BY <2>1 DEF Init, Types
<1>2. ASSUME NEW t \in Tasks PROVE TaskInv(t) BY <1>2 DEF Init, TaskInv, InList
<1> QED BY <1>1, <1>2 DEF Inv

LEMMA InvStutter ==
    ASSUME Inv, UNCHANGED vars
    PROVE  Inv'
BY DEF Inv, Types, TaskInv, InList, vars, tcbVars, semVars, flagVars

LEMMA InvAlways == Spec => []Inv
<1>1. Inv /\ [Next]_vars => Inv' BY InvStep, InvStutter
<1> QED BY <1>1, InitInv, PTL DEF Spec

\* A task is in the ready table exactly when nothing keeps it from running.
THEOREM ReadyExactlyWhenFree == Spec => []ReadyIffFree
<1>1. Inv => ReadyIffFree BY DEF Inv, TaskInv, ReadyIffFree
<1> QED BY <1>1, InvAlways, PTL

\* The wait lists hold the tasks whose pend is under way, and no other.
THEOREM ListsHoldTheWaiting == Spec => []ListsMatch
<1>1. Inv => ListsMatch BY DEF Inv, TaskInv, ListsMatch
<1> QED BY <1>1, InvAlways, PTL

-----------------------------------------------------------------------------
\* The semaphore

Given == {t \in Tasks : Granted(t)}

LEMMA GivenFinite ==
    /\ IsFiniteSet(Given) /\ Cardinality(Given) \in Nat
    /\ Given \in SUBSET Tasks
<1>1. Given \in SUBSET Tasks BY DEF Given
<1> QED BY <1>1, Constants, FS_Subset, FS_CardinalityType

\* One more, or one less, of the tasks S is granted its token.
LEMMA OneMore ==
    ASSUME NEW S \in SUBSET Tasks, NEW t \in Tasks, t \notin S
    PROVE  Cardinality(S \cup {t}) = Cardinality(S) + 1
BY Constants, FS_Subset, FS_AddElement

LEMMA TokensStep ==
    ASSUME Inv, TokensKept, Next
    PROVE  TokensKept'
<1>0. /\ Types /\ \A t \in Tasks : TaskInv(t)
      /\ tokens = OSEventCnt + Cardinality(Given)
      /\ Cardinality(Given) \in Nat /\ OSEventCnt \in Int /\ tokens \in Int
  BY GivenFinite, Constants DEF Inv, TokensKept, Given, Types
<1> SUFFICES tokens' = OSEventCnt' + Cardinality(Given')
  BY DEF TokensKept, Given
<1>same. ASSUME UNCHANGED <<at, semWait, OSTCBStatPend>> PROVE Given' = Given
  BY <1>same DEF Given, Granted
<1>take. ASSUME Take, Given' = Given PROVE tokens' = OSEventCnt' + Cardinality(Given')
  BY <1>0, <1>take DEF Take
<1>kept. ASSUME UNCHANGED <<tokens, OSEventCnt>>, Given' = Given
         PROVE  tokens' = OSEventCnt' + Cardinality(Given')
  BY <1>0, <1>kept
<1>1. CASE SemPends
  <2>1. PICK t \in Tasks, timeout \in 0 .. MaxTimeout : OSSemPend(t, timeout)
    BY <1>1 DEF SemPends
  <2>2. CASE Take /\ UNCHANGED <<tcbVars, at, semWait>>
    BY <1>same, <1>take, <2>2 DEF tcbVars
  <2>3. CASE /\ Block(t, "SEM", timeout) /\ semWait' = semWait \cup {t}
             /\ at' = [at EXCEPT ![t] = "sem"] /\ UNCHANGED <<OSEventCnt, tokens>>
    <3>1. at[t] = "app" BY <2>1 DEF OSSemPend, InApp
    <3>2. Given' = Given
      BY <1>0, <2>3, <3>1 DEF Given, Granted, Block, Types
    <3> QED BY <1>kept, <2>3, <3>2
  <2> QED BY <2>1, <2>2, <2>3 DEF OSSemPend
<1>2. CASE FlagPends
  <2>1. PICK t \in Tasks, timeout \in 0 .. MaxTimeout, w \in Waits :
            OSFlagPend(t, w, timeout)
    BY <1>2 DEF FlagPends
  <2>2. UNCHANGED semVars /\ at[t] = "app" BY <2>1 DEF OSFlagPend, InApp
  <2>3. CASE UNCHANGED <<tcbVars, at>>
    BY <1>same, <1>kept, <2>2, <2>3 DEF tcbVars, semVars
  <2>4. CASE Block(t, "FLAG", timeout) /\ at' = [at EXCEPT ![t] = "flag"]
    <3>1. Given' = Given
      BY <1>0, <2>2, <2>4 DEF Given, Granted, Block, Types, semVars
    <3> QED BY <1>kept, <2>2, <3>1 DEF semVars
  <2> QED BY <2>1, <2>3, <2>4 DEF OSFlagPend
<1>3. CASE Delays
  BY <1>same, <1>kept, <1>3 DEF Delays, OSTimeDly, semVars
<1>4. ASSUME NEW t \in Tasks, SemPended(t)
      PROVE  tokens' = OSEventCnt' + Cardinality(Given')
  <2>1. /\ at[t] = "sem" /\ OSTCBStat[t] = {} /\ TaskInv(t)
        /\ OSEventCnt' = OSEventCnt
    BY <1>0, <1>4 DEF SemPended, Running, TaskInv
  <2>2. CASE OSTCBStatPend[t] = "OK"
    <3>1. t \in Given BY <2>1, <2>2 DEF Given, Granted, TaskInv, InList
    <3>2. Given' = Given \ {t}
      BY <1>0, <1>4, <2>2 DEF Given, Granted, SemPended, Resumed, Types
    <3>3. Cardinality(Given) = Cardinality(Given') + 1
      <4>1. Given' \in SUBSET Tasks /\ t \notin Given' /\ Given = Given' \cup {t}
        BY <3>1, <3>2, GivenFinite
      <4> QED BY <4>1, OneMore
    <3>4. tokens' = tokens - 1 BY <1>4, <2>2 DEF SemPended
    <3>5. Cardinality(Given') \in Nat BY <3>2, GivenFinite, FS_Subset, FS_CardinalityType
    <3> QED BY <1>0, <2>1, <3>3, <3>4, <3>5
  <2>3. CASE OSTCBStatPend[t] # "OK"
    <3>1. t \notin Given /\ tokens' = tokens
      BY <1>4, <2>3 DEF Given, Granted, SemPended
    <3>2. Given' = Given
      BY <1>0, <1>4, <2>3 DEF Given, Granted, SemPended, Resumed, Types
    <3> QED BY <1>kept, <2>1, <3>1, <3>2
  <2> QED BY <2>2, <2>3
<1>5. ASSUME NEW t \in Tasks, FlagPended(t)
      PROVE  tokens' = OSEventCnt' + Cardinality(Given')
  <2>1. Given' = Given
    BY <1>0, <1>5 DEF Given, Granted, FlagPended, Resumed, Types, semVars
  <2> QED BY <1>kept, <1>5, <2>1 DEF FlagPended, semVars
<1>exp. ASSUME NEW E \in SUBSET Tasks, Expire(E), \A t \in E : OSTCBDly[t] # 0,
               UNCHANGED <<at, semVars>>
        PROVE  tokens' = OSEventCnt' + Cardinality(Given')
  <2>1. ASSUME NEW t \in E, at[t] = "sem" PROVE t \in semWait
    <3>1. TaskInv(t) /\ OSTCBDly[t] # 0 BY <1>0, <1>exp
    <3> QED BY <2>1, <3>1 DEF TaskInv, InList
  <2>2. ASSUME NEW t \in Tasks PROVE Granted(t)' <=> Granted(t)
    BY <1>exp, <2>1 DEF Granted, Expire, semVars
  <2>3. Given' = Given BY <2>2 DEF Given
  <2> QED BY <1>exp, <1>kept, <2>3 DEF semVars
<1>6. ASSUME NEW t \in Tasks, OSTimeDlyResume(t)
      PROVE  tokens' = OSEventCnt' + Cardinality(Given')
  <2>1. Expire({t}) /\ OSTCBDly[t] # 0 /\ UNCHANGED <<at, semVars>>
    BY <1>0, <1>6 DEF OSTimeDlyResume, Types
  <2> QED BY <1>exp, <2>1
<1>7. ASSUME NEW t \in Tasks, OSTaskSuspend(t)
      PROVE  tokens' = OSEventCnt' + Cardinality(Given')
  BY <1>same, <1>kept, <1>7 DEF OSTaskSuspend, semVars
<1>8. ASSUME NEW t \in Tasks, OSTaskResume(t)
      PROVE  tokens' = OSEventCnt' + Cardinality(Given')
  BY <1>same, <1>kept, <1>8 DEF OSTaskResume, semVars
<1>9. ASSUME NEW cnt \in 0 .. MaxCnt, OSSemSet(cnt)
      PROVE  tokens' = OSEventCnt' + Cardinality(Given')
  <2>1. Given' = Given BY <1>same, <1>9 DEF OSSemSet, tcbVars
  <2>2. OSEventCnt' = cnt /\ tokens' = tokens + cnt - OSEventCnt /\ cnt \in Int
    BY <1>9, Constants DEF OSSemSet
  <2> QED BY <1>0, <2>1, <2>2
<1>10. ASSUME NEW w \in Waits, OSFlagAccept(w)
       PROVE  tokens' = OSEventCnt' + Cardinality(Given')
  BY <1>same, <1>kept, <1>10 DEF OSFlagAccept, tcbVars, semVars
<1>11. CASE OSSemAccept
  BY <1>same, <1>take, <1>11 DEF OSSemAccept, tcbVars
<1>12. CASE OSSemPost
  <2>0. tokens' = tokens + 1 BY <1>12 DEF OSSemPost
  <2>1. CASE semWait # {}
    <3> DEFINE m == MostUrgent(semWait)
    <3>1. m \in semWait /\ m \in Tasks BY <1>0, <2>1, MostUrgentIn DEF Types
    <3>2. /\ TaskRdy({m}, "SEM", "OK") /\ semWait' = semWait \ {m}
          /\ UNCHANGED <<at, OSEventCnt>>
      BY <1>12, <2>1 DEF OSSemPost
    <3> HIDE DEF m
    <3>3. at[m] = "sem" BY <1>0, <3>1 DEF TaskInv, InList
    <3>4. Given' = Given \cup {m}
      BY <1>0, <3>1, <3>2, <3>3 DEF Given, Granted, TaskRdy, Types
    <3>5. m \notin Given BY <3>1 DEF Given, Granted
    <3>6. Cardinality(Given') = Cardinality(Given) + 1
      BY <3>1, <3>4, <3>5, GivenFinite, OneMore
    <3> QED BY <1>0, <2>0, <3>2, <3>6
  <2>2. CASE semWait = {}
    <3>1. OSEventCnt' = OSEventCnt + 1 /\ UNCHANGED <<at, semWait, OSTCBStatPend>>
      BY <1>12, <2>2 DEF OSSemPost, tcbVars
    <3> QED BY <1>0, <1>same, <2>0, <3>1
  <2> QED BY <2>1, <2>2
<1>13. ASSUME NEW b \in BOOLEAN, OSSemPendAbort(b)
       PROVE  tokens' = OSEventCnt' + Cardinality(Given')
  <2> DEFINE S == IF b THEN semWait ELSE {MostUrgent(semWait)}
  <2>1. TaskRdy(S, "SEM", "ABORT") /\ semWait' = semWait \ S
          /\ UNCHANGED <<at, OSEventCnt, tokens>>
    BY <1>13 DEF OSSemPendAbort
  <2>2. S \subseteq semWait
    BY <1>0, <1>13, MostUrgentIn DEF OSSemPendAbort, Types
  <2> HIDE DEF S
  <2>3. Given' = Given BY <1>0, <2>1, <2>2 DEF Given, Granted, TaskRdy, Types
  <2> QED BY <1>kept, <2>1, <2>3
<1>14. ASSUME NEW flags \in SUBSET Flags, OSFlagPost(flags)
       PROVE  tokens' = OSEventCnt' + Cardinality(Given')
  <2>1. PICK f : FlagPost(f) BY <1>14 DEF OSFlagPost
  <2> DEFINE S == {t \in flagWait : Met(want[t], f)}
  <2>2. TaskRdy(S, "FLAG", "OK") /\ UNCHANGED <<at, semVars>>
    BY <2>1 DEF FlagPost
  <2>3. \A t \in S : t \in Tasks /\ at[t] = "flag"
    BY <1>0 DEF TaskInv, InList, Types
  <2> HIDE DEF S
  <2>4. Given' = Given
    BY <1>0, <2>2, <2>3 DEF Given, Granted, TaskRdy, Types, semVars
  <2> QED BY <1>kept, <2>2, <2>4 DEF semVars
<1>15. CASE OSTimeTick
  <2> DEFINE E == {t \in Tasks : OSTCBDly[t] = 1}
  <2>1. Expire(E) /\ UNCHANGED <<at, semVars>> BY <1>15 DEF OSTimeTick
  <2>2. E \in SUBSET Tasks /\ \A t \in E : OSTCBDly[t] # 0 OBVIOUS
  <2> HIDE DEF E
  <2> QED BY <1>exp, <2>1, <2>2
<1> QED BY NextCases, <1>1, <1>2, <1>3, <1>4, <1>5, <1>6, <1>7, <1>8, <1>9,
           <1>10, <1>11, <1>12, <1>13, <1>14, <1>15

LEMMA TokensInit ==
    ASSUME Init
    PROVE  TokensKept
<1>1. {t \in Tasks : Granted(t)} = {} BY DEF Init, Granted
<1>2. Cardinality({}) = 0 BY FS_EmptySet
<1>3. tokens = OSEventCnt /\ OSEventCnt \in Int BY Constants DEF Init
<1> QED BY <1>1, <1>2, <1>3 DEF TokensKept

LEMMA TokensStutter ==
    ASSUME TokensKept, UNCHANGED vars
    PROVE  TokensKept'
<1>1. UNCHANGED <<at, semWait, OSTCBStatPend, tokens, OSEventCnt>>
  BY DEF vars, tcbVars, semVars
<1>2. \A t \in Tasks : Granted(t)' <=> Granted(t) BY <1>1 DEF Granted
<1>3. {t \in Tasks : Granted(t)}' = {t \in Tasks : Granted(t)} BY <1>1 DEF Granted
<1> QED BY <1>1, <1>3 DEF TokensKept

\* Every token posted is in the count or on its way to one task: no race of a
\* timeout, an abort, a post and a suspension loses or doubles a signal.
THEOREM NoTokenIsLost == Spec => []TokensKept
<1>1. Inv /\ TokensKept /\ [Next]_vars => TokensKept' BY TokensStep, TokensStutter
<1> QED BY <1>1, InvAlways, TokensInit, PTL DEF Spec

\* All variables have their types; the tokens are never fewer than none.
THEOREM EventsTypes == Spec => []TypeOK
<1>1. Inv /\ TokensKept => TypeOK
  <2> SUFFICES ASSUME Inv, TokensKept PROVE TypeOK OBVIOUS
  <2>1. tokens \in Nat
    <3>1. OSEventCnt \in Nat BY Constants DEF Inv, Types
    <3> QED BY <3>1, GivenFinite DEF TokensKept, Given
  <2>2. want \in [Tasks -> Wait] BY WaitOfTask DEF Inv, Types
  <2> QED BY <2>1, <2>2 DEF Inv, Types, TypeOK
<1> QED BY <1>1, InvAlways, NoTokenIsLost, PTL

\* Nobody waits for a semaphore that has something to give.
THEOREM NobodyWaitsInVain == Spec => []NobodyWaitsForNothing
<1>1. Init => NobodyWaitsForNothing BY DEF Init, NobodyWaitsForNothing
<1>2. ASSUME Inv, NobodyWaitsForNothing, Next PROVE NobodyWaitsForNothing'
  <2>0. OSEventCnt \in Nat BY Constants, <1>2 DEF Inv, Types
  <2>1. CASE SemPends
    BY <1>2, <2>0, <2>1 DEF SemPends, OSSemPend, Take, NobodyWaitsForNothing
  <2>2. CASE FlagPends
    BY <1>2, <2>2 DEF FlagPends, OSFlagPend, NobodyWaitsForNothing, semVars
  <2>3. CASE Delays
    BY <1>2, <2>3 DEF Delays, OSTimeDly, NobodyWaitsForNothing, semVars
  <2>4. ASSUME NEW t \in Tasks, SemPended(t) PROVE NobodyWaitsForNothing'
    BY <1>2, <2>4 DEF SemPended, NobodyWaitsForNothing
  <2>5. ASSUME NEW t \in Tasks, FlagPended(t) PROVE NobodyWaitsForNothing'
    BY <1>2, <2>5 DEF FlagPended, NobodyWaitsForNothing, semVars
  <2>6. ASSUME NEW t \in Tasks, OSTimeDlyResume(t) \/ OSTaskSuspend(t) \/ OSTaskResume(t)
        PROVE  NobodyWaitsForNothing'
    BY <1>2, <2>6 DEF OSTimeDlyResume, OSTaskSuspend, OSTaskResume,
                      NobodyWaitsForNothing, semVars
  <2>7. ASSUME NEW cnt \in 0 .. MaxCnt, OSSemSet(cnt) PROVE NobodyWaitsForNothing'
    BY <1>2, <2>7 DEF OSSemSet, NobodyWaitsForNothing
  <2>8. CASE (\E w \in Waits : OSFlagAccept(w)) \/ OSSemAccept \/ OSTimeTick
    BY <1>2, <2>0, <2>8 DEF OSFlagAccept, OSSemAccept, OSTimeTick, Take,
                            NobodyWaitsForNothing, semVars
  <2>9. CASE OSSemPost
    BY <1>2, <2>0, <2>9 DEF OSSemPost, NobodyWaitsForNothing
  <2>10. ASSUME NEW b \in BOOLEAN, OSSemPendAbort(b) PROVE NobodyWaitsForNothing'
    BY <1>2, <2>10 DEF OSSemPendAbort, NobodyWaitsForNothing
  <2>11. ASSUME NEW flags \in SUBSET Flags, OSFlagPost(flags)
         PROVE  NobodyWaitsForNothing'
    BY <1>2, <2>11 DEF OSFlagPost, FlagPost, NobodyWaitsForNothing, semVars
  <2> QED BY <1>2, NextCases, <2>1, <2>2, <2>3, <2>4, <2>5, <2>6, <2>7, <2>8, <2>9,
             <2>10, <2>11
<1>3. NobodyWaitsForNothing /\ UNCHANGED vars => NobodyWaitsForNothing'
  BY DEF NobodyWaitsForNothing, vars, semVars
<1> QED BY <1>1, <1>2, <1>3, InvAlways, PTL DEF Spec

-----------------------------------------------------------------------------
\* The event flags

\* Taking flags down does not bring what a task waits for to be set.
LEMMA FewerFlags ==
    ASSUME NEW w, ~w.clr, NEW f, NEW g, g \subseteq f, ~Met(w, f)
    PROVE  ~Met(w, g)
BY DEF Met, Have

LEMMA ConsumptionTakes ==
    ASSUME \A w \in Waits : w.clr => ~w.consume,
           NEW w \in Waits \cup {NoWait}, NEW got, NEW f
    PROVE  Consumed(w, got, f) \subseteq f
<1>1. ~(w.clr /\ w.consume) BY DEF NoWait
<1> QED BY <1>1 DEF Consumed

\* Calls that wake nobody, put nobody to sleep and raise no flag.
LEMMA NobodyMisses ==
    ASSUME FlagsNotMissed, flagWait' \subseteq flagWait,
           OSFlagFlags' \subseteq OSFlagFlags,
           \A t \in Tasks : "FLAG" \in OSTCBStat'[t] =>
                                "FLAG" \in OSTCBStat[t] /\ want'[t] = want[t]
    PROVE  FlagsNotMissed'
<1> SUFFICES ASSUME NEW t \in Tasks, t \in flagWait', "FLAG" \in OSTCBStat'[t],
                    ~want'[t].clr
             PROVE  ~Met(want'[t], OSFlagFlags')
  BY DEF FlagsNotMissed
<1>1. want'[t] = want[t] /\ t \in flagWait /\ "FLAG" \in OSTCBStat[t] OBVIOUS
<1>2. ~want[t].clr /\ ~Met(want[t], OSFlagFlags) BY <1>1 DEF FlagsNotMissed
<1> QED BY <1>1, <1>2, FewerFlags

LEMMA FlagsStep ==
    ASSUME \A w \in Waits : w.clr => ~w.consume, Inv, FlagsNotMissed, Next
    PROVE  FlagsNotMissed'
<1>0. Types /\ \A t \in Tasks : TaskInv(t) BY DEF Inv
<1>quiet. ASSUME UNCHANGED flagVars,
                 \A u \in Tasks : "FLAG" \in OSTCBStat'[u] => "FLAG" \in OSTCBStat[u]
          PROVE  FlagsNotMissed'
  BY <1>quiet, NobodyMisses DEF flagVars
<1>1. CASE SemPends
  <2>1. PICK t \in Tasks, timeout \in 0 .. MaxTimeout : OSSemPend(t, timeout)
    BY <1>1 DEF SemPends
  <2>2. UNCHANGED flagVars BY <2>1 DEF OSSemPend
  <2>3. \A u \in Tasks : "FLAG" \in OSTCBStat'[u] => "FLAG" \in OSTCBStat[u]
    BY <1>0, <2>1 DEF OSSemPend, Block, tcbVars, Types
  <2> QED BY <1>quiet, <2>2, <2>3
<1>2. CASE FlagPends
  <2>1. PICK t \in Tasks, timeout \in 0 .. MaxTimeout, w \in Waits :
            OSFlagPend(t, w, timeout)
    BY <1>2 DEF FlagPends
  <2>2. CASE /\ OSFlagFlags' = Consumed(w, Have(w, OSFlagFlags), OSFlagFlags)
             /\ UNCHANGED <<tcbVars, at, flagWait, want>>
    <3>1. OSFlagFlags' \subseteq OSFlagFlags BY <2>2, ConsumptionTakes
    <3> QED BY <2>2, <3>1, NobodyMisses DEF tcbVars
  <2>3. CASE /\ ~Met(w, OSFlagFlags) /\ Block(t, "FLAG", timeout)
             /\ flagWait' = flagWait \cup {t} /\ want' = [want EXCEPT ![t] = w]
             /\ UNCHANGED OSFlagFlags
    <3>1. ASSUME NEW u \in Tasks, u # t, u \in flagWait',
                 "FLAG" \in OSTCBStat'[u], ~want'[u].clr
          PROVE  ~Met(want'[u], OSFlagFlags')
      <4>1. /\ u \in flagWait /\ want'[u] = want[u]
            /\ "FLAG" \in OSTCBStat[u]
        BY <1>0, <2>3, <3>1 DEF Block, Types
      <4> QED BY <2>3, <3>1, <4>1 DEF FlagsNotMissed
    <3>2. want'[t] = w BY <1>0, <2>3 DEF Types
    <3>3. ~Met(want'[t], OSFlagFlags') BY <2>3, <3>2
    <3> QED BY <3>1, <3>3 DEF FlagsNotMissed
  <2> QED BY <2>1, <2>2, <2>3 DEF OSFlagPend
<1>3. CASE Delays
  BY <1>quiet, <1>3 DEF Delays, OSTimeDly
<1>4. ASSUME NEW t \in Tasks, SemPended(t) PROVE FlagsNotMissed'
  <2>1. UNCHANGED flagVars BY <1>4 DEF SemPended
  <2>2. \A u \in Tasks : "FLAG" \in OSTCBStat'[u] => "FLAG" \in OSTCBStat[u]
    BY <1>0, <1>4 DEF SemPended, Resumed, Types
  <2> QED BY <1>quiet, <2>1, <2>2
<1>5. ASSUME NEW t \in Tasks, FlagPended(t) PROVE FlagsNotMissed'
  <2>1. flagWait' \subseteq flagWait BY <1>5 DEF FlagPended
  <2>2. OSFlagFlags' \subseteq OSFlagFlags
    <3>1. want[t] \in Waits \cup {NoWait} BY <1>0 DEF Types
    <3> QED BY <1>5, <3>1, ConsumptionTakes DEF FlagPended
  <2>3. \A u \in Tasks : "FLAG" \in OSTCBStat'[u] =>
                             "FLAG" \in OSTCBStat[u] /\ want'[u] = want[u]
    BY <1>0, <1>5 DEF FlagPended, Resumed, Types
  <2> QED BY <2>1, <2>2, <2>3, NobodyMisses
<1>6. ASSUME NEW t \in Tasks, OSTimeDlyResume(t) PROVE FlagsNotMissed'
  BY <1>quiet, <1>6 DEF OSTimeDlyResume, Expire
<1>7. ASSUME NEW t \in Tasks, OSTaskSuspend(t) PROVE FlagsNotMissed'
  <2>1. \A u \in Tasks : "FLAG" \in OSTCBStat'[u] => "FLAG" \in OSTCBStat[u]
    BY <1>0, <1>7 DEF OSTaskSuspend, Types
  <2> QED BY <1>quiet, <1>7, <2>1 DEF OSTaskSuspend
<1>8. ASSUME NEW t \in Tasks, OSTaskResume(t) PROVE FlagsNotMissed'
  <2>1. \A u \in Tasks : "FLAG" \in OSTCBStat'[u] => "FLAG" \in OSTCBStat[u]
    BY <1>0, <1>8 DEF OSTaskResume, Types
  <2> QED BY <1>quiet, <1>8, <2>1 DEF OSTaskResume
<1>9. ASSUME NEW cnt \in 0 .. MaxCnt, OSSemSet(cnt) PROVE FlagsNotMissed'
  BY <1>quiet, <1>9 DEF OSSemSet, tcbVars
<1>10. ASSUME NEW w \in Waits, OSFlagAccept(w) PROVE FlagsNotMissed'
  <2>1. OSFlagFlags' \subseteq OSFlagFlags BY <1>10, ConsumptionTakes DEF OSFlagAccept
  <2> QED BY <1>10, <2>1, NobodyMisses DEF OSFlagAccept, tcbVars
<1>11. CASE OSSemAccept
  BY <1>quiet, <1>11 DEF OSSemAccept, tcbVars
<1>12. CASE OSSemPost
  BY <1>quiet, <1>12 DEF OSSemPost, TaskRdy, tcbVars
<1>13. ASSUME NEW b \in BOOLEAN, OSSemPendAbort(b) PROVE FlagsNotMissed'
  BY <1>quiet, <1>13 DEF OSSemPendAbort, TaskRdy
<1>14. ASSUME NEW flags \in SUBSET Flags, OSFlagPost(flags) PROVE FlagsNotMissed'
  <2>1. PICK f : FlagPost(f) BY <1>14 DEF OSFlagPost
  <2> SUFFICES ASSUME NEW t \in Tasks, t \in flagWait' PROVE ~Met(want'[t], OSFlagFlags')
    BY DEF FlagsNotMissed
  <2>2. t \in flagWait /\ ~Met(want[t], f) /\ want' = want /\ OSFlagFlags' = f
    BY <2>1 DEF FlagPost
  <2> QED BY <2>2
<1>15. CASE OSTimeTick
  BY <1>quiet, <1>15 DEF OSTimeTick, Expire
<1> QED BY NextCases, <1>1, <1>2, <1>3, <1>4, <1>5, <1>6, <1>7, <1>8, <1>9,
           <1>10, <1>11, <1>12, <1>13, <1>14, <1>15

\* No task sleeps on flags that are up, provided nobody who waits for flags to
\* be clear consumes them (which would raise them and wake no one).
THEOREM NoFlagIsMissed ==
    ASSUME \A w \in Waits : w.clr => ~w.consume
    PROVE  Spec => []FlagsNotMissed
<1>1. Init => FlagsNotMissed BY DEF Init, FlagsNotMissed
<1>2. Inv /\ FlagsNotMissed /\ Next => FlagsNotMissed' BY FlagsStep
<1>3. FlagsNotMissed /\ UNCHANGED vars => FlagsNotMissed'
  BY DEF FlagsNotMissed, vars, flagVars, tcbVars
<1> QED BY <1>1, <1>2, <1>3, InvAlways, PTL DEF Spec
=============================================================================
