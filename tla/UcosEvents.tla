------------------------------ MODULE UcosEvents -----------------------------
(***************************************************************************)
(* How tasks of uC/OS-II wait for each other: a semaphore (os_sem.c), a    *)
(* group of event flags (os_flag.c), their timeouts, and the calls that    *)
(* suspend, resume and delay tasks.  The drivers and the C library below   *)
(* the program use one of each per device.                                 *)
(*                                                                         *)
(* A pend has two halves: one puts the caller into the wait list, the      *)
(* other looks, when the task runs again, at what woke it.  Between them   *)
(* a post, an abort and a timeout may all have come.  Each half, and every *)
(* other call, is one critical section with the OS_Sched at its end; the   *)
(* module UcosSched shows that what runs is the most urgent ready task.    *)
(***************************************************************************)
EXTENDS Integers, FiniteSets

CONSTANTS
    Tasks,          \* priorities; a lower number is more urgent
    MaxTimeout,     \* the longest timeout or delay asked for, in ticks
    MaxCnt,         \* 65535, where OSSemPost refuses
    Flags,          \* the bits of the flag group
    Waits           \* what callers of OSFlagPend wait for

\* A wait for flags to be set, or with clr to be clear; for all of them, or
\* any; consume takes what was waited for back when it has come.
Wait == [flags : SUBSET Flags, clr : BOOLEAN, all : BOOLEAN, consume : BOOLEAN]

ASSUME EventsAssumption ==
    /\ Tasks \subseteq Nat /\ IsFiniteSet(Tasks)
    /\ MaxTimeout \in Nat /\ MaxCnt \in Nat
    /\ Waits \subseteq Wait

VARIABLES
    rdy,            \* the tasks in the ready table
    OSTCBStat,      \* what keeps a task from running: SEM, FLAG, SUSPEND
    OSTCBStatPend,  \* how its last pend ended
    OSTCBDly,       \* ticks to its timeout, or the end of its delay
    at,             \* "app", or the call whose second half is to come
    OSEventCnt,     \* the semaphore: its count
    semWait,        \*   and wait list (OSEventTbl)
    OSFlagFlags,    \* the group: the flags that are up
    flagWait,       \*   its wait list
    want,           \*   what the tasks in OSFlagPend wait for
    OSTCBFlagsRdy,  \*   and the flags that woke them
    tokens          \* observed: posts less the pends that were served

tcbVars == <<rdy, OSTCBStat, OSTCBStatPend, OSTCBDly>>
semVars == <<OSEventCnt, semWait, tokens>>
flagVars == <<OSFlagFlags, flagWait, want, OSTCBFlagsRdy>>
vars == <<tcbVars, at, semVars, flagVars>>

NoWait == [flags |-> {}, clr |-> FALSE, all |-> FALSE, consume |-> FALSE]

TypeOK ==
    /\ rdy \subseteq Tasks
    /\ OSTCBStat \in [Tasks -> SUBSET {"SEM", "FLAG", "SUSPEND"}]
    /\ OSTCBStatPend \in [Tasks -> {"OK", "TO", "ABORT"}]
    /\ OSTCBDly \in [Tasks -> 0 .. MaxTimeout]
    /\ at \in [Tasks -> {"app", "sem", "flag"}]
    /\ OSEventCnt \in 0 .. MaxCnt
    /\ semWait \subseteq Tasks
    /\ OSFlagFlags \subseteq Flags
    /\ flagWait \subseteq Tasks
    /\ want \in [Tasks -> Wait]
    /\ OSTCBFlagsRdy \in [Tasks -> SUBSET Flags]
    /\ tokens \in Nat

-----------------------------------------------------------------------------
Running(t) == t \in rdy /\ \A u \in rdy : t <= u

InApp(t) == Running(t) /\ at[t] = "app"

Suspended(t) == "SUSPEND" \in OSTCBStat[t]

\* Stop t from running: it waits for `why`, for a number of ticks or, with 0,
\* for as long as it takes.
Block(t, why, timeout) ==
    /\ rdy' = rdy \ {t}
    /\ OSTCBStat' = [OSTCBStat EXCEPT ![t] = @ \cup {why}]
    /\ OSTCBStatPend' = [OSTCBStatPend EXCEPT ![t] = "OK"]
    /\ OSTCBDly' = [OSTCBDly EXCEPT ![t] = timeout]

\* OS_EventTaskRdy, OS_FlagTaskRdy: what the tasks S waited for has come.
TaskRdy(S, why, status) ==
    /\ OSTCBDly' = [t \in Tasks |-> IF t \in S THEN 0 ELSE OSTCBDly[t]]
    /\ OSTCBStat' = [t \in Tasks |-> IF t \in S THEN OSTCBStat[t] \ {why}
                                                ELSE OSTCBStat[t]]
    /\ OSTCBStatPend' = [t \in Tasks |-> IF t \in S THEN status
                                                    ELSE OSTCBStatPend[t]]
    /\ rdy' = rdy \cup {t \in S : ~Suspended(t)}

\* The end of a call's second half, in the task that runs again.
Resumed(t) ==
    /\ OSTCBStat' = [OSTCBStat EXCEPT ![t] = {}]
    /\ OSTCBStatPend' = [OSTCBStatPend EXCEPT ![t] = "OK"]
    /\ at' = [at EXCEPT ![t] = "app"]
    /\ UNCHANGED <<rdy, OSTCBDly>>

-----------------------------------------------------------------------------
\* The semaphore

Take == OSEventCnt > 0 /\ OSEventCnt' = OSEventCnt - 1 /\ tokens' = tokens - 1

OSSemPend(t, timeout) ==
    /\ InApp(t)
    /\ \/ Take /\ UNCHANGED <<tcbVars, at, semWait>>
       \/ /\ OSEventCnt = 0
          /\ Block(t, "SEM", timeout)
          /\ semWait' = semWait \cup {t}
          /\ at' = [at EXCEPT ![t] = "sem"]
          /\ UNCHANGED <<OSEventCnt, tokens>>
    /\ UNCHANGED flagVars

\* The second half: only a timeout still has to leave the wait list.
SemPended(t) ==
    /\ Running(t) /\ at[t] = "sem"
    /\ semWait' = IF OSTCBStatPend[t] = "TO" THEN semWait \ {t} ELSE semWait
    /\ tokens' = IF OSTCBStatPend[t] = "OK" THEN tokens - 1 ELSE tokens
    /\ Resumed(t)
    /\ UNCHANGED <<OSEventCnt, flagVars>>

\* By a task, or by an interrupt handler, which may not wait.
OSSemAccept == Take /\ UNCHANGED <<tcbVars, at, semWait, flagVars>>

\* By a task: a new count, unless somebody waits.
OSSemSet(cnt) ==
    /\ \E t \in Tasks : InApp(t)
    /\ OSEventCnt > 0 \/ semWait = {}
    /\ OSEventCnt' = cnt
    /\ tokens' = tokens + cnt - OSEventCnt
    /\ UNCHANGED <<tcbVars, at, semWait, flagVars>>

\* Mutation: the token is counted although somebody waits for it.
OSSemPostCounts ==
    /\ OSEventCnt < MaxCnt /\ OSEventCnt' = OSEventCnt + 1
    /\ tokens' = tokens + 1
    /\ UNCHANGED <<tcbVars, semWait, at, flagVars>>

MostUrgent(S) == CHOOSE t \in S : \A u \in S : t <= u

\* Also by an interrupt handler.  A waiting task is handed the token.
OSSemPost ==
    /\ \/ /\ semWait # {}
          /\ TaskRdy({MostUrgent(semWait)}, "SEM", "OK")
          /\ semWait' = semWait \ {MostUrgent(semWait)}
          /\ UNCHANGED OSEventCnt
       \/ /\ semWait = {} /\ OSEventCnt < MaxCnt
          /\ OSEventCnt' = OSEventCnt + 1
          /\ UNCHANGED <<tcbVars, semWait>>
    /\ tokens' = tokens + 1
    /\ UNCHANGED <<at, flagVars>>

\* Mutation: an aborted pend looks like one that was served.
OSSemPendAbortAsPost(broadcast) ==
    /\ \E t \in Tasks : InApp(t)
    /\ semWait # {}
    /\ LET S == IF broadcast THEN semWait ELSE {MostUrgent(semWait)}
       IN  TaskRdy(S, "SEM", "OK") /\ semWait' = semWait \ S
    /\ UNCHANGED <<at, OSEventCnt, tokens, flagVars>>

\* One waiting task is told to give up, or with broadcast all of them.
OSSemPendAbort(broadcast) ==
    /\ \E t \in Tasks : InApp(t)
    /\ semWait # {}
    /\ LET S == IF broadcast THEN semWait ELSE {MostUrgent(semWait)}
       IN  TaskRdy(S, "SEM", "ABORT") /\ semWait' = semWait \ S
    /\ UNCHANGED <<at, OSEventCnt, tokens, flagVars>>

-----------------------------------------------------------------------------
\* The event flags

\* Of the flags w asks for, those that are as it wants them when f are up.
Have(w, f) == IF w.clr THEN w.flags \ f ELSE w.flags \cap f

Met(w, f) == IF w.all THEN Have(w, f) = w.flags ELSE Have(w, f) # {}

Consumed(w, got, f) ==
    IF ~w.consume THEN f ELSE IF w.clr THEN f \cup got ELSE f \ got

\* By a task, or by an interrupt handler.
OSFlagAccept(w) ==
    /\ Met(w, OSFlagFlags)
    /\ OSFlagFlags' = Consumed(w, Have(w, OSFlagFlags), OSFlagFlags)
    /\ UNCHANGED <<tcbVars, at, semVars, flagWait, want, OSTCBFlagsRdy>>

OSFlagPend(t, w, timeout) ==
    /\ InApp(t)
    /\ \/ /\ Met(w, OSFlagFlags)
          /\ OSFlagFlags' = Consumed(w, Have(w, OSFlagFlags), OSFlagFlags)
          /\ UNCHANGED <<tcbVars, at, flagWait, want>>
       \/ /\ ~Met(w, OSFlagFlags)
          /\ Block(t, "FLAG", timeout)
          /\ flagWait' = flagWait \cup {t}
          /\ want' = [want EXCEPT ![t] = w]
          /\ at' = [at EXCEPT ![t] = "flag"]
          /\ UNCHANGED OSFlagFlags
    /\ UNCHANGED <<semVars, OSTCBFlagsRdy>>

\* The second half; it is only now that the flags are consumed.
FlagPended(t) ==
    /\ Running(t) /\ at[t] = "flag"
    /\ \/ /\ OSTCBStatPend[t] # "OK"
          /\ flagWait' = flagWait \ {t}
          /\ UNCHANGED OSFlagFlags
       \/ /\ OSTCBStatPend[t] = "OK"
          /\ OSFlagFlags' = Consumed(want[t], OSTCBFlagsRdy[t], OSFlagFlags)
          /\ UNCHANGED flagWait
    /\ want' = [want EXCEPT ![t] = NoWait]
    /\ OSTCBFlagsRdy' = [OSTCBFlagsRdy EXCEPT ![t] = {}]
    /\ Resumed(t)
    /\ UNCHANGED semVars

\* Mutation: only the most urgent of those who waited is woken.
FlagPostOne(f) ==
    LET met == {t \in flagWait : Met(want[t], f)}
        woken == IF met = {} THEN {} ELSE {MostUrgent(met)}
    IN  /\ OSFlagFlags' = f
        /\ TaskRdy(woken, "FLAG", "OK")
        /\ flagWait' = flagWait \ woken
        /\ OSTCBFlagsRdy' = [t \in Tasks |->
               IF t \in woken THEN Have(want[t], f) ELSE OSTCBFlagsRdy[t]]
        /\ UNCHANGED <<at, semVars, want>>

\* Also by an interrupt handler: f are the flags up afterwards, and all who
\* have waited for them are woken.
FlagPost(f) ==
    LET woken == {t \in flagWait : Met(want[t], f)}
    IN  /\ OSFlagFlags' = f
        /\ TaskRdy(woken, "FLAG", "OK")
        /\ flagWait' = flagWait \ woken
        /\ OSTCBFlagsRdy' = [t \in Tasks |->
               IF t \in woken THEN Have(want[t], f) ELSE OSTCBFlagsRdy[t]]
        /\ UNCHANGED <<at, semVars, want>>

OSFlagPost(flags) ==
    FlagPost(OSFlagFlags \cup flags) \/ FlagPost(OSFlagFlags \ flags)

-----------------------------------------------------------------------------
\* Time and suspension

OSTimeDly(t, ticks) ==
    /\ InApp(t)
    /\ rdy' = rdy \ {t}
    /\ OSTCBDly' = [OSTCBDly EXCEPT ![t] = ticks]
    /\ UNCHANGED <<OSTCBStat, OSTCBStatPend, at, semVars, flagVars>>

\* The delays of the tasks E are over: a pend has timed out.  The task stays
\* in the wait list until it runs.
Expire(E) ==
    /\ OSTCBStat' = [t \in Tasks |-> IF t \in E THEN OSTCBStat[t] \ {"SEM", "FLAG"}
                                                ELSE OSTCBStat[t]]
    /\ OSTCBStatPend' = [t \in Tasks |->
           IF t \notin E THEN OSTCBStatPend[t]
           ELSE IF OSTCBStat[t] \cap {"SEM", "FLAG"} # {} THEN "TO" ELSE "OK"]
    /\ rdy' = rdy \cup {t \in E : ~Suspended(t)}

OSTimeTick ==
    /\ Expire({t \in Tasks : OSTCBDly[t] = 1})
    /\ OSTCBDly' = [t \in Tasks |-> IF OSTCBDly[t] > 0 THEN OSTCBDly[t] - 1 ELSE 0]
    /\ UNCHANGED <<at, semVars, flagVars>>

\* By a task, of another one.
OSTimeDlyResume(t) ==
    /\ \E r \in Tasks : InApp(r)
    /\ OSTCBDly[t] > 0
    /\ OSTCBDly' = [OSTCBDly EXCEPT ![t] = 0]
    /\ Expire({t})
    /\ UNCHANGED <<at, semVars, flagVars>>

\* By a task, of any task, itself included.
OSTaskSuspend(t) ==
    /\ \E r \in Tasks : InApp(r)
    /\ rdy' = rdy \ {t}
    /\ OSTCBStat' = [OSTCBStat EXCEPT ![t] = @ \cup {"SUSPEND"}]
    /\ UNCHANGED <<OSTCBStatPend, OSTCBDly, at, semVars, flagVars>>

\* Mutation: the delay of a resumed task is not looked at.
OSTaskResumeAtOnce(t) ==
    /\ \E r \in Tasks : InApp(r)
    /\ Suspended(t)
    /\ OSTCBStat' = [OSTCBStat EXCEPT ![t] = @ \ {"SUSPEND"}]
    /\ rdy' = IF OSTCBStat'[t] = {} THEN rdy \cup {t} ELSE rdy
    /\ UNCHANGED <<OSTCBStatPend, OSTCBDly, at, semVars, flagVars>>

OSTaskResume(t) ==
    /\ \E r \in Tasks : InApp(r)
    /\ Suspended(t)
    /\ OSTCBStat' = [OSTCBStat EXCEPT ![t] = @ \ {"SUSPEND"}]
    /\ rdy' = IF OSTCBStat'[t] = {} /\ OSTCBDly[t] = 0 THEN rdy \cup {t} ELSE rdy
    /\ UNCHANGED <<OSTCBStatPend, OSTCBDly, at, semVars, flagVars>>

-----------------------------------------------------------------------------
\* OSSemCreate with any count, OSFlagCreate with any flags, tasks running.
Init ==
    /\ rdy = Tasks
    /\ OSTCBStat = [t \in Tasks |-> {}]
    /\ OSTCBStatPend = [t \in Tasks |-> "OK"]
    /\ OSTCBDly = [t \in Tasks |-> 0]
    /\ at = [t \in Tasks |-> "app"]
    /\ OSEventCnt \in 0 .. MaxCnt /\ tokens = OSEventCnt
    /\ semWait = {}
    /\ OSFlagFlags \in SUBSET Flags
    /\ flagWait = {}
    /\ want = [t \in Tasks |-> NoWait]
    /\ OSTCBFlagsRdy = [t \in Tasks |-> {}]

Next ==
    \/ \E t \in Tasks :
         \/ \E timeout \in 0 .. MaxTimeout :
              OSSemPend(t, timeout) \/ \E w \in Waits : OSFlagPend(t, w, timeout)
         \/ SemPended(t) \/ FlagPended(t)
         \/ \E ticks \in 1 .. MaxTimeout : OSTimeDly(t, ticks)
         \/ OSTimeDlyResume(t) \/ OSTaskSuspend(t) \/ OSTaskResume(t)
    \/ \E cnt \in 0 .. MaxCnt : OSSemSet(cnt)
    \/ \E w \in Waits : OSFlagAccept(w)
    \/ OSSemAccept \/ OSSemPost \/ \E b \in BOOLEAN : OSSemPendAbort(b)
    \/ \E flags \in SUBSET Flags : OSFlagPost(flags)
    \/ OSTimeTick

Spec == Init /\ [][Next]_vars

-----------------------------------------------------------------------------
\* A task is in the ready table exactly when nothing keeps it from running,
\* whichever of post, abort, timeout, suspension and resumption came first
\* (os_core.c:896-917, 1028-1041, os_task.c:814-830).
ReadyIffFree ==
    \A t \in Tasks : t \in rdy <=> OSTCBStat[t] = {} /\ OSTCBDly[t] = 0

\* No signal is lost and none is given twice: every token posted is counted
\* in the semaphore or has been handed to one task that has still to notice,
\* also when that task's timeout came between (os_sem.c:309-346).
Granted(t) == at[t] = "sem" /\ t \notin semWait /\ OSTCBStatPend[t] = "OK"
TokensKept == tokens = OSEventCnt + Cardinality({t \in Tasks : Granted(t)})

\* Nobody waits while the semaphore has something to give.
NobodyWaitsForNothing == OSEventCnt > 0 => semWait = {}

\* A task waits in a list from the first half of its pend until it is woken;
\* one whose time is up stays in the list until it runs, and no longer.
InList(t, call, bit) ==
    at[t] = call /\ (bit \in OSTCBStat[t] \/ OSTCBStatPend[t] = "TO")
ListsMatch ==
    \A t \in Tasks :
        /\ t \in semWait <=> InList(t, "sem", "SEM")
        /\ t \in flagWait <=> InList(t, "flag", "FLAG")

\* No task sleeps on flags that are there, although a flag that woke one task
\* is only consumed when that task runs.  Of waits for flags to be set, as all
\* drivers make them: a consumed flag does not wake who waits for it to be
\* clear (os_flag.c:700-704); nor do the flags raised for one who waited for
\* them to be clear and consumes that, which no caller asks for.
FlagsNotMissed ==
    \A t \in Tasks :
        /\ t \in flagWait /\ "FLAG" \in OSTCBStat[t] /\ ~want[t].clr
        => ~Met(want[t], OSFlagFlags)
=============================================================================
