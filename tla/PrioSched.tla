------------------------------ MODULE PrioSched ------------------------------
(***************************************************************************)
(* What the application relies on from the uC/OS-II kernel: preemptive     *)
(* scheduling by unique priorities.  A task is named by its priority, a    *)
(* lower number is more urgent.  A task exists (it is alive) from its      *)
(* OSTaskCreate to its OSTaskDel; while it exists it is either ready or    *)
(* waiting for a number of clock ticks.  Only the most urgent ready task   *)
(* executes; it loses the processor only by waiting, by deleting itself,   *)
(* or when a more urgent task becomes ready.                               *)
(***************************************************************************)
EXTENDS Integers

CONSTANTS
    Tasks,      \* the priorities the application gives to its tasks
    MaxDelay    \* the longest delay it asks for, in clock ticks

ASSUME SchedAssumption ==
    /\ Tasks \subseteq Nat
    /\ MaxDelay \in Nat \ {0}

VARIABLES
    alive,      \* the tasks that have a task control block
    dly         \* ticks each task still has to wait (OSTCBDly)

schedVars == <<alive, dly>>

SchedTypeOK ==
    /\ alive \subseteq Tasks
    /\ dly \in [Tasks -> 0 .. MaxDelay]

Ready(t) == t \in alive /\ dly[t] = 0

\* The task the processor executes: the most urgent ready one.
Running(t) == Ready(t) /\ \A u \in Tasks : Ready(u) => t <= u

-----------------------------------------------------------------------------
\* OSTaskCreate: a new task is ready at once; a priority in use is refused.
Create(t) ==
    /\ alive' = alive \cup {t}
    /\ UNCHANGED dly

\* OSTimeDly: the caller waits n ticks; a delay of 0 returns at once.
Delay(t, n) ==
    /\ dly' = [dly EXCEPT ![t] = n]
    /\ UNCHANGED alive

\* OSTaskDel(OS_PRIO_SELF)
Delete(t) ==
    /\ alive' = alive \ {t}
    /\ UNCHANGED dly

\* OSTimeTick, from the clock interrupt: every waiting task is one tick
\* closer to being ready.
Tick ==
    /\ \E t \in alive : dly[t] > 0
    /\ dly' = [t \in Tasks |-> IF dly[t] > 0 THEN dly[t] - 1 ELSE 0]
    /\ UNCHANGED alive

-----------------------------------------------------------------------------
SchedInit ==
    /\ alive \in SUBSET Tasks
    /\ dly = [t \in Tasks |-> 0]

SchedNext ==
    \/ \E t \in Tasks :
         /\ Running(t)
         /\ \/ \E u \in Tasks : Create(u)
            \/ \E n \in 0 .. MaxDelay : Delay(t, n)
            \/ Delete(t)
    \/ Tick

SchedSpec == SchedInit /\ [][SchedNext]_schedVars
=============================================================================
