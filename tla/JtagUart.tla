------------------------------ MODULE JtagUart -------------------------------
(***************************************************************************)
(* The driver of the JTAG UART, through which every printf of the program  *)
(* leaves (altera_avalon_jtag_uart_write.c, _read.c and _init.c, the fast  *)
(* driver, under uC/OS-II).  Tasks copy into and out of two rings; the     *)
(* interrupt handler moves bytes between the rings and the two FIFOs of    *)
(* the device; an alarm looks once a second whether the host is there.     *)
(*                                                                         *)
(* Tasks are preempted by each other and by the handler between any two    *)
(* steps.  The handler is not: while it runs only the host moves.  A byte  *)
(* written is named by its writer, a byte read by its number.              *)
(***************************************************************************)
EXTENDS Naturals, Sequences, FiniteSets

CONSTANTS
    Writers, Readers,   \* tasks that call write and read
    NonBlocking,        \* those of them that do it with O_NONBLOCK
    BufLen,             \* ALTERA_AVALON_JTAG_UART_BUF_LEN
    TxFifo, RxFifo,     \* depth of the FIFOs of the device
    Threshold,          \* fill at which the device asks for more to send
    Timeout,            \* seconds until the host is assumed inactive
    MaxCount,           \* bound: bytes of one call
    Budgets             \* bounds: how many bytes are written and typed

ASSUME JtagAssumption ==
    /\ Writers \cap Readers = {}
    /\ BufLen \in Nat /\ BufLen >= 2
    /\ TxFifo \in Nat \ {0} /\ RxFifo \in Nat \ {0}
    /\ Threshold \in 0 .. TxFifo - 1
    /\ Timeout \in Nat \ {0}
    /\ MaxCount \in Nat \ {0}
    /\ Budgets \subseteq [tx : Nat, rx : Nat]

Tasks == Writers \cup Readers

VARIABLES
    tx_buf, tx_in, tx_out,  \* the ring of bytes to send
    rx_buf, rx_in, rx_out,  \* the ring of bytes received
    we, re,                 \* irq_enable: the two enable bits of the device
    host_inactive,          \* seconds without a sign of the host
    events,                 \* the event flags that are up
    write_lock, read_lock,  \* the semaphores
    pc,                     \* where each task is in its call
    count,                  \* its bytes still to move: count, or space
    moved,                  \* and those moved: ptr - start
    from, n,                \* the index and length of the next copy
    seen,                   \* a reader's rx_in when it last looked
    flagsRdy,               \* OSTCBFlagsRdy: the flags that woke it
    isr,                    \* the interrupt handler
    txLevel, rxLevel, ac,   \* the device: fill of the FIFOs, host activity
    written, sent,          \* observed: bytes into and out of the tx ring,
    taken, delivered,       \* into and out of the rx ring
    budget                  \* the bound of this behaviour, one of Budgets

txVars == <<tx_buf, tx_in, tx_out, written, sent>>
rxVars == <<rx_buf, rx_in, rx_out, taken, delivered>>
callVars == <<pc, count, moved, from, n, seen, flagsRdy>>
hwVars == <<txLevel, rxLevel, ac>>
uartVars == <<txVars, rxVars, we, re, host_inactive, events, write_lock,
              read_lock, callVars, isr, hwVars>>
vars == <<uartVars, budget>>

Index == 0 .. BufLen - 1
Flags == {"READ_RDY", "WRITE_RDY", "TIMEOUT"}
Steps == {"idle", "semPend", "look", "copy", "kick", "flagPend", "blocked",
          "woken", "semPost", "enable"}
IsrSteps == {"off", "control", "receive", "send"}

TypeOK ==
    /\ tx_buf \in [Index -> Writers \cup {"none"}]
    /\ tx_in \in Index /\ tx_out \in Index
    /\ rx_buf \in [Index -> Nat]
    /\ rx_in \in Index /\ rx_out \in Index
    /\ we \in BOOLEAN /\ re \in BOOLEAN
    /\ host_inactive \in 0 .. Timeout
    /\ events \in SUBSET Flags
    /\ write_lock \in {0, 1} /\ read_lock \in {0, 1}
    /\ pc \in [Tasks -> Steps]
    /\ count \in [Tasks -> 0 .. MaxCount]
    /\ moved \in [Tasks -> 0 .. MaxCount]
    /\ from \in [Tasks -> Index] /\ n \in [Tasks -> 0 .. BufLen]
    /\ seen \in [Tasks -> Index]
    /\ flagsRdy \in [Tasks -> SUBSET Flags]
    /\ isr \in [at : IsrSteps, wi : BOOLEAN, space : 0 .. TxFifo,
                avail : BOOLEAN]
    /\ txLevel \in 0 .. TxFifo /\ rxLevel \in 0 .. RxFifo /\ ac \in BOOLEAN
    /\ budget \in Budgets
    /\ written \in Seq(Writers) /\ sent \in Seq(Writers)
    /\ taken \in Seq(Nat) /\ delivered \in Seq(Nat)

-----------------------------------------------------------------------------
\* Event flags.  OSFlagPost wakes whoever waits for one that is now up; the
\* flags are only consumed when OSFlagPend goes on in the task it woke.

WaitsFor(t) == {IF t \in Writers THEN "WRITE_RDY" ELSE "READ_RDY", "TIMEOUT"}

OSFlagPost(flag) ==
    LET up == events \cup {flag}
        wakes == {t \in Tasks : pc[t] = "blocked" /\ flag \in WaitsFor(t)}
    IN  /\ events' = up
        /\ pc' = [t \in Tasks |-> IF t \in wakes THEN "woken" ELSE pc[t]]
        /\ flagsRdy' = [t \in Tasks |->
               IF t \in wakes THEN up \cap WaitsFor(t) ELSE flagsRdy[t]]

At(t, step) == isr.at = "off" /\ pc[t] = step

Goto(t, step) == pc' = [pc EXCEPT ![t] = step]

FlagFrame ==
    UNCHANGED <<txVars, rxVars, we, re, host_inactive, write_lock, read_lock,
                count, moved, from, n, isr, hwVars>>

\* OSFlagPend, and the test that follows its return in the caller: a writer
\* gives up when the host is silent, a reader when there is still nothing.
PendOver(t) ==
    /\ Goto(t, IF \/ t \in Writers /\ host_inactive > 0
                  \/ t \in Readers /\ seen[t] = rx_in
               THEN "semPost" ELSE "look")
    /\ seen' = [seen EXCEPT ![t] = 0]

FlagPend(t) ==
    /\ At(t, "flagPend")
    /\ \/ /\ events \cap WaitsFor(t) # {}
          /\ events' = events \ WaitsFor(t)
          /\ PendOver(t)
       \/ /\ events \cap WaitsFor(t) = {}
          /\ Goto(t, "blocked")
          /\ UNCHANGED <<events, seen>>
    /\ UNCHANGED flagsRdy /\ FlagFrame

FlagWoken(t) ==
    /\ At(t, "woken")
    /\ events' = events \ flagsRdy[t]
    /\ flagsRdy' = [flagsRdy EXCEPT ![t] = {}]
    /\ PendOver(t)
    /\ FlagFrame

-----------------------------------------------------------------------------
\* altera_avalon_jtag_uart_write and _read

\* A new call, of any length that stays within the bounds of the model.
Call(t) ==
    /\ At(t, "idle")
    /\ \E c \in 1 .. MaxCount :
        /\ IF t \in Writers THEN Len(written) + c <= budget.tx
           ELSE budget.rx > 0
        /\ count' = [count EXCEPT ![t] = c]
    /\ Goto(t, "semPend")
    /\ UNCHANGED <<txVars, rxVars, we, re, host_inactive, events, write_lock,
                   read_lock, moved, from, n, seen, flagsRdy, isr, hwVars>>

CallFrame ==
    UNCHANGED <<rxVars, re, host_inactive, events, seen, flagsRdy, isr, hwVars>>

WriteLock(t) ==
    /\ At(t, "semPend") /\ write_lock > 0
    /\ write_lock' = write_lock - 1
    /\ Goto(t, "look")
    /\ CallFrame
    /\ UNCHANGED <<txVars, we, read_lock, count, moved, from, n>>

\* Mutation: the ring may become so full that it looks empty.
TxRoomAll ==
    IF tx_in < tx_out THEN tx_out - tx_in ELSE BufLen - tx_in

\* Contiguous room behind tx_in; one place stays free to tell full from empty.
TxRoom ==
    IF tx_in < tx_out THEN tx_out - 1 - tx_in
    ELSE IF tx_out > 0 THEN BufLen - tx_in ELSE BufLen - 1 - tx_in

Least(a, b) == IF a <= b THEN a ELSE b

WriteLook(t) ==
    /\ At(t, "look")
    /\ n' = [n EXCEPT ![t] = Least(TxRoom, count[t])]
    /\ from' = [from EXCEPT ![t] = tx_in]
    /\ Goto(t, IF TxRoom = 0 THEN "kick" ELSE "copy")
    /\ CallFrame
    /\ UNCHANGED <<txVars, we, write_lock, read_lock, count, moved>>

\* ptr += n; count -= n, and on while there is something left.
CopyDone(t, next) ==
    /\ count' = [count EXCEPT ![t] = @ - n[t]]
    /\ moved' = [moved EXCEPT ![t] = @ + n[t]]
    /\ from' = [from EXCEPT ![t] = 0]
    /\ n' = [n EXCEPT ![t] = 0]
    /\ Goto(t, IF count[t] > n[t] THEN "look" ELSE next)

WriteCopy(t) ==
    /\ At(t, "copy")
    /\ tx_buf' = [k \in Index |-> IF k \in from[t] .. from[t] + n[t] - 1
                                  THEN t ELSE tx_buf[k]]
    /\ tx_in' = (from[t] + n[t]) % BufLen
    /\ written' = written \o [k \in 1 .. n[t] |-> t]
    /\ CopyDone(t, "kick")
    /\ CallFrame
    /\ UNCHANGED <<tx_out, sent, we, write_lock, read_lock>>

\* Mutation: the interrupt is only enabled when the writer is to wait.
WriteKickIfLeft(t) ==
    /\ At(t, "kick")
    /\ we' = (we \/ count[t] > 0)
    /\ Goto(t, IF count[t] > 0 /\ t \notin NonBlocking THEN "flagPend"
               ELSE "semPost")
    /\ CallFrame
    /\ UNCHANGED <<txVars, write_lock, read_lock, count, moved, from, n>>

WriteKick(t) ==
    /\ At(t, "kick")
    /\ we' = TRUE
    /\ Goto(t, IF count[t] > 0 /\ t \notin NonBlocking THEN "flagPend"
               ELSE "semPost")
    /\ CallFrame
    /\ UNCHANGED <<txVars, write_lock, read_lock, count, moved, from, n>>

\* The call is over; its locals with it.
Return(t) ==
    /\ count' = [count EXCEPT ![t] = 0]
    /\ moved' = [moved EXCEPT ![t] = 0]
    /\ Goto(t, "idle")

WriteUnlock(t) ==
    /\ At(t, "semPost")
    /\ write_lock' = write_lock + 1
    /\ Return(t)
    /\ CallFrame
    /\ UNCHANGED <<txVars, we, read_lock, from, n>>

Write(t) ==
    \/ WriteLock(t) \/ WriteLook(t) \/ WriteCopy(t) \/ WriteKick(t)
    \/ FlagPend(t) \/ FlagWoken(t) \/ WriteUnlock(t)

ReadFrame ==
    UNCHANGED <<txVars, we, host_inactive, events, write_lock, flagsRdy, isr,
                hwVars>>

ReadLock(t) ==
    /\ At(t, "semPend") /\ read_lock > 0
    /\ read_lock' = read_lock - 1
    /\ Goto(t, "look")
    /\ ReadFrame
    /\ UNCHANGED <<rxVars, re, count, moved, from, n, seen>>

\* Bytes received that lie in one piece.
RxReady == IF rx_in >= rx_out THEN rx_in - rx_out ELSE BufLen - rx_out

ReadLook(t) ==
    /\ At(t, "look")
    /\ n' = [n EXCEPT ![t] = Least(RxReady, count[t])]
    /\ from' = [from EXCEPT ![t] = rx_out]
    /\ seen' = [seen EXCEPT ![t] = IF RxReady = 0 THEN rx_in ELSE 0]
    /\ Goto(t, IF RxReady > 0 THEN "copy"
               ELSE IF moved[t] > 0 \/ t \in NonBlocking THEN "semPost"
               ELSE "flagPend")
    /\ ReadFrame
    /\ UNCHANGED <<rxVars, re, read_lock, count, moved>>

ReadCopy(t) ==
    /\ At(t, "copy")
    /\ delivered' = delivered \o [k \in 1 .. n[t] |-> rx_buf[from[t] + k - 1]]
    /\ rx_out' = (from[t] + n[t]) % BufLen
    /\ CopyDone(t, "semPost")
    /\ ReadFrame
    /\ UNCHANGED <<rx_buf, rx_in, taken, re, read_lock, seen>>

\* Mutation: receive interrupts stay as they are.
ReadUnlockOnly(t) ==
    /\ At(t, "semPost")
    /\ read_lock' = read_lock + 1 /\ Return(t)
    /\ ReadFrame
    /\ UNCHANGED <<rxVars, re, from, n, seen>>

ReadUnlock(t) ==
    /\ At(t, "semPost")
    /\ read_lock' = read_lock + 1
    /\ \/ /\ moved[t] > 0 /\ Goto(t, "enable")
          /\ UNCHANGED <<count, moved>>
       \/ moved[t] = 0 /\ Return(t)
    /\ ReadFrame
    /\ UNCHANGED <<rxVars, re, from, n, seen>>

\* There is room again: receive interrupts are let in.  The lock is released.
ReadEnable(t) ==
    /\ At(t, "enable")
    /\ re' = TRUE
    /\ Return(t)
    /\ ReadFrame
    /\ UNCHANGED <<rxVars, read_lock, from, n, seen>>

Read(t) ==
    \/ ReadLock(t) \/ ReadLook(t) \/ ReadCopy(t) \/ FlagPend(t)
    \/ FlagWoken(t) \/ ReadUnlock(t) \/ ReadEnable(t)

-----------------------------------------------------------------------------
\* altera_avalon_jtag_uart_irq, cut at every access to the device

RI == re /\ rxLevel > 0
WI == we /\ txLevel <= Threshold

IsrFrame ==
    UNCHANGED <<host_inactive, write_lock, read_lock, count, moved, from, n,
                seen, ac>>

FlagsKept == UNCHANGED <<events, pc, flagsRdy>>

\* Reads the control register; returns once there is nothing more to do.
IrqControl ==
    /\ isr.at = "control" \/ (isr.at = "off" /\ (RI \/ WI))
    /\ isr' = [at |-> IF RI THEN "receive" ELSE IF WI THEN "send" ELSE "off",
               wi |-> WI, space |-> IF WI THEN TxFifo - txLevel ELSE 0,
               avail |-> RI]
    /\ IsrFrame /\ FlagsKept
    /\ UNCHANGED <<txVars, rxVars, we, re, txLevel, rxLevel>>

\* Mutation: the handler does not look at the reader's end.
RxNeverFull == FALSE

RxFull == (rx_in + 1) % BufLen = rx_out

IrqReceive ==
    /\ isr.at = "receive" /\ ~RxFull /\ rxLevel > 0
    /\ rx_buf' = [rx_buf EXCEPT ![rx_in] = Len(taken) + 1]
    /\ rx_in' = (rx_in + 1) % BufLen
    /\ taken' = Append(taken, Len(taken) + 1)
    /\ rxLevel' = rxLevel - 1
    /\ isr' = [isr EXCEPT !.avail = rxLevel > 1]
    /\ OSFlagPost("READ_RDY")
    /\ IsrFrame
    /\ UNCHANGED <<txVars, rx_out, delivered, we, re, txLevel>>

\* The ring is full, or the FIFO empty.  If bytes are left the ring is full:
\* receive interrupts are kept out until a reader makes room.
IrqReceiveEnd ==
    /\ isr.at = "receive" /\ (RxFull \/ rxLevel = 0)
    /\ re' = (re /\ ~(isr.avail /\ RxFull))
    /\ isr' = [isr EXCEPT !.at = IF isr.wi THEN "send" ELSE "control",
                          !.avail = FALSE]
    /\ IsrFrame /\ FlagsKept
    /\ UNCHANGED <<txVars, rxVars, we, txLevel, rxLevel>>

IrqSend ==
    /\ isr.at = "send" /\ isr.space > 0 /\ tx_out # tx_in
    /\ sent' = Append(sent, tx_buf[tx_out])
    /\ tx_out' = (tx_out + 1) % BufLen
    /\ txLevel' = txLevel + 1
    /\ isr' = [isr EXCEPT !.space = @ - 1]
    /\ OSFlagPost("WRITE_RDY")
    /\ IsrFrame
    /\ UNCHANGED <<tx_buf, tx_in, written, rxVars, we, re, rxLevel>>

\* Mutation: transmit interrupts are disabled after every batch.
IrqSendEndAlways ==
    /\ isr.at = "send" /\ (isr.space = 0 \/ tx_out = tx_in)
    /\ we' = FALSE
    /\ isr' = [isr EXCEPT !.at = "control", !.wi = FALSE, !.space = 0]
    /\ IsrFrame /\ FlagsKept
    /\ UNCHANGED <<txVars, rxVars, re, txLevel, rxLevel>>

\* Room left in the FIFO means nothing left in the ring: no more interrupts.
IrqSendEnd ==
    /\ isr.at = "send" /\ (isr.space = 0 \/ tx_out = tx_in)
    /\ we' = (we /\ isr.space = 0)
    /\ isr' = [isr EXCEPT !.at = "control", !.wi = FALSE, !.space = 0]
    /\ IsrFrame /\ FlagsKept
    /\ UNCHANGED <<txVars, rxVars, re, txLevel, rxLevel>>

Irq == IrqControl \/ IrqReceive \/ IrqReceiveEnd \/ IrqSend \/ IrqSendEnd

\* Mutation: the writers are not told that the host is silent.
AlarmUntold ==
    /\ isr.at = "off" /\ ac' = FALSE
    /\ host_inactive' = IF ac THEN 0 ELSE Least(host_inactive + 1, Timeout)
    /\ FlagsKept
    /\ UNCHANGED <<txVars, rxVars, we, re, write_lock, read_lock, count, moved,
                   from, n, seen, isr, txLevel, rxLevel>>

\* altera_avalon_jtag_uart_timeout, called once a second.  The count is only
\* compared with 0 and timeout, so it is not carried further.
AlarmTimeout ==
    /\ isr.at = "off"
    /\ \/ /\ ac /\ ac' = FALSE
          /\ host_inactive' = 0
          /\ FlagsKept
       \/ /\ ~ac /\ UNCHANGED ac
          /\ host_inactive' = Least(host_inactive + 1, Timeout)
          /\ IF host_inactive' = Timeout THEN OSFlagPost("TIMEOUT")
             ELSE FlagsKept
    /\ UNCHANGED <<txVars, rxVars, we, re, write_lock, read_lock, count, moved,
                   from, n, seen, isr, txLevel, rxLevel>>

HostFrame ==
    UNCHANGED <<txVars, rxVars, we, re, host_inactive, events, write_lock,
                read_lock, callVars, isr>>

\* The host reads some of what waits in the FIFO, or only shows it is there.
HostPoll ==
    /\ ac' = TRUE
    /\ txLevel' \in 0 .. txLevel /\ (txLevel > 0 => txLevel' < txLevel)
    /\ UNCHANGED rxLevel
    /\ HostFrame

HostType ==
    /\ rxLevel < RxFifo /\ Len(taken) + rxLevel < budget.rx
    /\ rxLevel' = rxLevel + 1
    /\ ac' = TRUE
    /\ UNCHANGED txLevel
    /\ HostFrame

-----------------------------------------------------------------------------
Init ==
    /\ tx_buf = [k \in Index |-> "none"] /\ tx_in = 0 /\ tx_out = 0
    /\ rx_buf = [k \in Index |-> 0] /\ rx_in = 0 /\ rx_out = 0
    /\ we = FALSE /\ re = TRUE
    /\ host_inactive = 0 /\ events = {}
    /\ write_lock = 1 /\ read_lock = 1
    /\ pc = [t \in Tasks |-> "idle"]
    /\ count = [t \in Tasks |-> 0] /\ moved = [t \in Tasks |-> 0]
    /\ from = [t \in Tasks |-> 0] /\ n = [t \in Tasks |-> 0]
    /\ seen = [t \in Tasks |-> 0]
    /\ flagsRdy = [t \in Tasks |-> {}]
    /\ isr = [at |-> "off", wi |-> FALSE, space |-> 0, avail |-> FALSE]
    /\ txLevel = 0 /\ rxLevel = 0 /\ ac = FALSE
    /\ budget \in Budgets
    /\ written = <<>> /\ sent = <<>> /\ taken = <<>> /\ delivered = <<>>

Step ==
    \/ \E t \in Tasks : Call(t)
    \/ \E t \in Writers : Write(t)
    \/ \E t \in Readers : Read(t)
    \/ Irq \/ AlarmTimeout \/ HostPoll \/ HostType

Next == Step /\ UNCHANGED budget

Spec == Init /\ [][Next]_vars

\* Interrupts only take the processor for as long as the handler runs, and a
\* second passes again and again.  Nothing is assumed of the host, and no
\* task has to call.
Fairness ==
    /\ WF_uartVars(Irq)
    /\ SF_uartVars(AlarmTimeout)
    /\ \A t \in Writers : SF_uartVars(Write(t))
    /\ \A t \in Readers : SF_uartVars(Read(t))

FairSpec == Spec /\ Fairness

-----------------------------------------------------------------------------
\* Both rings keep their promise although one end is an interrupt handler and
\* takes no lock (altera_avalon_jtag_uart_write.c:124-156, _read.c:113-141,
\* _init.c:120-190): what reaches the host, or a reader, is what was written,
\* or typed, in that order, without gap or repetition.
Tx == INSTANCE ByteChannel WITH
    Bytes <- Writers, Capacity <- BufLen - 1, put <- written, got <- sent
Rx == INSTANCE ByteChannel WITH
    Bytes <- Nat, Capacity <- BufLen - 1, put <- taken, got <- delivered
ImplementsTx == Tx!Spec
ImplementsRx == Rx!Spec

\* Bytes in the transmit ring are never left without anybody to send them:
\* the interrupt is enabled, or a writer is about to enable it.  The handler
\* may switch it off between a writer's copy and its kick (_init.c:185).
TxKicked ==
    tx_in # tx_out =>
        we \/ \E t \in Writers : pc[t] \in {"look", "copy", "kick"}

\* Receiving is only switched off while the ring is full or a reader that
\* made room is about to switch it on, though it does so without the lock.
RxRevived ==
    re \/ RxFull \/ \E t \in Readers :
        moved[t] > 0 /\ pc[t] \in {"look", "copy", "semPost", "enable"}

\* Whoever holds the lock lets it go: printing only waits while the host
\* takes bytes, and gives up when it has been silent for too long.
WriteReturns ==
    \A t \in Writers :
        pc[t] \notin {"idle", "semPend"} ~> pc[t] \in {"idle", "semPend"}

\* As long as the host keeps reading, all that was written reaches it: once
\* the writers pause the ring runs empty.
AllSent == []<><<HostPoll>>_uartVars => []<>(sent = written)

=============================================================================
