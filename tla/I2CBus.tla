-------------------------------- MODULE I2CBus -------------------------------
(***************************************************************************)
(* The two wire bus over which the registers of the audio codec are        *)
(* written: the calls of AUDIO.c that write them, I2C_Write and what it    *)
(* calls (I2C.c) pin by pin, and the codec as the slave that watches the   *)
(* pins.  Tasks of different priority write registers without a lock: a    *)
(* more urgent one wakes between any two pin changes of another, and does  *)
(* its whole transfer there.                                               *)
(***************************************************************************)
EXTENDS Integers, Sequences

CONSTANTS
    Tasks,          \* priorities; a lower number is more urgent
    Bits,           \* bits of a byte: 8
    Device,         \* I2C_AUDIO_ADDR
    Calls           \* the calls of AUDIO.c each task makes: the writes
                    \* [control, data], and whether a failed one ends the call

Byte == [1 .. Bits -> {0, 1}]

\* A register and what to write there.  The control byte is the number of the
\* register and bit 8 of the data; all data of AUDIO.c are shorter, so it names
\* the register, and none of them (at most 15) is what the address byte is.
Write == [control : Byte \ {Device}, data : Byte]

ASSUME I2CAssumption ==
    /\ Tasks \subseteq Nat
    /\ Bits \in Nat \ {0}
    /\ Device \in Byte /\ Device[Bits] = 0
    /\ \A t \in Tasks :
        Calls[t] \subseteq [writes : Seq(Write) \ {<<>>}, strict : BOOLEAN]

VARIABLES
    scl, sda, dir,  \* the master's pins: clock, data, and who drives data
    stronger,       \* the level that wins when both drive data
    stage, step,    \* where each task is: the call of I2C_Write, the pin in it
    ack,            \* bSuccess of each task's I2C_Write
    job,            \* what is left of the AUDIO.c call of each task
    reg_file,       \* AUDIO.c's copy of the registers
    phase, got,     \* the codec: what it does, the bits of this byte
    nth, control,   \*   which byte it is, the second one
    regs,           \*   its registers
    alone,          \* observed: no other transfer met this one
    rival,          \* observed: another write of the same register began
    spoilt          \* observed: registers whose last transfer met another one

pinVars == <<scl, sda, dir>>
taskVars == <<stage, step, ack, job, reg_file>>
codecVars == <<phase, got, nth, control, regs>>
observers == <<alone, rival, spoilt>>
busVars == <<pinVars, stronger, taskVars, codecVars, observers>>

\* I2C_Write calls i2c_start, i2c_write three times and i2c_stop.
Stages == {"idle", "start", "address", "control", "data", "stop"}

BitPins == <<"sclLow", "sdaBit", "sclHigh", "sclLow">>

\* Mutation: the data wire is taken to be high already.
StartPinsAssumeHigh == <<"dirOut", "sclHigh", "sdaLow", "sclLow">>

\* What i2c_start, i2c_write and i2c_stop do to the pins, in order.
StartPins == <<"dirOut", "sdaHigh", "sclHigh", "sdaLow", "sclLow">>
WritePins == <<"dirOut">>
                 \o [k \in 1 .. 4 * Bits |-> BitPins[((k - 1) % 4) + 1]]
                 \o <<"dirIn", "sclHigh", "getAck", "sclLow">>
StopPins  == <<"dirOut", "sdaLow", "sclHigh", "sdaHigh">>

Pins == [start |-> StartPins, address |-> WritePins, control |-> WritePins,
         data |-> WritePins, stop |-> StopPins]

\* The bit that task t sends at its step.
Bit(t) ==
    LET byte == [address |-> Device, control |-> Head(job[t].writes).control,
                 data |-> Head(job[t].writes).data]
    IN  byte[stage[t]][(step[t] + 2) \div 4]

-----------------------------------------------------------------------------
\* The wires and the codec

Pulls == phase = "ack"

\* The level of the data wire: nobody's wire is pulled up.
Wire(d, v, pull) ==
    IF d = "in" THEN IF pull THEN 0 ELSE 1
    ELSE IF pull /\ v = 1 THEN stronger ELSE v

\* The codec sees the clock go from scl to c, the data wire from w to x.
CodecStart(c, w, x) ==
    /\ scl = 1 /\ c = 1 /\ w = 1 /\ x = 0
    /\ phase' = "shift" /\ got' = <<>> /\ nth' = "address"
    /\ UNCHANGED <<control, regs>>

CodecStop(c, w, x) ==
    /\ scl = 1 /\ c = 1 /\ w = 0 /\ x = 1
    /\ phase' = "idle" /\ got' = <<>>
    /\ UNCHANGED <<nth, control, regs>>

CodecSamples(c, x) ==
    /\ scl = 0 /\ c = 1 /\ phase = "shift" /\ Len(got) < Bits
    /\ got' = Append(got, x)
    /\ UNCHANGED <<phase, nth, control, regs>>

\* A byte is complete: acknowledged, unless it addresses another device.
CodecByte(c) ==
    /\ scl = 1 /\ c = 0 /\ phase = "shift" /\ Len(got) = Bits
    /\ phase' = IF nth = "address" /\ got # Device THEN "idle" ELSE "ack"
    /\ got' = <<>>
    /\ control' = IF nth = "control" THEN got ELSE control
    /\ regs' = IF nth = "data" THEN [regs EXCEPT ![control] = got] ELSE regs
    /\ UNCHANGED nth

CodecAckEnds(c) ==
    /\ scl = 1 /\ c = 0 /\ phase = "ack"
    /\ phase' = IF nth = "data" THEN "idle" ELSE "shift"
    /\ nth' = [address |-> "control", control |-> "data", data |-> "address"][nth]
    /\ UNCHANGED <<got, control, regs>>

CodecIgnores(c, w, x) ==
    /\ scl = 1 /\ c = 1 => w = x
    /\ scl = 0 /\ c = 1 => phase # "shift" \/ Len(got) = Bits
    /\ scl = 1 /\ c = 0 => phase = "idle" \/ (phase = "shift" /\ Len(got) < Bits)
    /\ UNCHANGED codecVars

\* The master sets its pins to c, v and d, and the codec sees it.
SetPins(c, v, d) ==
    /\ scl' = c /\ sda' = v /\ dir' = d
    /\ LET w == Wire(dir, sda, Pulls)
           x == Wire(d, v, Pulls)
       IN  \/ CodecStart(c, w, x) \/ CodecStop(c, w, x) \/ CodecSamples(c, x)
           \/ CodecByte(c) \/ CodecAckEnds(c) \/ CodecIgnores(c, w, x)

-----------------------------------------------------------------------------
\* The tasks

InTransfer(t) == stage[t] # "idle"
Idle == \A t \in Tasks : ~InTransfer(t)

\* t has the processor: no more urgent task is in a transfer.
Running(t) == InTransfer(t) /\ \A u \in Tasks : InTransfer(u) => t <= u

\* What the transfer of t is to do.
Target(t) == Head(job[t].writes).control
Data(t) == Head(job[t].writes).data

\* aduio_RegWrite, the first of a call or the next: the copy, then I2C_Write.
RegWrite(t) ==
    /\ ~InTransfer(t)
    /\ \A u \in Tasks : InTransfer(u) => t < u
    /\ \E j \in IF job[t].writes = <<>> THEN Calls[t] ELSE {job[t]} :
        /\ job' = [job EXCEPT ![t] = j]
        /\ reg_file' = [reg_file EXCEPT ![Head(j.writes).control] = Head(j.writes).data]
    /\ stage' = [stage EXCEPT ![t] = "start"]
    /\ step' = [step EXCEPT ![t] = 1]
    /\ ack' = [ack EXCEPT ![t] = TRUE]
    /\ alone' = [alone EXCEPT ![t] = Idle]
    /\ rival' = [u \in Tasks |-> /\ u # t
                                 /\ \/ rival[u]
                                    \/ InTransfer(u) /\ Target(u) = Target(t)']
    /\ UNCHANGED <<pinVars, stronger, codecVars, spoilt>>

\* One pin of i2c_start, i2c_write or i2c_stop.
Pin(t) ==
    LET op == Pins[stage[t]][step[t]]
    IN  \/ op = "dirOut"  /\ SetPins(scl, sda, "out")
        \/ op = "dirIn"   /\ SetPins(scl, sda, "in")
        \/ op = "sdaHigh" /\ SetPins(scl, 1, dir)
        \/ op = "sdaLow"  /\ SetPins(scl, 0, dir)
        \/ op = "sdaBit"  /\ SetPins(scl, Bit(t), dir)
        \/ op = "sclHigh" /\ SetPins(1, sda, dir)
        \/ op = "sclLow"  /\ SetPins(0, sda, dir)
        \/ op = "getAck"  /\ UNCHANGED <<pinVars, codecVars>>

\* Mutation: the acknowledgement of the last byte is not looked at.
AckOfAddress(t) ==
    IF Pins[stage[t]][step[t]] = "getAck" /\ stage[t] # "data"
    THEN Wire(dir, sda, Pulls) = 0
    ELSE ack[t]

\* bSuccess, after this pin.
Ack(t) ==
    IF Pins[stage[t]][step[t]] = "getAck"
    THEN Wire(dir, sda, Pulls) = 0
    ELSE ack[t]

LastPin(t) == step[t] = Len(Pins[stage[t]])

\* I2C_Write calls the next function, which depends on bSuccess.
NextStage(t) ==
    IF stage[t] \in {"address", "control"} /\ ~ack[t] THEN "stop"
    ELSE [start |-> "address", address |-> "control", control |-> "data",
          data |-> "stop", stop |-> "idle"][stage[t]]

\* What AUDIO.c still has to write when a write has returned ok.
JobAfter(j, ok) ==
    [j EXCEPT !.writes = IF j.strict /\ ~ok THEN <<>> ELSE Tail(@)]

\* A pin inside one of the functions.
InCall(t) ==
    /\ Running(t) /\ ~LastPin(t)
    /\ Pin(t)
    /\ ack' = [ack EXCEPT ![t] = Ack(t)]
    /\ step' = [step EXCEPT ![t] = @ + 1]
    /\ alone' = [u \in Tasks |-> alone[u] /\ (u = t \/ ~InTransfer(u))]
    /\ UNCHANGED <<stronger, stage, job, reg_file, rival, spoilt>>

\* The last pin of a function: I2C_Write goes on, or sleeps and returns.
EndOfCall(t) ==
    /\ Running(t) /\ LastPin(t)
    /\ Pin(t)
    /\ stage' = [stage EXCEPT ![t] = NextStage(t)]
    /\ step' = [step EXCEPT ![t] = 1]
    /\ LET wrote == Head(job[t].writes).control
       IN  IF stage[t] = "stop"
           THEN /\ job' = [job EXCEPT ![t] = JobAfter(@, ack[t])]
                /\ spoilt' = IF alone[t] THEN spoilt \ {wrote} ELSE spoilt \cup {wrote}
           ELSE UNCHANGED <<job, spoilt>>
    /\ alone' = [u \in Tasks |-> alone[u] /\ (u = t \/ ~InTransfer(u))]
    /\ UNCHANGED <<stronger, ack, reg_file, rival>>

BusInit ==
    /\ scl = 1 /\ sda = 1 /\ dir = "out"
    /\ stronger \in {0, 1}
    /\ stage = [t \in Tasks |-> "idle"] /\ step = [t \in Tasks |-> 1]
    /\ ack = [t \in Tasks |-> TRUE]
    /\ job = [t \in Tasks |-> [writes |-> <<>>, strict |-> FALSE]]
    /\ reg_file = [b \in Byte |-> [i \in 1 .. Bits |-> 0]]
    /\ regs = reg_file
    /\ phase = "idle" /\ got = <<>> /\ nth = "address" /\ control = Device
    /\ alone = [t \in Tasks |-> TRUE] /\ rival = [t \in Tasks |-> FALSE]
    /\ spoilt = {}

BusNext == \E t \in Tasks : RegWrite(t) \/ InCall(t) \/ EndOfCall(t)

BusSpec == BusInit /\ [][BusNext]_busVars

-----------------------------------------------------------------------------
BusTypeOK ==
    /\ scl \in {0, 1} /\ sda \in {0, 1} /\ dir \in {"in", "out"}
    /\ stronger \in {0, 1}
    /\ stage \in [Tasks -> Stages] /\ step \in [Tasks -> Nat \ {0}]
    /\ \A t \in Tasks : InTransfer(t) => step[t] <= Len(Pins[stage[t]])
    /\ ack \in [Tasks -> BOOLEAN]
    /\ \A t \in Tasks : InTransfer(t) => job[t].writes # <<>>
    /\ reg_file \in [Byte -> Byte] /\ regs \in [Byte -> Byte]
    /\ phase \in {"idle", "shift", "ack"}
    /\ got \in Seq({0, 1}) /\ Len(got) <= Bits
    /\ nth \in {"address", "control", "data"} /\ control \in Byte
    /\ alone \in [Tasks -> BOOLEAN] /\ rival \in [Tasks -> BOOLEAN]
    /\ spoilt \subseteq Byte

\* A write that reports success has reached its register, however often it
\* was interrupted by other transfers and however those left the wires
\* (I2C.c:67-94; AUDIO_SetLineOutVol writes the right channel on the strength
\* of it), unless another write of the same register began meanwhile.
SuccessMeansWritten ==
    [][\A t \in Tasks :
        stage[t] = "stop" /\ stage'[t] = "idle" /\ ack[t] /\ ~rival[t] =>
            regs'[Target(t)] = Data(t)]_busVars

\* AUDIO.c's copy, from which the next call takes the bits it does not
\* change, is what the register holds, if the last write of it met no other
\* transfer: a broken transfer hurts no register but its own and leaves
\* nothing behind that would hurt a later one (AUDIO.c:190-195).  The codec
\* may take the address of a transfer for a register, but it has none of that
\* number.
CopyIsTrue ==
    \A b \in Byte \ (spoilt \cup {Device}) :
        (\A t \in Tasks : InTransfer(t) => Target(t) # b) => regs[b] = reg_file[b]
=============================================================================
