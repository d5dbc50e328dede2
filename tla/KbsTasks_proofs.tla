--------------------------- MODULE KbsTasks_proofs ---------------------------
(***************************************************************************)
(* Proofs about KbsTasks, for every number of buttons, every length of the *)
(* recording, every kind of card and every delay.                          *)
(***************************************************************************)
EXTENDS KbsTasks, TLAPS

Labels == ReadPcs \cup PlayPcs \cup KeyPcs

LEMMA TaskNames ==
    /\ Tasks = {4, 6, 8}
    /\ TaskReadSD = 4 /\ TaskPlayRecording = 6 /\ TaskKeyHandler = 8
  BY TasksAssumption DEF TaskReadSD, TaskPlayRecording, TaskKeyHandler

LEMMA Delays ==
    {I2cTicks, KeyTicks, PollTicks} \subseteq 0 .. MaxDelay
  BY TasksAssumption, SchedAssumption

LEMMA Bounds ==
    /\ MaxMountTry \in Nat \ {0} /\ MaxTicks \in Nat /\ MaxRecording \in Nat
    /\ PlayEntries \in Nat /\ 1 <= PlayEntries
    /\ FifoDepth \in Nat \ {0} /\ MaxSamples \in Nat
  BY TasksAssumption

-----------------------------------------------------------------------------
\* What the operations of the kernel leave well typed.

LEMMA DelayType ==
    ASSUME SchedTypeOK, NEW t \in Tasks, NEW n \in 0 .. MaxDelay, Delay(t, n)
    PROVE  SchedTypeOK' /\ alive' = alive
  BY DEF SchedTypeOK, Delay

LEMMA CreateType ==
    ASSUME SchedTypeOK, NEW t \in Tasks, Create(t)
    PROVE  SchedTypeOK' /\ alive' = alive \cup {t}
  BY DEF SchedTypeOK, Create

LEMMA DeleteType ==
    ASSUME SchedTypeOK, NEW t \in Tasks, Delete(t)
    PROVE  SchedTypeOK' /\ alive' = alive \ {t}
  BY DEF SchedTypeOK, Delete

LEMMA TickType ==
    ASSUME SchedTypeOK, Tick
    PROVE  SchedTypeOK' /\ alive' = alive
  BY SchedAssumption DEF SchedTypeOK, Tick

LEMMA SchedSame ==
    ASSUME SchedTypeOK, UNCHANGED schedVars
    PROVE  SchedTypeOK' /\ alive' = alive
  BY DEF SchedTypeOK, schedVars

\* A step to a label, or a call, changes nothing of another task.
LEMMA GotoLabel ==
    ASSUME PcOK, NEW t \in Tasks, NEW l \in Labels, Goto(t, l)
    PROVE  /\ pc' \in [Tasks -> Labels]
           /\ pc'[t] = l
           /\ \A u \in Tasks : u # t => pc'[u] = pc[u]
  BY DEF PcOK, Goto, Labels

\* What a statement of a task does to what it calls.
StepCalls(t) ==
    \/ UNCHANGED callVars
    \/ \E w \in Writes : Call(t, w)
    \/ /\ UNCHANGED i2c
       /\ \E n \in 1 .. MaxSamples : toPlay' = [toPlay EXCEPT ![t] = n]

CallsOK ==
    /\ i2c \in [Tasks -> Writes]
    /\ toPlay \in [Tasks -> 0 .. MaxSamples]

CodecOK ==
    /\ bus \in [Tasks -> {"free", "alone", "met"}]
    /\ codecActive \in BOOLEAN /\ spoilt \in BOOLEAN
    /\ fifo \in 0 .. FifoDepth

LEMMA StepCallsType ==
    ASSUME CallsOK, NEW t \in Tasks, StepCalls(t)
    PROVE  CallsOK'
  BY DEF CallsOK, StepCalls, Call, callVars

LEMMA CallWrite ==
    ASSUME i2c \in [Tasks -> Writes], NEW t \in Tasks, NEW w \in Writes,
           Call(t, w)
    PROVE  /\ i2c' \in [Tasks -> Writes]
           /\ i2c'[t] = w
           /\ \A u \in Tasks : u # t => i2c'[u] = i2c[u]
  BY DEF Call

-----------------------------------------------------------------------------
\* A transfer on the bus, or a sample sent, leaves the variables of the tasks
\* alone, and the surroundings all of the program's.
LEMMA CodecFrame ==
    ASSUME NEW t, Codec(t)
    PROVE  TaskFrame /\ UNCHANGED alive
  BY DEF Codec, I2CBegin, I2CEnd, SendSample, Delay, schedVars

World == ClockTick \/ ChangeCard \/ FaultsEnd \/ HandsOff \/ TakeSample

WorldKeeps ==
    UNCHANGED <<alive, pc, callVars, bus, codecActive, spoilt, bSdacrdReady,
                readVars, recordVars, keyVars, playVars>>

LEMMA WorldFrame == World => WorldKeeps
  BY DEF World, WorldKeeps, ClockTick, ChangeCard, FaultsEnd, HandsOff,
         TakeSample, Tick, AppFrame, TaskFrame, schedVars, codecVars

LEMMA NextWriteType ==
    \A w \in Writes, ok \in BOOLEAN : NextWrite(w, ok) \in Writes
  BY DEF NextWrite, Writes

LEMMA CodecType ==
    ASSUME TypeOK, NEW t \in Tasks, Codec(t)
    PROVE  SchedTypeOK' /\ CallsOK' /\ CodecOK'
<1> USE DEF TypeOK, CallsOK, CodecOK, callVars
<1>1. CASE I2CBegin(t)
  <2>1. SchedTypeOK' BY <1>1, SchedSame DEF I2CBegin
  <2>2. fifo' \in 0 .. FifoDepth BY <1>1, Bounds DEF I2CBegin
  <2>3. bus' \in [Tasks -> {"free", "alone", "met"}] BY <1>1 DEF I2CBegin
  <2>4. QED BY <1>1, <2>1, <2>2, <2>3 DEF I2CBegin
<1>2. CASE I2CEnd(t)
  <2>1. SchedTypeOK' BY <1>2, DelayType, Delays DEF I2CEnd
  <2>2. PICK ok \in BOOLEAN : Call(t, NextWrite(i2c[t], ok))
        BY <1>2 DEF I2CEnd
  <2>3. CallsOK' BY <2>2, NextWriteType DEF Call
  <2>4. codecActive' \in BOOLEAN BY <1>2 DEF I2CEnd
  <2>5. spoilt' \in BOOLEAN BY <1>2 DEF I2CEnd
  <2>6. QED BY <1>2, <2>1, <2>3, <2>4, <2>5 DEF I2CEnd
<1>3. CASE SendSample(t)
  <2>1. SchedTypeOK' BY <1>3, SchedSame DEF SendSample
  <2>2. CASE UNCHANGED <<fifo, toPlay>> BY <1>3, <2>1, <2>2 DEF SendSample
  <2>3. CASE /\ fifo < FifoDepth /\ fifo' = fifo + 1
             /\ toPlay' = [toPlay EXCEPT ![t] = @ - 1]
    <3>1. toPlay[t] - 1 \in 0 .. MaxSamples BY <1>3, Bounds DEF SendSample
    <3>2. toPlay' \in [Tasks -> 0 .. MaxSamples] BY <2>3, <3>1
    <3>3. fifo' \in 0 .. FifoDepth BY <2>3, Bounds
    <3>4. QED BY <1>3, <2>1, <3>2, <3>3 DEF SendSample
  <2>4. QED BY <1>3, <2>2, <2>3 DEF SendSample
<1>4. QED BY <1>1, <1>2, <1>3 DEF Codec

-----------------------------------------------------------------------------
\* The indices of the playing loops stay within the bounds of the loops.
LoopsBounded ==
    /\ pc[TaskPlayRecording] \in {"entry", "keys", "stop", "next"} =>
          i < PlayEntries
    /\ pc[TaskPlayRecording] \in {"keys", "stop"} => j <= MaxTicks

TypeInv == TypeOK /\ LoopsBounded

LEMMA TypeInit == Init => TypeInv
<1> SUFFICES ASSUME Init PROVE TypeInv
    OBVIOUS
<1> USE TaskNames DEF Init
<1>1. SchedTypeOK BY SchedAssumption DEF SchedTypeOK
<1>2. PcOK BY DEF PcOK, ReadPcs, PlayPcs, KeyPcs
<1>3. CallsOK BY Bounds DEF CallsOK, Writes
<1>4. CodecOK
  <2>1. bus \in [Tasks -> {"free", "alone", "met"}] OBVIOUS
  <2>2. fifo \in 0 .. FifoDepth BY Bounds
  <2>3. QED BY <2>1, <2>2 DEF CodecOK
<1>5. recordingPlaylist \in [Entries -> Entry]
      BY TasksAssumption DEF Entry, Blank, SongNumbers, Buttons, NoSong
<1>6. songNummer \in SongNumbers BY DEF SongNumbers
<1>7. /\ ticks \in 0 .. MaxTicks /\ count \in 0 .. MaxRecording
      /\ i \in 0 .. PlayEntries /\ j \in 0 .. MaxTicks + 1
      /\ nTry \in 0 .. MaxMountTry
      BY Bounds
<1>8. LoopsBounded BY DEF LoopsBounded
<1>9. QED
      BY <1>1, <1>2, <1>3, <1>4, <1>5, <1>6, <1>7, <1>8, TasksAssumption
         DEF TypeInv, TypeOK, CallsOK, CodecOK

\* TaskReadSD: its steps are well typed, and move no other task.
LEMMA ReadSched == TypeOK /\ ReadSD => SchedTypeOK'
<1> SUFFICES ASSUME TypeOK, ReadSD PROVE SchedTypeOK'
    OBVIOUS
<1> USE TaskNames, Delays DEF TypeOK
<1>1. CASE Detect BY <1>1, DelayType DEF Detect
<1>2. CASE Detected BY <1>2, DelayType, SchedSame DEF Detected
<1>3. CASE Mount BY <1>3, DelayType, SchedSame DEF Mount
<1>4. CASE Mounting BY <1>4, DelayType, SchedSame DEF Mounting
<1>5. CASE List BY <1>5, SchedSame DEF List
<1>6. CASE ListFile BY <1>6, SchedSame DEF ListFile
<1>7. CASE Listed BY <1>7, SchedSame DEF Listed
<1>8. CASE ExitReadSD BY <1>8, DeleteType DEF ExitReadSD
<1>9. CASE Codec(TaskReadSD) BY <1>9, CodecType
<1>10. QED
      BY <1>1, <1>2, <1>3, <1>4, <1>5, <1>6, <1>7, <1>8, <1>9 DEF ReadSD

LEMMA ReadPc ==
    TypeOK /\ ReadSD =>
        /\ PcOK'
        /\ pc'[TaskPlayRecording] = pc[TaskPlayRecording]
        /\ pc'[TaskKeyHandler] = pc[TaskKeyHandler]
<1> SUFFICES ASSUME TypeOK, ReadSD
             PROVE  /\ PcOK' /\ pc'[6] = pc[6] /\ pc'[8] = pc[8]
    BY TaskNames
<1> USE TaskNames DEF TypeOK
<1>1. ASSUME NEW l \in ReadPcs, Goto(TaskReadSD, l)
      PROVE  PcOK' /\ pc'[6] = pc[6] /\ pc'[8] = pc[8]
      BY <1>1, GotoLabel DEF PcOK, Labels
<1>2. ASSUME UNCHANGED pc
      PROVE  PcOK' /\ pc'[6] = pc[6] /\ pc'[8] = pc[8]
      BY <1>2 DEF PcOK
<1>3. \E l \in ReadPcs : Goto(TaskReadSD, l) \/ UNCHANGED pc
      BY CodecFrame
         DEF ReadSD, Detect, Detected, Mount, Mounting, List, ListFile, Listed,
             ExitReadSD, TaskFrame, ReadPcs
<1>4. QED BY <1>1, <1>2, <1>3

LEMMA ReadStatement ==
    ASSUME ReadSD, ~Codec(TaskReadSD)
    PROVE  /\ StepCalls(TaskReadSD) /\ UNCHANGED codecVars
           /\ i2c[TaskReadSD] = "none"
<1> USE TaskNames
<1>1. CASE ListFile
      BY <1>1 DEF At, ListFile, waveplay_start, NoCall, StepCalls, ReadFrame,
         Writes
<1>2. QED
      BY <1>1 DEF At, ReadSD, Detect, Detected, Mount, Mounting, List,
         Listed, ExitReadSD, StepCalls, ReadFrame

LEMMA ReadCalls == TypeOK /\ ReadSD => CallsOK' /\ CodecOK'
<1> SUFFICES ASSUME TypeOK, ReadSD PROVE CallsOK' /\ CodecOK'
    OBVIOUS
<1> USE TaskNames
<1>1. CASE Codec(TaskReadSD) BY <1>1, CodecType
<1>2. CASE ~Codec(TaskReadSD)
  <2>1. StepCalls(TaskReadSD) /\ UNCHANGED codecVars
        BY <1>2, ReadStatement
  <2>2. CallsOK' BY <2>1, StepCallsType DEF TypeOK, CallsOK
  <2>3. CodecOK' BY <2>1 DEF TypeOK, CodecOK, codecVars
  <2>4. QED BY <2>2, <2>3
<1>3. QED BY <1>1, <1>2

LEMMA ReadType == TypeInv /\ ReadSD => TypeInv'
<1> SUFFICES ASSUME TypeInv, ReadSD PROVE TypeInv'
    OBVIOUS
<1> USE TaskNames DEF TypeInv, TypeOK, readVars, cardVars, worldVars,
        recordVars, keyVars, playVars, ReadFrame
<1>1. /\ SchedTypeOK' /\ PcOK' /\ CallsOK' /\ CodecOK'
      /\ pc'[6] = pc[6]
      BY ReadSched, ReadPc, ReadCalls
<1>2. /\ UNCHANGED <<card, worldVars, busyRecording, songRecording,
                     playingRecording, recordingPlaylist, songNummer, ticks,
                     count, i, j>>
      /\ cardReady' \in BOOLEAN
      /\ bSdacrdReady' \in BOOLEAN /\ hFat' \in BOOLEAN
      /\ nFileNum' \in Nat /\ listed' \in Nat /\ nTry' \in 0 .. MaxMountTry
  <2>1. CASE Detect BY <2>1 DEF Detect
  <2>2. CASE Detected
    <3>1. nTry' \in 0 .. MaxMountTry BY <2>2, Bounds DEF Detected
    <3>2. QED BY <2>2, <3>1 DEF Detected
  <2>3. CASE Mount
    <3>1. nTry' \in 0 .. MaxMountTry BY <2>3, Bounds DEF Mount
    <3>2. QED BY <2>3, <3>1 DEF Mount
  <2>4. CASE Mounting BY <2>4 DEF Mounting
  <2>5. CASE List BY <2>5 DEF List
  <2>6. CASE ListFile BY <2>6 DEF ListFile
  <2>7. CASE Listed BY <2>7 DEF Listed
  <2>8. CASE ExitReadSD BY <2>8, Bounds DEF ExitReadSD
  <2>9. CASE Codec(TaskReadSD) BY <2>9, CodecFrame DEF TaskFrame
  <2>10. QED
      BY <2>1, <2>2, <2>3, <2>4, <2>5, <2>6, <2>7, <2>8, <2>9 DEF ReadSD
<1>3. LoopsBounded' BY <1>1, <1>2 DEF LoopsBounded
<1>4. QED BY <1>1, <1>2, <1>3 DEF CallsOK, CodecOK

-----------------------------------------------------------------------------
\* TaskPlayRecording

LEMMA PlaySched == TypeOK /\ PlayRecording => SchedTypeOK'
<1> SUFFICES ASSUME TypeOK, PlayRecording PROVE SchedTypeOK'
    OBVIOUS
<1> USE TaskNames, Delays DEF TypeOK
<1>1. CASE UNCHANGED schedVars BY <1>1, SchedSame
<1>2. CASE WhilePlaying BY <1>2, SchedSame, DeleteType DEF WhilePlaying
<1>3. CASE PausePlaying BY <1>3, DelayType DEF PausePlaying
<1>4. CASE Codec(TaskPlayRecording) BY <1>4, CodecType
<1>5. QED
      BY <1>1, <1>2, <1>3, <1>4
         DEF PlayRecording, StartPlay, PlayEntry, EntryKeys, StopButton,
             NextEntry, EndPlaying

LEMMA PlayPc ==
    TypeOK /\ PlayRecording =>
        /\ PcOK'
        /\ pc'[TaskReadSD] = pc[TaskReadSD]
        /\ pc'[TaskKeyHandler] = pc[TaskKeyHandler]
<1> SUFFICES ASSUME TypeOK, PlayRecording
             PROVE  /\ PcOK' /\ pc'[4] = pc[4] /\ pc'[8] = pc[8]
    BY TaskNames
<1> USE TaskNames DEF TypeOK
<1>1. ASSUME NEW l \in PlayPcs, Goto(TaskPlayRecording, l)
      PROVE  PcOK' /\ pc'[4] = pc[4] /\ pc'[8] = pc[8]
      BY <1>1, GotoLabel DEF PcOK, Labels
<1>2. ASSUME UNCHANGED pc
      PROVE  PcOK' /\ pc'[4] = pc[4] /\ pc'[8] = pc[8]
      BY <1>2 DEF PcOK
<1>3. \E l \in PlayPcs : Goto(TaskPlayRecording, l) \/ UNCHANGED pc
      BY CodecFrame
         DEF PlayRecording, StartPlay, WhilePlaying, PlayEntry, EntryKeys,
             StopButton, NextEntry, PausePlaying, EndPlaying, Play, TaskFrame,
             PlayPcs
<1>4. QED BY <1>1, <1>2, <1>3

LEMMA KeyCall ==
    ASSUME NEW t \in Tasks, handle_key(t)
    PROVE  \E w \in Writes : Call(t, w)
  BY TasksAssumption DEF handle_key, Writes

LEMMA ExecuteCall ==
    ASSUME NEW t \in Tasks, NEW song, NEW ok, waveplay_execute(t, song, ok)
    PROVE  StepCalls(t)
  BY DEF waveplay_execute, waveplay_start, NoCall, StepCalls, Writes

LEMMA PlayStatement ==
    ASSUME PlayRecording, ~Codec(TaskPlayRecording)
    PROVE  /\ StepCalls(TaskPlayRecording) /\ UNCHANGED codecVars
           /\ i2c[TaskPlayRecording] = "none"
<1> USE TaskNames
<1>1. CASE PlayEntry
      BY <1>1, ExecuteCall DEF At, Play, PlayEntry, NoCall, StepCalls, PlayFrame
<1>2. CASE EntryKeys
      BY <1>2, KeyCall DEF At, Play, EntryKeys, StepCalls, PlayFrame
<1>3. QED
      BY <1>1, <1>2 DEF At, Play, PlayRecording, StartPlay, WhilePlaying,
         StopButton, NextEntry, PausePlaying, EndPlaying, StepCalls,
         PlayFrame

LEMMA PlayCalls == TypeOK /\ PlayRecording => CallsOK' /\ CodecOK'
<1> SUFFICES ASSUME TypeOK, PlayRecording PROVE CallsOK' /\ CodecOK'
    OBVIOUS
<1> USE TaskNames
<1>1. CASE Codec(TaskPlayRecording) BY <1>1, CodecType
<1>2. CASE ~Codec(TaskPlayRecording)
  <2>1. StepCalls(TaskPlayRecording) /\ UNCHANGED codecVars
        BY <1>2, PlayStatement
  <2>2. CallsOK' BY <2>1, StepCallsType DEF TypeOK, CallsOK
  <2>3. CodecOK' BY <2>1 DEF TypeOK, CodecOK, codecVars
  <2>4. QED BY <2>2, <2>3
<1>3. QED BY <1>1, <1>2

LEMMA PlayType == TypeInv /\ PlayRecording => TypeInv'
<1> SUFFICES ASSUME TypeInv, PlayRecording PROVE TypeInv'
    OBVIOUS
<1> USE TaskNames DEF TypeInv, TypeOK, readVars, cardVars, worldVars,
        recordVars, keyVars, playVars, PlayFrame
<1>1. SchedTypeOK' /\ PcOK' /\ CallsOK' /\ CodecOK'
      BY PlaySched, PlayPc, PlayCalls
<1>2. /\ UNCHANGED <<card, cardReady, worldVars, bSdacrdReady, hFat,
                     nFileNum, listed, nTry, busyRecording, songRecording, recordingPlaylist,
                     songNummer, ticks, count>>
      /\ playingRecording' \in BOOLEAN
  <2>1. CASE StartPlay BY <2>1 DEF StartPlay
  <2>2. CASE Codec(TaskPlayRecording) BY <2>2, CodecFrame DEF TaskFrame
  <2>3. QED
        BY <2>1, <2>2 DEF PlayRecording, WhilePlaying, PlayEntry, EntryKeys,
           StopButton, NextEntry, PausePlaying, EndPlaying, StopPlaying
<1>3. /\ i' \in 0 .. PlayEntries /\ j' \in 0 .. MaxTicks + 1
      /\ LoopsBounded'
  <2> USE GotoLabel, Bounds DEF LoopsBounded, Play, At, PlayPcs, Labels
  <2>1. CASE StartPlay BY <2>1 DEF StartPlay
  <2>2. CASE WhilePlaying BY <2>2 DEF WhilePlaying
  <2>3. CASE PlayEntry
    <3>1. pc[6] = "entry" BY <2>3 DEF PlayEntry
    <3>2. i \in Entries BY <3>1, TasksAssumption DEF Entries
    <3>3. recordingPlaylist[i].playticks \in 0 .. MaxTicks
          BY <3>2 DEF Entry
    <3>4. QED BY <2>3, <3>1, <3>3 DEF PlayEntry
  <2>4. CASE EntryKeys BY <2>4 DEF EntryKeys
  <2>5. CASE StopButton BY <2>5 DEF StopButton
  <2>6. CASE NextEntry BY <2>6 DEF NextEntry
  <2>7. CASE PausePlaying BY <2>7 DEF PausePlaying
  <2>8. CASE EndPlaying BY <2>8 DEF EndPlaying
  <2>9. CASE Codec(TaskPlayRecording) BY <2>9, CodecFrame DEF TaskFrame
  <2>10. QED
      BY <2>1, <2>2, <2>3, <2>4, <2>5, <2>6, <2>7, <2>8, <2>9
         DEF PlayRecording
<1>4. QED BY <1>1, <1>2, <1>3 DEF CallsOK, CodecOK

-----------------------------------------------------------------------------
\* TaskKeyHandler

LEMMA KeySched == TypeOK /\ KeyHandler => SchedTypeOK'
<1> SUFFICES ASSUME TypeOK, KeyHandler PROVE SchedTypeOK'
    OBVIOUS
<1> USE TaskNames, Delays DEF TypeOK
<1>1. CASE UNCHANGED schedVars BY <1>1, SchedSame
<1>2. CASE CreateReadSD BY <1>2, CreateType DEF CreateReadSD
<1>3. CASE CreatePlayRecording BY <1>3, CreateType DEF CreatePlayRecording
<1>4. CASE RecordButton BY <1>4, SchedSame, DelayType DEF RecordButton
<1>5. CASE PlayButton BY <1>5, SchedSame, DelayType DEF PlayButton
<1>6. CASE Pause BY <1>6, DelayType DEF Pause
<1>7. CASE Codec(TaskKeyHandler) BY <1>7, CodecType
<1>8. QED
      BY <1>1, <1>2, <1>3, <1>4, <1>5, <1>6, <1>7
         DEF KeyHandler, CheckCard, Select, Loop, Execute, Fail, Keys,
             AppendEntry, Toggle, Clear, MainKeys

\* TaskKeyHandler moves another task only when it creates it.
LEMMA KeyPc ==
    TypeOK /\ KeyHandler =>
        /\ PcOK'
        /\ CreateReadSD \/ pc'[TaskReadSD] = pc[TaskReadSD]
        /\ CreatePlayRecording
              \/ pc'[TaskPlayRecording] = pc[TaskPlayRecording]
<1> SUFFICES ASSUME TypeOK, KeyHandler
             PROVE  /\ PcOK'
                    /\ CreateReadSD \/ pc'[4] = pc[4]
                    /\ CreatePlayRecording \/ pc'[6] = pc[6]
    BY TaskNames
<1> USE TaskNames DEF TypeOK
<1>1. ASSUME NEW l \in KeyPcs, Goto(TaskKeyHandler, l)
      PROVE  PcOK' /\ pc'[4] = pc[4] /\ pc'[6] = pc[6]
      BY <1>1, GotoLabel DEF PcOK, Labels
<1>2. ASSUME UNCHANGED pc
      PROVE  PcOK' /\ pc'[4] = pc[4] /\ pc'[6] = pc[6]
      BY <1>2 DEF PcOK
<1>3. CASE CreateReadSD
      BY <1>3 DEF CreateReadSD, PcOK, ReadPcs, PlayPcs, KeyPcs
<1>4. CASE CreatePlayRecording
      BY <1>4 DEF CreatePlayRecording, PcOK, ReadPcs, PlayPcs, KeyPcs
<1>5. CASE \E l \in KeyPcs : Goto(TaskKeyHandler, l) \/ UNCHANGED pc
      BY <1>1, <1>2, <1>5
<1>6. QED
      BY CodecFrame, <1>3, <1>4, <1>5
         DEF KeyHandler, CheckCard, Select, Loop, Execute, Fail, Keys,
             AppendEntry, RecordButton, Toggle, Clear, PlayButton, MainKeys,
             Pause, Key, TaskFrame, KeyPcs

LEMMA KeyStatement ==
    ASSUME KeyHandler, ~Codec(TaskKeyHandler)
    PROVE  /\ StepCalls(TaskKeyHandler) /\ UNCHANGED codecVars
           /\ i2c[TaskKeyHandler] = "none"
<1> USE TaskNames
<1>1. CASE Select
      BY <1>1 DEF At, Key, Select, waveplay_start, NoCall, StepCalls, KeyFrame,
         Writes
<1>2. CASE Execute BY <1>2, ExecuteCall DEF At, Key, Execute, KeyFrame
<1>3. CASE Keys BY <1>3, KeyCall DEF At, Key, Keys, StepCalls, KeyFrame
<1>4. CASE MainKeys BY <1>4, KeyCall DEF At, Key, MainKeys, StepCalls, KeyFrame
<1>5. QED
      BY <1>1, <1>2, <1>3, <1>4
         DEF At, Key, KeyHandler, CheckCard, CreateReadSD, Loop, Fail,
             AppendEntry,
             RecordButton, Toggle, Clear, PlayButton, CreatePlayRecording,
             Pause, StepCalls, KeyFrame

LEMMA KeyCalls == TypeOK /\ KeyHandler => CallsOK' /\ CodecOK'
<1> SUFFICES ASSUME TypeOK, KeyHandler PROVE CallsOK' /\ CodecOK'
    OBVIOUS
<1> USE TaskNames
<1>1. CASE Codec(TaskKeyHandler) BY <1>1, CodecType
<1>2. CASE ~Codec(TaskKeyHandler)
  <2>1. StepCalls(TaskKeyHandler) /\ UNCHANGED codecVars
        BY <1>2, KeyStatement
  <2>2. CallsOK' BY <2>1, StepCallsType DEF TypeOK, CallsOK
  <2>3. CodecOK' BY <2>1 DEF TypeOK, CodecOK, codecVars
  <2>4. QED BY <2>2, <2>3
<1>3. QED BY <1>1, <1>2

\* What the list of the recording and the locals of the task become.
LEMMA KeyData ==
    TypeOK /\ KeyHandler =>
        /\ songNummer' \in SongNumbers /\ ticks' \in 0 .. MaxTicks
        /\ count' \in 0 .. MaxRecording
        /\ recordingPlaylist' \in [Entries -> Entry]
<1> SUFFICES ASSUME TypeOK, KeyHandler
             PROVE  /\ songNummer' \in SongNumbers /\ ticks' \in 0 .. MaxTicks
                    /\ count' \in 0 .. MaxRecording
                    /\ recordingPlaylist' \in [Entries -> Entry]
    OBVIOUS
<1> USE Bounds DEF TypeOK, recordVars, keyVars
<1>1. (\A e : getButtonId(e) \in SongNumbers) /\ NoSong \in SongNumbers
      BY DEF getButtonId, SongNumbers
<1>2. CASE UNCHANGED <<recordingPlaylist, count>>
  <2>1. CASE CheckCard BY <1>1, <1>2, <2>1 DEF CheckCard
  <2>2. CASE Select BY <1>2, <2>2 DEF Select
  <2>3. CASE Loop BY <1>1, <1>2, <2>3 DEF Loop
  <2>4. CASE Keys BY <1>2, <2>4 DEF Keys
  <2>5. CASE AppendEntry BY <1>1, <1>2, <2>5 DEF AppendEntry
  <2>6. CASE UNCHANGED <<songNummer, ticks>> BY <1>2, <2>6
  <2>7. QED
        BY CodecFrame, <2>1, <2>2, <2>3, <2>4, <2>5, <2>6
           DEF KeyHandler, CreateReadSD, Execute, Fail, RecordButton, Toggle,
               Clear, PlayButton, CreatePlayRecording, MainKeys, Pause,
               TaskFrame
<1>3. CASE AppendEntry /\ ~UNCHANGED <<recordingPlaylist, count>>
  <2>1. count \in Entries /\ count + 1 \in 0 .. MaxRecording
        BY <1>3 DEF AppendEntry, Entries
  <2>2. [songnummer |-> songNummer, playticks |-> ticks] \in Entry
        BY DEF Entry
  <2>3. QED BY <1>1, <1>3, <2>1, <2>2 DEF AppendEntry
<1>4. CASE Clear
  <2>1. Blank \in Entry
        BY TasksAssumption DEF Blank, Entry, SongNumbers, Buttons, NoSong
  <2>2. QED BY <1>4, <2>1 DEF Clear
<1>5. QED
      BY CodecFrame, <1>2, <1>3, <1>4
         DEF KeyHandler, CheckCard, CreateReadSD, Select, Loop, Execute, Fail,
             Keys, AppendEntry, RecordButton, Toggle, PlayButton,
             CreatePlayRecording, MainKeys, Pause, TaskFrame

LEMMA KeyType == TypeInv /\ KeyHandler => TypeInv'
<1> SUFFICES ASSUME TypeInv, KeyHandler PROVE TypeInv'
    OBVIOUS
<1> USE TaskNames DEF TypeInv, TypeOK, readVars, cardVars, worldVars,
        recordVars, keyVars, playVars, KeyFrame
<1>1. SchedTypeOK' /\ PcOK' /\ CallsOK' /\ CodecOK'
      BY KeySched, KeyPc, KeyCalls
<1>2. /\ songNummer' \in SongNumbers /\ ticks' \in 0 .. MaxTicks
      /\ count' \in 0 .. MaxRecording
      /\ recordingPlaylist' \in [Entries -> Entry]
      BY KeyData
<1>3. /\ UNCHANGED <<card, cardReady, worldVars, hFat, nFileNum, listed,
                     nTry, playingRecording, i, j>>
      /\ bSdacrdReady' \in BOOLEAN
      /\ busyRecording' \in BOOLEAN /\ songRecording' \in BOOLEAN
  <2>1. CASE Toggle BY <2>1 DEF Toggle
  <2>2. CASE Fail BY <2>2 DEF Fail
  <2>3. CASE Codec(TaskKeyHandler) BY <2>3, CodecFrame DEF TaskFrame
  <2>4. QED
        BY <2>1, <2>2, <2>3
           DEF KeyHandler, CheckCard, CreateReadSD, Select, Loop, Execute,
               Keys, AppendEntry, RecordButton, Clear, PlayButton,
               CreatePlayRecording, MainKeys, Pause
<1>4. LoopsBounded'
  <2>1. CASE CreatePlayRecording
        BY <1>3, <2>1 DEF CreatePlayRecording, LoopsBounded, PcOK
  <2>2. CASE pc'[6] = pc[6] BY <1>3, <2>2 DEF LoopsBounded
  <2>3. QED BY <2>1, <2>2, KeyPc
<1>5. QED BY <1>1, <1>2, <1>3, <1>4 DEF CallsOK, CodecOK

-----------------------------------------------------------------------------
\* The surroundings, and all steps together.

LEMMA SurroundingsType == TypeInv /\ World => TypeInv'
<1> SUFFICES ASSUME TypeInv, World PROVE TypeInv'
    OBVIOUS
<1> USE DEF TypeInv, TypeOK, WorldKeeps, readVars, recordVars, keyVars,
        playVars, callVars, cardVars, worldVars
<1>1. WorldKeeps BY WorldFrame
<1>2. SchedTypeOK'
      BY TickType, SchedSame
         DEF World, ClockTick, ChangeCard, FaultsEnd, HandsOff, TakeSample
<1>3. PcOK' /\ LoopsBounded' BY <1>1 DEF PcOK, LoopsBounded
<1>4. /\ card' \in Cards /\ cardReady' \in BOOLEAN
      /\ faulty' \in BOOLEAN /\ untouched' \in BOOLEAN
      BY DEF World, ClockTick, ChangeCard, FaultsEnd, HandsOff, TakeSample,
             TaskFrame
<1>5. fifo' \in 0 .. FifoDepth
  <2>1. CASE TakeSample BY <2>1, Bounds DEF TakeSample
  <2>2. CASE UNCHANGED fifo BY <2>2
  <2>3. QED
        BY <2>1, <2>2 DEF World, ClockTick, ChangeCard, FaultsEnd, HandsOff,
           AppFrame, codecVars
<1>6. QED BY <1>1, <1>2, <1>3, <1>4, <1>5

LEMMA TypeStep == TypeInv /\ [Next]_vars => TypeInv'
<1>1. TypeInv /\ UNCHANGED vars => TypeInv'
      BY DEF TypeInv, TypeOK, SchedTypeOK, PcOK, LoopsBounded, vars, schedVars,
             readVars, recordVars, keyVars, playVars, cardVars, worldVars,
             callVars, codecVars
<1>2. QED
      BY <1>1, ReadType, PlayType, KeyType, SurroundingsType DEF Next, World

LEMMA AlwaysTypeInv == Spec => []TypeInv
  BY TypeInit, TypeStep, PTL DEF Spec

\* Every variable keeps its type: the loops of TaskPlayRecording never read an
\* entry that does not exist and no counter leaves its range.
THEOREM TypeCorrect == Spec => []TypeOK
  BY AlwaysTypeInv, PTL DEF TypeInv

-----------------------------------------------------------------------------
\* The recording.  A recording is never both being made and finished; the list
\* is only cleared for one being made; a playback is only asked for when one
\* is finished.
RecordInv ==
    /\ ~(busyRecording /\ songRecording)
    /\ pc[TaskKeyHandler] = "clear" => busyRecording
    /\ pc[TaskKeyHandler] = "startPlay" => songRecording

LEMMA RecordSame ==
    TypeOK /\ (ReadSD \/ PlayRecording \/ World
                 \/ UNCHANGED vars) =>
        /\ UNCHANGED recordVars
        /\ pc'[TaskKeyHandler] = pc[TaskKeyHandler]
<1> SUFFICES ASSUME TypeOK,
                    ReadSD \/ PlayRecording \/ World \/ UNCHANGED vars
             PROVE  UNCHANGED recordVars /\ pc'[8] = pc[8]
    BY TaskNames
<1>1. CASE ReadSD
  <2>1. UNCHANGED recordVars
        BY CodecFrame, <1>1
           DEF ReadSD, Detect, Detected, Mount, Mounting, List, ListFile,
           Listed, ExitReadSD, TaskFrame, ReadFrame
  <2>2. QED BY <1>1, <2>1, ReadPc, TaskNames
<1>2. CASE PlayRecording
  <2>1. UNCHANGED recordVars
        BY CodecFrame, <1>2
           DEF PlayRecording, StartPlay, WhilePlaying, PlayEntry,
           EntryKeys, StopButton, NextEntry, PausePlaying, EndPlaying,
           TaskFrame, PlayFrame
  <2>2. QED BY <1>2, <2>1, PlayPc, TaskNames
<1>3. CASE World
      BY WorldFrame, <1>3 DEF World, WorldKeeps, AppFrame
<1>4. CASE UNCHANGED vars BY <1>4 DEF vars
<1>5. QED BY <1>1, <1>2, <1>3, <1>4

LEMMA KeyLabel ==
    ASSUME TypeOK, NEW l, NEW next \in KeyPcs, Key(l, next)
    PROVE  pc[8] = l /\ pc'[8] = next
  BY TaskNames, GotoLabel DEF Key, At, TypeOK, Labels

LEMMA RecordKey == TypeOK /\ RecordInv /\ KeyHandler => RecordInv'
<1> SUFFICES ASSUME TypeOK, RecordInv, KeyHandler PROVE RecordInv'
    OBVIOUS
<1> USE TaskNames DEF RecordInv, recordVars
<1>1. ASSUME NEW l, NEW next \in KeyPcs \ {"clear", "startPlay"}, Key(l, next),
             UNCHANGED <<busyRecording, songRecording>>
      PROVE  RecordInv'
      BY <1>1, KeyLabel
<1>2. CASE Toggle
  <2>1. pc[8] = "toggle"
        /\ pc'[8] = (IF busyRecording THEN "play" ELSE "clear")
        BY <1>2, KeyLabel DEF Toggle, KeyPcs
  <2>2. QED BY <1>2, <2>1 DEF Toggle, TypeOK
<1>3. CASE PlayButton
      BY <1>1, <1>3, KeyLabel DEF PlayButton, PlayWanted, KeyPcs
<1>4. CASE CreateReadSD \/ CreatePlayRecording
      BY <1>4 DEF CreateReadSD, CreatePlayRecording, TypeOK, PcOK
<1>5. CASE Codec(TaskKeyHandler) BY <1>5, CodecFrame DEF TaskFrame
<1>6. QED
  <2>1. \/ CheckCard \/ Select \/ Loop \/ Execute \/ Fail \/ Keys
        \/ AppendEntry \/ RecordButton \/ Clear \/ MainKeys \/ Pause
        => \E l \in KeyPcs, next \in KeyPcs \ {"clear", "startPlay"} :
              Key(l, next) /\ UNCHANGED <<busyRecording, songRecording>>
        BY DEF CheckCard, Select, Loop, Execute, Fail, Keys, AppendEntry,
               RecordButton, Clear, MainKeys, Pause, KeyPcs
  <2>2. QED BY <1>1, <1>2, <1>3, <1>4, <1>5, <2>1 DEF KeyHandler

LEMMA RecordStep == TypeOK /\ RecordInv /\ [Next]_vars => RecordInv'
  BY RecordSame, RecordKey DEF Next, World, RecordInv, recordVars

\* The list of a recording is only written by AppendEntry and Clear.
LEMMA PlaylistSame ==
    TypeOK /\ [Next]_vars /\ ~AppendEntry /\ ~Clear =>
        UNCHANGED <<recordingPlaylist, count>>
<1> SUFFICES ASSUME TypeOK, [Next]_vars, ~AppendEntry, ~Clear
             PROVE  UNCHANGED <<recordingPlaylist, count>>
    OBVIOUS
<1>1. CASE KeyHandler
      BY CodecFrame, <1>1
         DEF KeyHandler, CheckCard, CreateReadSD, Select, Loop, Execute,
         Fail, Keys, RecordButton, Toggle, PlayButton, CreatePlayRecording,
         MainKeys, Pause, TaskFrame, recordVars
<1>2. QED BY <1>1, RecordSame DEF Next, World, recordVars

LEMMA FrozenStep ==
    TypeOK /\ RecordInv /\ [Next]_vars =>
        (songRecording /\ songRecording' => UNCHANGED recordingPlaylist)
<1> SUFFICES ASSUME TypeOK, RecordInv, [Next]_vars, songRecording
             PROVE  UNCHANGED recordingPlaylist
    OBVIOUS
<1>1. CASE AppendEntry BY <1>1 DEF AppendEntry, RecordInv
<1>2. ~Clear BY KeyLabel, TaskNames DEF Clear, RecordInv, KeyPcs
<1>3. QED BY <1>1, <1>2, PlaylistSame

LEMMA AlwaysRecordInv == Spec => [](TypeOK /\ RecordInv)
<1>1. Init => RecordInv
      BY TaskNames DEF Init, RecordInv
<1>2. QED BY <1>1, RecordStep, TypeCorrect, PTL DEF Spec

\* A finished recording is left alone until the user starts a new one, in any
\* interleaving with the playback, the card and the touch interrupt.
THEOREM RecordingFrozen == Spec => FinishedRecordingFrozen
  BY FrozenStep, AlwaysRecordInv, PTL DEF Spec, FinishedRecordingFrozen

\* Once the list is cleared, and until the next recording, an entry from count
\* on is blank: AppendEntry fills them in order.
LEMMA NoLeftoverStep ==
    TypeOK /\ RecordInv /\ NoLeftover /\ [Next]_vars => NoLeftover'
<1> SUFFICES ASSUME TypeOK, RecordInv, NoLeftover, [Next]_vars,
                    (songRecording \/ (busyRecording /\ pc[8] # "clear"))'
             PROVE  (\A n \in Entries :
                        n >= count => recordingPlaylist[n] = Blank)'
    BY TaskNames DEF NoLeftover
<1> USE TaskNames DEF NoLeftover
<1>1. CASE Clear BY <1>1 DEF Clear, Entries
<1>2. CASE AppendEntry
  <2>1. pc[8] = "append" /\ UNCHANGED <<busyRecording, songRecording>>
        BY <1>2, KeyLabel DEF AppendEntry, KeyPcs
  <2>2. \A n \in Entries : n >= count => recordingPlaylist[n] = Blank
    <3>1. songRecording \/ busyRecording BY <2>1
    <3>2. QED BY <2>1, <3>1
  <2>3. count \in Nat /\ recordingPlaylist \in [Entries -> Entry]
        BY DEF TypeOK
  <2>4. CASE UNCHANGED <<recordingPlaylist, count>> BY <2>2, <2>4
  <2>5. CASE /\ count' = count + 1
             /\ \E e : recordingPlaylist' =
                         [recordingPlaylist EXCEPT ![count] = e]
        BY <2>2, <2>3, <2>5 DEF Entries
  <2>6. QED BY <1>2, <2>4, <2>5 DEF AppendEntry
<1>3. CASE ~AppendEntry /\ ~Clear
  <2>1. UNCHANGED <<recordingPlaylist, count>> BY <1>3, PlaylistSame
  <2>2. songRecording \/ (busyRecording /\ pc[8] # "clear")
    <3>1. CASE KeyHandler
      <4>1. CASE Toggle
        <5>1. pc'[8] = (IF busyRecording THEN "play" ELSE "clear")
              BY <4>1, KeyLabel DEF Toggle, KeyPcs
        <5>2. busyRecording
              BY <4>1, <5>1 DEF Toggle, TypeOK
        <5>3. pc[8] = "toggle" BY <4>1, KeyLabel DEF Toggle, KeyPcs
        <5>4. QED BY <5>2, <5>3
      <4>2. CASE ~Toggle
        <5>1. UNCHANGED <<busyRecording, songRecording>>
              BY CodecFrame, <1>3, <3>1, <4>2
                 DEF KeyHandler, CheckCard, CreateReadSD,
                 Select, Loop, Execute, Fail, Keys, RecordButton, PlayButton,
                 CreatePlayRecording, MainKeys, Pause, TaskFrame, recordVars
        <5>2. pc[8] # "clear" \/ pc'[8] = "clear"
          <6>1. CASE CreateReadSD \/ CreatePlayRecording
                BY <6>1 DEF CreateReadSD, CreatePlayRecording, At
          <6>2. CASE Codec(TaskKeyHandler) BY <6>2, CodecFrame DEF TaskFrame
          <6>3. QED
                BY <1>3, <3>1, <4>2, <6>1, <6>2
                   DEF KeyHandler, CheckCard, Select, Loop, Execute, Fail,
                       Keys, RecordButton, PlayButton, MainKeys, Pause, Key, At
        <5>3. QED BY <5>1, <5>2
      <4>3. QED BY <4>1, <4>2
    <3>2. QED BY <3>1, RecordSame DEF Next, World, recordVars
  <2>3. QED BY <2>1, <2>2
<1>4. QED BY <1>1, <1>2, <1>3

\* The list of a recording never holds an entry of an earlier one.
THEOREM NothingLeftOver == Spec => []NoLeftover
<1>1. Init => NoLeftover
      BY DEF Init, NoLeftover
<1>2. QED BY <1>1, NoLeftoverStep, AlwaysRecordInv, PTL DEF Spec

-----------------------------------------------------------------------------
\* The playback task and its flag.

LEMMA AliveStep ==
    TypeOK /\ [Next]_vars =>
        \/ UNCHANGED alive
        \/ CreateReadSD /\ alive' = alive \cup {TaskReadSD}
        \/ CreatePlayRecording /\ alive' = alive \cup {TaskPlayRecording}
        \/ ExitReadSD /\ alive' = alive \ {TaskReadSD}
        \/ /\ WhilePlaying /\ ~playingRecording
           /\ alive' = alive \ {TaskPlayRecording}
  BY CodecFrame, WorldFrame
     DEF Next, vars, schedVars, Delay, Delete, Create, Tick,
         ReadSD, Detect, Detected, Mount, Mounting, List, ListFile, Listed,
         ExitReadSD, PlayRecording, StartPlay, WhilePlaying, PlayEntry,
         EntryKeys, StopButton, NextEntry, PausePlaying, EndPlaying,
         KeyHandler, CheckCard, CreateReadSD, Select, Loop, Execute, Fail,
         Keys, AppendEntry, RecordButton, Toggle, Clear, PlayButton,
         CreatePlayRecording, MainKeys, Pause, TaskFrame, World, WorldKeeps

LEMMA PlaysFinishedStep ==
    TypeOK /\ RecordInv /\ [Next]_vars =>
        (TaskPlayRecording \notin alive /\ TaskPlayRecording \in alive'
            => songRecording /\ ~busyRecording)
<1> SUFFICES ASSUME TypeOK, RecordInv, [Next]_vars, 6 \notin alive, 6 \in alive'
             PROVE  songRecording /\ ~busyRecording
    BY TaskNames
<1>1. CreatePlayRecording BY AliveStep, TaskNames
<1>2. QED BY <1>1 DEF CreatePlayRecording, At, RecordInv

\* A playback is only started on a finished recording.
THEOREM PlaybackStarts == Spec => PlaysFinishedRecording
  BY PlaysFinishedStep, AlwaysRecordInv, PTL DEF Spec, PlaysFinishedRecording

\* Only TaskPlayRecording raises the flag.
LEMMA FlagStep ==
    TypeOK /\ [Next]_vars =>
        \/ playingRecording' => playingRecording
        \/ StartPlay
  BY CodecFrame, WorldFrame
     DEF Next, vars, playVars, ReadFrame, KeyFrame, AppFrame,
         ReadSD, Detect, Detected, Mount, Mounting, List, ListFile, Listed,
         ExitReadSD, PlayRecording, StartPlay, WhilePlaying, PlayEntry,
         EntryKeys, StopButton, NextEntry, PausePlaying, EndPlaying,
         StopPlaying, KeyHandler, CheckCard, CreateReadSD, Select, Loop,
         Execute, Fail, Keys, AppendEntry, RecordButton, Toggle, Clear,
         PlayButton, CreatePlayRecording, MainKeys, Pause, TaskFrame,
         World, WorldKeeps

LEMMA FlagOwnedStep ==
    TypeOK /\ PlayingFlagOwned /\ [Next]_vars => PlayingFlagOwned'
<1> SUFFICES ASSUME TypeOK, PlayingFlagOwned, [Next]_vars, playingRecording'
             PROVE  6 \in alive'
    BY TaskNames DEF PlayingFlagOwned
<1>1. CASE StartPlay
      BY <1>1, TaskNames
         DEF StartPlay, Play, At, Running, Ready, schedVars
<1>2. CASE playingRecording
  <2>1. 6 \in alive BY <1>2, TaskNames DEF PlayingFlagOwned
  <2>2. QED BY <1>2, <2>1, AliveStep, TaskNames
<1>3. QED BY <1>1, <1>2, FlagStep

\* The flag is never left up behind a playback that has ended.
THEOREM FlagOwned == Spec => []PlayingFlagOwned
<1>1. Init => PlayingFlagOwned
      BY DEF Init, PlayingFlagOwned
<1>2. QED BY <1>1, FlagOwnedStep, TypeCorrect, PTL DEF Spec

-----------------------------------------------------------------------------
\* The codec: an interrupted restart of a song is still within it, so the last
\* task to leave it is the one that switches the interface on, if its transfer
\* meets no other.

LEMMA CodecStep == TypeOK /\ CodecLeftActive /\ [Next]_vars => CodecLeftActive'
<1> SUFFICES ASSUME TypeOK, CodecLeftActive, [Next]_vars,
                    \A t \in Tasks : ~Restarting(t)'
             PROVE  codecActive' \/ spoilt'
    BY DEF CodecLeftActive
<1> USE DEF Restarting
<1>1. ASSUME NEW t \in Tasks, I2CEnd(t) PROVE codecActive' \/ spoilt'
  <2>1. PICK ok \in BOOLEAN : Call(t, NextWrite(i2c[t], ok))
        BY <1>1 DEF I2CEnd
  <2>2. i2c'[t] = NextWrite(i2c[t], ok) /\ \A u \in Tasks : u # t => i2c'[u] =
  i2c[u]
        BY <2>1 DEF Call, TypeOK
  <2>3. i2c[t] \in {"activate", "volLeft", "volRight"}
        BY <1>1, <2>2 DEF I2CEnd, NextWrite, Writes, TypeOK
  <2>4. CASE i2c[t] = "activate"
        BY <1>1, <2>4 DEF I2CEnd, Switches, TypeOK
  <2>5. CASE i2c[t] \in {"volLeft", "volRight"}
    <3>1. \A u \in Tasks : ~Restarting(u) BY <2>2, <2>5
    <3>2. codecActive \/ spoilt BY <3>1 DEF CodecLeftActive
    <3>3. UNCHANGED spoilt BY <1>1, <2>5 DEF I2CEnd, Switches
    <3>4. \A u \in Tasks : ~Switches(u) BY <3>1 DEF Switches
    <3>5. UNCHANGED codecActive BY <1>1, <3>4 DEF I2CEnd
    <3>6. QED BY <3>2, <3>3, <3>5
  <2>6. QED BY <2>3, <2>4, <2>5
<1>2. ASSUME NEW t \in Tasks, NEW w \in Writes, Call(t, w), i2c[t] = "none",
             UNCHANGED <<codecActive, spoilt>>
      PROVE  codecActive' \/ spoilt'
  <2>1. \A u \in Tasks : u # t => i2c'[u] = i2c[u]
        BY <1>2, CallWrite DEF TypeOK
  <2>2. \A u \in Tasks : ~Restarting(u) BY <1>2, <2>1
  <2>3. QED BY <1>2, <2>2 DEF CodecLeftActive
<1>3. CASE UNCHANGED <<i2c, codecActive, spoilt>> BY <1>3 DEF CodecLeftActive
<1>4. ASSUME NEW t \in Tasks, StepCalls(t), UNCHANGED codecVars, i2c[t] = "none"
      PROVE  codecActive' \/ spoilt'
      BY <1>2, <1>3, <1>4 DEF StepCalls, codecVars, callVars
<1>5. ASSUME NEW t \in Tasks, Codec(t) PROVE codecActive' \/ spoilt'
      BY <1>1, <1>3, <1>5 DEF Codec, I2CBegin, SendSample, callVars
<1>6. CASE ReadSD
  <2>1. CASE Codec(TaskReadSD) BY <1>5, <2>1, TaskNames
  <2>2. CASE ~Codec(TaskReadSD) BY <1>4, <1>6, <2>2, ReadStatement, TaskNames
  <2>3. QED BY <2>1, <2>2
<1>7. CASE PlayRecording
  <2>1. CASE Codec(TaskPlayRecording) BY <1>5, <2>1, TaskNames
  <2>2. CASE ~Codec(TaskPlayRecording)
        BY <1>4, <1>7, <2>2, PlayStatement, TaskNames
  <2>3. QED BY <2>1, <2>2
<1>8. CASE KeyHandler
  <2>1. CASE Codec(TaskKeyHandler) BY <1>5, <2>1, TaskNames
  <2>2. CASE ~Codec(TaskKeyHandler) BY <1>4, <1>8, <2>2, KeyStatement, TaskNames
  <2>3. QED BY <2>1, <2>2
<1>9. CASE World BY <1>3, <1>9, WorldFrame DEF WorldKeeps, callVars
<1>10. CASE UNCHANGED vars BY <1>3, <1>10 DEF vars, callVars, codecVars
<1>11. QED BY <1>6, <1>7, <1>8, <1>9, <1>10 DEF Next, World

\* No song is left playing into a codec that another task has switched off.
THEOREM CodecActive == Spec => []CodecLeftActive
<1>1. Init => CodecLeftActive
      BY DEF Init, CodecLeftActive
<1>2. QED BY <1>1, CodecStep, TypeCorrect, PTL DEF Spec

-----------------------------------------------------------------------------
\* The card: songs are only listed from a mounted volume.
MountedInv == pc[TaskReadSD] \in {"list", "listing"} => hFat

LEMMA MountedStep == TypeOK /\ MountedInv /\ [Next]_vars => MountedInv'
<1> SUFFICES ASSUME TypeOK, MountedInv, [Next]_vars PROVE MountedInv'
    OBVIOUS
<1> USE TaskNames DEF MountedInv
<1>1. CASE ReadSD
  <2> USE GotoLabel DEF TypeOK, Labels, ReadPcs, At, readVars
  <2>1. CASE Detect BY <2>1 DEF Detect
  <2>2. CASE Detected BY <2>2 DEF Detected
  <2>3. CASE Mount BY <2>3 DEF Mount
  <2>4. CASE Mounting
    <3>1. CASE card = "good" BY <2>4, <3>1 DEF Mounting
    <3>2. CASE card # "good"
      <4>1. pc'[4] \in {"mount", "exit"} BY <2>4, <3>2 DEF Mounting
      <4>2. QED BY <4>1
    <3>3. QED BY <3>1, <3>2
  <2>5. CASE List BY <2>5 DEF List
  <2>6. CASE ListFile BY <2>6 DEF ListFile
  <2>7. CASE Listed BY <2>7 DEF Listed
  <2>8. CASE ExitReadSD BY <2>8 DEF ExitReadSD
  <2>9. CASE Codec(TaskReadSD) BY <2>9, CodecFrame DEF TaskFrame
  <2>10. QED
      BY <1>1, <2>1, <2>2, <2>3, <2>4, <2>5, <2>6, <2>7, <2>8, <2>9 DEF ReadSD
<1>2. CASE PlayRecording
  <2>1. UNCHANGED hFat
        BY CodecFrame, <1>2
           DEF PlayRecording, StartPlay, WhilePlaying, PlayEntry,
           EntryKeys, StopButton, NextEntry, PausePlaying, EndPlaying,
           TaskFrame, PlayFrame, readVars
  <2>2. QED BY <1>2, <2>1, PlayPc
<1>3. CASE KeyHandler
  <2>1. UNCHANGED hFat
        BY CodecFrame, <1>3
           DEF KeyHandler, CheckCard, CreateReadSD, Select, Loop,
           Execute, Fail, Keys, AppendEntry, RecordButton, Toggle, Clear,
           PlayButton, CreatePlayRecording, MainKeys, Pause, TaskFrame,
           KeyFrame, readVars
  <2>2. CASE CreateReadSD
        BY <2>1, <2>2 DEF CreateReadSD, TypeOK, PcOK
  <2>3. QED BY <1>3, <2>1, <2>2, KeyPc
<1>4. CASE World \/ UNCHANGED vars
      BY WorldFrame, <1>4 DEF World, WorldKeeps, AppFrame, readVars, vars
<1>5. QED BY <1>1, <1>2, <1>3, <1>4 DEF Next, World

\* The flag is only raised by Listed.
LEMMA ReadyStep ==
    TypeOK /\ MountedInv /\ [Next]_vars =>
        (~bSdacrdReady /\ bSdacrdReady' => hFat' /\ nFileNum' > 0)
<1> SUFFICES ASSUME TypeOK, MountedInv, [Next]_vars,
                    ~bSdacrdReady, bSdacrdReady'
             PROVE  hFat' /\ nFileNum' > 0
    OBVIOUS
<1>1. Listed
      BY CodecFrame, WorldFrame
         DEF Next, vars, ReadSD, Detect, Detected, Mount, Mounting, List,
         ListFile, ExitReadSD, PlayRecording, StartPlay, WhilePlaying,
         PlayEntry, EntryKeys, StopButton, NextEntry, PausePlaying, EndPlaying,
         PlayFrame, KeyHandler, CheckCard, CreateReadSD, Select, Loop,
         Execute, Fail, Keys, AppendEntry, RecordButton, Toggle, Clear,
         PlayButton, CreatePlayRecording, MainKeys, Pause, TaskFrame,
         World, WorldKeeps, AppFrame
<1>2. hFat' BY <1>1 DEF Listed, At, MountedInv
<1>3. nFileNum' > 0 BY <1>1 DEF Listed
<1>4. QED BY <1>2, <1>3

\* The card is only announced once it is mounted and a song is listed.
THEOREM AnnouncedWithList == Spec => ReadyAfterList
<1>1. Init => MountedInv
      BY TaskNames DEF Init, MountedInv
<1>2. QED
      BY <1>1, MountedStep, ReadyStep, TypeCorrect, PTL
         DEF Spec, ReadyAfterList
=============================================================================
