------------------------------ MODULE KbsTasks -------------------------------
(***************************************************************************)
(* The three tasks of the sound board (main.c) on a preemptive kernel:     *)
(*   TaskReadSD         waits for a card, mounts it, lists its songs;      *)
(*   TaskPlayRecording  plays a finished recording once;                   *)
(*   TaskKeyHandler     plays the touched song, records, starts playback.  *)
(* They share plain global variables, the touch event the interrupt        *)
(* handler writes, the SD card and the audio codec.  No lock is used, so   *)
(* every step below is what one task does between two points where another *)
(* task or the interrupt handler can see or change what it uses.           *)
(***************************************************************************)
EXTENDS PrioSched

CONSTANTS
    NumButtons,      \* buttons on the screen: 18
    RecordArea,      \* the touched point lies in the record button,
    PlayArea,        \*   in the play/stop button,
    Elsewhere,       \*   in none of the buttons
    TouchEvents,     \* what the touch controller reports: TouchNum # 0, where
    KeyWrites,       \* what handle_key may start: "none", or "volLeft" when
                     \*   a volume key was pressed
    Cards,           \* the cards that may be in the slot
    Faults,          \* what is asked of a good card, or of the heap, may fail
    SongCounts,      \* how many playable files a card may hold
    MaxRecording,    \* MAX_RECORDING: 40 entries
    PlayEntries,     \* MAX_RECORDING - 30: entries TaskPlayRecording plays
    MaxTicks,        \* model bound on the loop rounds of one press
    MaxMountTry,     \* nMaxTry: 10
    FifoDepth,       \* samples the FIFO of the codec holds: 256
    MaxSamples,      \* samples one waveplay_execute plays: a sector, 128
    I2cTicks,        \* the pause after an I2C write: 7 ticks
    KeyTicks,        \* the pause of TaskKeyHandler: 50 ticks
    PollTicks        \* the pause between two looks for a card: 100 ticks

TaskReadSD == 4
TaskPlayRecording == 6
TaskKeyHandler == 8

NoSong == 111        \* what getButtonId returns outside the buttons

Buttons == 0 .. NumButtons - 1
Areas == Buttons \cup {RecordArea, PlayArea, Elsewhere}
SongNumbers == Buttons \cup {NoSong}
Entries == 0 .. MaxRecording - 1

ASSUME TasksAssumption ==
    /\ Tasks = {TaskReadSD, TaskPlayRecording, TaskKeyHandler}
    /\ NumButtons \in 1 .. NoSong
    /\ {RecordArea, PlayArea, Elsewhere} \cap Buttons = {}
    /\ RecordArea # PlayArea /\ RecordArea # Elsewhere /\ PlayArea # Elsewhere
    /\ TouchEvents \subseteq [TouchNum : BOOLEAN, at : Areas]
    /\ \E e \in TouchEvents : ~e.TouchNum
    /\ KeyWrites \subseteq {"none", "volLeft"} /\ KeyWrites # {}
    /\ Cards \subseteq {"none", "bad", "good"} /\ Faults \in BOOLEAN
    /\ SongCounts \subseteq Nat
    /\ MaxRecording \in Nat /\ PlayEntries \in 1 .. MaxRecording
    /\ MaxTicks \in Nat /\ MaxMountTry \in Nat \ {0}
    /\ FifoDepth \in Nat \ {0} /\ MaxSamples \in Nat
    /\ {I2cTicks, KeyTicks, PollTicks} \subseteq 1 .. MaxDelay

VARIABLES
    pc,                 \* where each task is
    i2c,                \* the codec register each task has to write next
    bus,                \* each task's transfer of it: has it met another?
    toPlay,             \* samples each waveplay_execute has still to send
    codecActive,        \* the codec's digital interface is switched on
    fifo,               \* samples in the FIFO of the codec
    spoilt,             \* observed: the last transfer to it met another one
    card,               \* the card in the slot: "none", "bad" or "good"
    cardReady,          \* the card has been through SDLIB_Init
    faulty,             \* something asked of a good card may still fail
    untouched,          \* the user keeps off the screen from now on
    bSdacrdReady, hFat, nFileNum,
    listed,             \* build_wave_play_list: count
    nTry,               \* fatMountSdcard: nTry
    busyRecording, songRecording, playingRecording, recordingPlaylist,
    songNummer, ticks, count,   \* the locals of TaskKeyHandler
    i, j                        \* the locals of TaskPlayRecording

callVars == <<i2c, toPlay>>
codecVars == <<bus, codecActive, fifo, spoilt>>
cardVars == <<card, cardReady>>
worldVars == <<faulty, untouched>>
readVars == <<hFat, nFileNum, listed, nTry>>
recordVars == <<busyRecording, songRecording, recordingPlaylist, count>>
keyVars == <<songNummer, ticks>>
playVars == <<playingRecording, i, j>>
vars == <<schedVars, pc, callVars, codecVars, cardVars, worldVars,
          bSdacrdReady, readVars, recordVars, keyVars, playVars>>

ReadPcs == {"dormant", "detect", "detected", "mount", "mounting", "list",
            "listing", "exit"}
PlayPcs == {"dormant", "start", "while", "entry", "keys", "stop", "next",
            "pause", "flag"}
KeyPcs == {"checkCard", "create", "select", "loop", "execute", "fail", "keys",
           "append", "record", "toggle", "clear", "play", "startPlay",
           "mainKeys", "pause"}

\* Mutation: waveplay_start without its last AUDIO_InterfaceActive(TRUE).
NextWriteLeftOff(w, ok) ==
    CASE w = "deactivate"    -> "setRate"
      [] w = "volLeft" /\ ok -> "volRight"
      [] OTHER               -> "none"

\* The register writes of waveplay_start are deactivate, setRate, activate,
\* whatever they return; those of handle_key, when a volume key was pressed,
\* are volLeft and, if that reports success, volRight.
NextWrite(w, ok) ==
    CASE w = "deactivate"    -> "setRate"
      [] w = "setRate"       -> "activate"
      [] w = "volLeft" /\ ok -> "volRight"
      [] OTHER               -> "none"
Writes == {"none", "deactivate", "setRate", "activate", "volLeft", "volRight"}

Entry == [songnummer : SongNumbers, playticks : 0 .. MaxTicks]
Blank == [songnummer |-> 0, playticks |-> 0]

PcOK ==
    /\ pc \in [Tasks -> ReadPcs \cup PlayPcs \cup KeyPcs]
    /\ pc[TaskReadSD] \in ReadPcs
    /\ pc[TaskPlayRecording] \in PlayPcs
    /\ pc[TaskKeyHandler] \in KeyPcs

TypeOK ==
    /\ SchedTypeOK
    /\ PcOK
    /\ i2c \in [Tasks -> Writes]
    /\ bus \in [Tasks -> {"free", "alone", "met"}]
    /\ toPlay \in [Tasks -> 0 .. MaxSamples]
    /\ codecActive \in BOOLEAN /\ spoilt \in BOOLEAN
    /\ fifo \in 0 .. FifoDepth
    /\ card \in Cards /\ cardReady \in BOOLEAN
    /\ faulty \in BOOLEAN /\ untouched \in BOOLEAN
    /\ bSdacrdReady \in BOOLEAN /\ hFat \in BOOLEAN
    /\ nFileNum \in Nat /\ listed \in Nat /\ nTry \in 0 .. MaxMountTry
    /\ busyRecording \in BOOLEAN /\ songRecording \in BOOLEAN
    /\ playingRecording \in BOOLEAN
    /\ recordingPlaylist \in [Entries -> Entry]
    /\ songNummer \in SongNumbers /\ ticks \in 0 .. MaxTicks
    /\ count \in 0 .. MaxRecording
    /\ i \in 0 .. PlayEntries /\ j \in 0 .. MaxTicks + 1

-----------------------------------------------------------------------------
\* Task t executes the step at label l: it has the processor, and no register
\* write or sample of an earlier call is left to do.
At(t, l) == pc[t] = l /\ i2c[t] = "none" /\ toPlay[t] = 0 /\ Running(t)

Goto(t, l) == pc' = [pc EXCEPT ![t] = l]

Call(t, w) == i2c' = [i2c EXCEPT ![t] = w] /\ UNCHANGED toPlay

NoCall == UNCHANGED callVars

\* A block of the card can be read through the mounted volume.
CardReads == hFat /\ cardReady /\ card = "good"

\* What a task finds in *mtc2 when it looks: mtc2_ISR may write another event
\* between any two instructions, also right after TaskPlayRecording has wiped
\* the coordinates (main.c:132).
Touches == {e \in TouchEvents : untouched => ~e.TouchNum}

getButtonId(e) == IF e.at \in Buttons THEN e.at ELSE NoSong
recordTouched(e) == e.at = RecordArea
playTouched(e) == e.at = PlayArea

\* waveplay_start: the codec is set up for the song, or the song cannot be
\* started.  When the file cannot be opened, bSuccess is what an uninitialised
\* variable holds and the buffer may still show an old header, so that the
\* state of the card does not decide it.
waveplay_start(t) == Call(t, "deactivate") \/ NoCall

\* waveplay_execute, by its result: the buffered samples are to be sent, or the
\* song is at its end and starts again, or a block cannot be read.  Slot 111
\* lies behind the array gWavePlay: what is found there decides.
waveplay_execute(t, song, ok) ==
    \/ ok /\ waveplay_start(t)
    \/ /\ ok
       /\ \E n \in 1 .. MaxSamples : toPlay' = [toPlay EXCEPT ![t] = n]
       /\ UNCHANGED i2c
    \/ ~ok /\ NoCall /\ (faulty \/ ~CardReads \/ song = NoSong)

\* handle_key: the two volume registers are written when a key was pressed.
handle_key(t) == \E w \in KeyWrites : Call(t, w)

-----------------------------------------------------------------------------
\* The codec, as its callers meet it.  A transfer is a long row of pin changes:
\* a more urgent task that becomes ready meanwhile may begin one of its own in
\* the middle of it.  What comes of transfers that met is taken from
\* I2CBus: one that met no other is written and reported so; of one that did,
\* neither is sure, and its register may even get a wrong value.

TaskFrame ==
    UNCHANGED <<pc, cardVars, worldVars, bSdacrdReady, readVars, recordVars,
                keyVars, playVars>>

InTransfer(t) == bus[t] # "free"

\* These write the register of the interface.
Switches(t) == i2c[t] \in {"deactivate", "activate"}

\* I2C_Write begins.  AUDIO_FifoClear comes before the switching on.
I2CBegin(t) ==
    /\ Running(t) /\ i2c[t] # "none" /\ ~InTransfer(t)
    /\ LET met == {u \in Tasks : InTransfer(u)} IN
          bus' = [u \in Tasks |->
                    IF u \in met \/ (u = t /\ met # {}) THEN "met"
                    ELSE IF u = t THEN "alone" ELSE "free"]
    /\ fifo' = IF i2c[t] = "activate" THEN 0 ELSE fifo
    /\ UNCHANGED <<schedVars, callVars, codecActive, spoilt>> /\ TaskFrame

\* It ends: the task waits, whatever it returns, and goes on to the next write.
I2CEnd(t) ==
    /\ Running(t) /\ i2c[t] # "none" /\ InTransfer(t)
    /\ \E ok \in IF bus[t] = "alone" THEN {TRUE} ELSE BOOLEAN :
          Call(t, NextWrite(i2c[t], ok))
    /\ \/ bus[t] = "alone" /\ ~Switches(t) /\ UNCHANGED codecActive
       \/ /\ bus[t] = "alone" /\ Switches(t)
          /\ codecActive' = (i2c[t] = "activate")
       \/ bus[t] = "met" /\ codecActive' \in
             IF \E u \in Tasks : InTransfer(u) /\ Switches(u) THEN BOOLEAN
             ELSE {codecActive}
    /\ spoilt' = IF Switches(t) THEN bus[t] = "met" ELSE spoilt
    /\ bus' = [bus EXCEPT ![t] = "free"]
    /\ Delay(t, I2cTicks)
    /\ UNCHANGED fifo /\ TaskFrame

\* The loop of waveplay_execute sends a sample.  While the FIFO is full it goes
\* round without one and keeps the processor.
SendSample(t) ==
    /\ Running(t) /\ toPlay[t] > 0
    /\ \/ /\ fifo < FifoDepth
          /\ fifo' = fifo + 1
          /\ toPlay' = [toPlay EXCEPT ![t] = @ - 1]
       \/ fifo = FifoDepth /\ UNCHANGED <<fifo, toPlay>>
    /\ UNCHANGED <<schedVars, i2c, bus, codecActive, spoilt>> /\ TaskFrame

\* The codec takes a sample.  It makes the clock of the FIFO's reading side.
TakeSample ==
    /\ codecActive /\ fifo > 0
    /\ fifo' = fifo - 1
    /\ UNCHANGED <<schedVars, callVars, bus, codecActive, spoilt>> /\ TaskFrame

Codec(t) == I2CBegin(t) \/ I2CEnd(t) \/ SendSample(t)

-----------------------------------------------------------------------------
\* TaskReadSD.  It is the most urgent task: nothing comes between two of its
\* statements unless it waits.

\* It never touches what the other tasks keep.
ReadFrame ==
    UNCHANGED <<codecVars, worldVars, recordVars, keyVars, playVars>>

\* wait_sdcard_insert and, in SDLIB_Init, the reset of the card.
Detect ==
    /\ At(TaskReadSD, "detect")
    /\ cardReady' = FALSE
    /\ Delay(TaskReadSD, PollTicks)
    /\ Goto(TaskReadSD, "detected")
    /\ UNCHANGED <<callVars, card, bSdacrdReady, readVars>> /\ ReadFrame

\* SDLIB_Init after its pause: a card in the slot answers, unless a command to
\* it fails.
Detected ==
    /\ At(TaskReadSD, "detected")
    /\ \/ /\ card # "none"
          /\ cardReady' = TRUE
          /\ Goto(TaskReadSD, "mount")
          /\ UNCHANGED schedVars
       \/ /\ card = "none" \/ faulty
          /\ Delay(TaskReadSD, PollTicks)
          /\ Goto(TaskReadSD, "detect")
          /\ UNCHANGED cardReady
    /\ nTry' = 0
    /\ UNCHANGED <<callVars, card, bSdacrdReady, hFat, nFileNum, listed>>
    /\ ReadFrame

\* fatMountSdcard resets the card again, at most nMaxTry times.
Mount ==
    /\ At(TaskReadSD, "mount")
    /\ \/ /\ nTry < MaxMountTry
          /\ nTry' = nTry + 1
          /\ cardReady' = FALSE
          /\ Delay(TaskReadSD, PollTicks)
          /\ Goto(TaskReadSD, "mounting")
          /\ UNCHANGED hFat
       \/ /\ nTry = MaxMountTry
          /\ hFat' = FALSE
          /\ Goto(TaskReadSD, "exit")
          /\ UNCHANGED <<schedVars, nTry, cardReady>>
    /\ UNCHANGED <<callVars, card, bSdacrdReady, nFileNum, listed>> /\ ReadFrame

\* The card answers and the first partition is looked at: that of a good card
\* is found, unless a block cannot be read (fatMount) or malloc fails.  Or the
\* card does not answer, and is asked again.
Mounting ==
    /\ At(TaskReadSD, "mounting")
    /\ \/ /\ card = "none" \/ faulty
          /\ Delay(TaskReadSD, PollTicks)
          /\ Goto(TaskReadSD, "mount")
          /\ UNCHANGED <<cardReady, hFat>>
       \/ /\ card # "none"
          /\ cardReady' = TRUE
          /\ \/ card = "good" /\ hFat' = TRUE /\ Goto(TaskReadSD, "list")
             \/ /\ card = "bad" \/ faulty
                /\ hFat' = FALSE /\ Goto(TaskReadSD, "exit")
          /\ UNCHANGED schedVars
    /\ UNCHANGED <<callVars, card, nTry, bSdacrdReady, nFileNum, listed>>
    /\ ReadFrame

\* build_wave_play_list: the list is empty until the last file is looked at.
List ==
    /\ At(TaskReadSD, "list")
    /\ nFileNum' = 0
    /\ listed' = 0
    /\ Goto(TaskReadSD, "listing")
    /\ UNCHANGED <<schedVars, callVars, cardVars, bSdacrdReady, hFat, nTry>>
    /\ ReadFrame

\* Another playable file is opened and its header read: its slot is filled and
\* prepared by waveplay_start.
ListFile ==
    /\ At(TaskReadSD, "listing")
    /\ CardReads
    /\ \E n \in SongCounts : listed < n
    /\ listed' = listed + 1
    /\ waveplay_start(TaskReadSD)
    /\ UNCHANGED <<schedVars, pc, cardVars, bSdacrdReady, hFat, nFileNum, nTry>>
    /\ ReadFrame

\* The directory is at its end, or it can no longer be read.  Files that could
\* not be opened, or whose header could not be read, are left out of the list.
Listed ==
    /\ At(TaskReadSD, "listing")
    /\ listed \in SongCounts \/ ~CardReads \/ faulty
    /\ nFileNum' = listed
    /\ bSdacrdReady' = (bSdacrdReady \/ listed > 0)
    /\ Goto(TaskReadSD, "exit")
    /\ UNCHANGED <<schedVars, callVars, cardVars, hFat, listed, nTry>>
    /\ ReadFrame

\* Mutation: TaskReadSD waits at its end instead of deleting itself.
ExitReadSDStays ==
    /\ At(TaskReadSD, "exit")
    /\ Delay(TaskReadSD, PollTicks)
    /\ UNCHANGED <<pc, callVars, cardVars, bSdacrdReady, readVars>> /\ ReadFrame

ExitReadSD ==
    /\ At(TaskReadSD, "exit")
    /\ Delete(TaskReadSD)
    /\ Goto(TaskReadSD, "dormant")
    /\ nTry' = 0 /\ listed' = 0
    /\ UNCHANGED <<callVars, cardVars, bSdacrdReady, hFat, nFileNum>>
    /\ ReadFrame

ReadSD ==
    \/ Detect \/ Detected \/ Mount \/ Mounting
    \/ List \/ ListFile \/ Listed \/ ExitReadSD
    \/ Codec(TaskReadSD)

-----------------------------------------------------------------------------
\* TaskKeyHandler.  Between its statements the two other tasks may run as soon
\* as the delay they wait for ends.

KeyFrame == UNCHANGED <<codecVars, cardVars, worldVars, readVars, playVars>>

\* The next label of TaskKeyHandler when label l has nothing else to change.
Key(l, next) ==
    /\ At(TaskKeyHandler, l)
    /\ Goto(TaskKeyHandler, next)

\* With the card ready the touched button is looked up.  (The flag is only
\* lowered by this task, so it still holds when the touch is read.)
CheckCard ==
    /\ \/ ~bSdacrdReady /\ Key("checkCard", "create") /\ UNCHANGED songNummer
       \/ /\ bSdacrdReady
          /\ Key("checkCard", "select")
          /\ \E e \in Touches :
                songNummer' = IF e.TouchNum THEN getButtonId(e) ELSE songNummer
    /\ UNCHANGED <<schedVars, callVars, bSdacrdReady, recordVars, ticks>>
    /\ KeyFrame

\* OSTaskCreate starts TaskReadSD, or refuses because it still exists.
CreateReadSD ==
    /\ At(TaskKeyHandler, "create")
    /\ Create(TaskReadSD)
    /\ pc' = [pc EXCEPT ![TaskKeyHandler] = "select",
                        ![TaskReadSD] = IF TaskReadSD \in alive THEN @
                                        ELSE "detect"]
    /\ UNCHANGED <<callVars, bSdacrdReady, recordVars, keyVars>> /\ KeyFrame

Listable == songNummer < nFileNum /\ songNummer # NoSong

Select ==
    /\ \/ /\ Listable
          /\ Key("select", "loop")
          /\ waveplay_start(TaskKeyHandler)
          /\ ticks' = 0
       \/ ~Listable /\ Key("select", "record") /\ UNCHANGED <<callVars, ticks>>
    /\ UNCHANGED <<schedVars, bSdacrdReady, recordVars, songNummer>>
    /\ KeyFrame

\* Mutation: the finger is not looked at.
HeldForever(e) == bSdacrdReady /\ songNummer # NoSong

\* The song plays as long as the finger is down and on a button.
Held(e) == e.TouchNum /\ bSdacrdReady /\ songNummer # NoSong

Loop ==
    /\ \E e \in Touches :
         \/ Key("loop", "execute") /\ Held(e) /\ songNummer' = getButtonId(e)
         \/ Key("loop", "append") /\ ~Held(e) /\ UNCHANGED songNummer
    /\ UNCHANGED <<schedVars, callVars, bSdacrdReady, recordVars, ticks>>
    /\ KeyFrame

Execute ==
    /\ \E ok \in BOOLEAN :
         /\ waveplay_execute(TaskKeyHandler, songNummer, ok)
         /\ Key("execute", IF ok THEN "keys" ELSE "fail")
    /\ UNCHANGED <<schedVars, bSdacrdReady, recordVars, keyVars>> /\ KeyFrame

Fail ==
    /\ Key("fail", "keys")
    /\ bSdacrdReady' = FALSE
    /\ UNCHANGED <<schedVars, callVars, recordVars, keyVars>> /\ KeyFrame

Keys ==
    /\ Key("keys", "loop")
    /\ handle_key(TaskKeyHandler)
    /\ ticks' = IF ticks < MaxTicks THEN ticks + 1 ELSE ticks
    /\ UNCHANGED <<schedVars, bSdacrdReady, recordVars, songNummer>>
    /\ KeyFrame

\* Mutation: if(busyRecording) is missing.
AppendAlways ==
    /\ Key("append", "record")
    /\ \/ /\ count < MaxRecording
          /\ recordingPlaylist' = [recordingPlaylist EXCEPT ![count] =
                [songnummer |-> songNummer, playticks |-> ticks]]
          /\ count' = count + 1
       \/ /\ count = MaxRecording
          /\ UNCHANGED <<recordingPlaylist, count>>
    /\ songNummer' = NoSong /\ ticks' = 0
    /\ UNCHANGED <<schedVars, callVars, bSdacrdReady, busyRecording,
                   songRecording>>
    /\ KeyFrame

\* A press is added to the recording.  From entry MAX_RECORDING on the write
\* falls behind the array; count then stays at the bound of the model.
AppendEntry ==
    /\ Key("append", "record")
    /\ \/ /\ busyRecording /\ count < MaxRecording
          /\ recordingPlaylist' = [recordingPlaylist EXCEPT ![count] =
                [songnummer |-> songNummer, playticks |-> ticks]]
          /\ count' = count + 1
       \/ /\ ~busyRecording \/ count = MaxRecording
          /\ UNCHANGED <<recordingPlaylist, count>>
    /\ songNummer' = NoSong /\ ticks' = 0
    /\ UNCHANGED <<schedVars, callVars, bSdacrdReady, busyRecording,
                   songRecording>>
    /\ KeyFrame

RecordButton ==
    /\ \E e \in Touches :
         \/ /\ Key("record", "toggle")
            /\ recordTouched(e) /\ e.TouchNum
            /\ Delay(TaskKeyHandler, KeyTicks)
         \/ /\ Key("record", "play")
            /\ ~(recordTouched(e) /\ e.TouchNum)
            /\ UNCHANGED schedVars
    /\ UNCHANGED <<callVars, bSdacrdReady, recordVars, keyVars>> /\ KeyFrame

Toggle ==
    /\ busyRecording' = ~busyRecording
    /\ songRecording' = busyRecording
    /\ Key("toggle", IF busyRecording THEN "play" ELSE "clear")
    /\ UNCHANGED <<schedVars, callVars, bSdacrdReady, recordingPlaylist, count,
                   keyVars>>
    /\ KeyFrame

\* Mutation: the loop stops one entry short.
ClearShort ==
    /\ Key("clear", "play")
    /\ recordingPlaylist' = [n \in Entries |->
          IF n < MaxRecording - 1 THEN Blank ELSE recordingPlaylist[n]]
    /\ count' = 0
    /\ UNCHANGED <<schedVars, callVars, bSdacrdReady, busyRecording,
                   songRecording, keyVars>>
    /\ KeyFrame

Clear ==
    /\ Key("clear", "play")
    /\ recordingPlaylist' = [n \in Entries |-> Blank]
    /\ count' = 0
    /\ UNCHANGED <<schedVars, callVars, bSdacrdReady, busyRecording,
                   songRecording, keyVars>>
    /\ KeyFrame

\* Mutation: songRecording is not asked for.
PlayUnrecorded(e) == playTouched(e) /\ e.TouchNum /\ ~playingRecording

PlayWanted(e) ==
    playTouched(e) /\ songRecording /\ e.TouchNum /\ ~playingRecording

\* Mutation: the flag is raised with the touch, not by the task.
PlayButtonRaises ==
    /\ \E e \in Touches :
         \/ /\ Key("play", "startPlay")
            /\ PlayWanted(e)
            /\ playingRecording' = TRUE
            /\ Delay(TaskKeyHandler, PollTicks)
         \/ /\ Key("play", "mainKeys")
            /\ ~PlayWanted(e)
            /\ UNCHANGED <<schedVars, playingRecording>>
    /\ UNCHANGED <<callVars, bSdacrdReady, recordVars, keyVars, codecVars,
                   cardVars, worldVars, readVars, i, j>>

PlayButton ==
    /\ \E e \in Touches :
         \/ /\ Key("play", "startPlay")
            /\ PlayWanted(e)
            /\ Delay(TaskKeyHandler, PollTicks)
         \/ Key("play", "mainKeys") /\ ~PlayWanted(e) /\ UNCHANGED schedVars
    /\ UNCHANGED <<callVars, bSdacrdReady, recordVars, keyVars>> /\ KeyFrame

CreatePlayRecording ==
    /\ At(TaskKeyHandler, "startPlay")
    /\ Create(TaskPlayRecording)
    /\ pc' = [pc EXCEPT ![TaskKeyHandler] = "mainKeys",
                        ![TaskPlayRecording] =
                            IF TaskPlayRecording \in alive THEN @ ELSE "start"]
    /\ UNCHANGED <<callVars, bSdacrdReady, recordVars, keyVars>> /\ KeyFrame

MainKeys ==
    /\ Key("mainKeys", "pause")
    /\ handle_key(TaskKeyHandler)
    /\ UNCHANGED <<schedVars, bSdacrdReady, recordVars, keyVars>> /\ KeyFrame

Pause ==
    /\ Key("pause", "checkCard")
    /\ Delay(TaskKeyHandler, KeyTicks)
    /\ UNCHANGED <<callVars, bSdacrdReady, recordVars, keyVars>> /\ KeyFrame

KeyHandler ==
    \/ CheckCard \/ CreateReadSD \/ Select
    \/ Loop \/ Execute \/ Fail \/ Keys \/ AppendEntry
    \/ RecordButton \/ Toggle \/ Clear
    \/ PlayButton \/ CreatePlayRecording \/ MainKeys \/ Pause
    \/ Codec(TaskKeyHandler)

-----------------------------------------------------------------------------
\* TaskPlayRecording

PlayFrame ==
    UNCHANGED <<codecVars, cardVars, worldVars, bSdacrdReady, readVars,
                recordVars, keyVars>>

Play(l, next) ==
    /\ At(TaskPlayRecording, l)
    /\ Goto(TaskPlayRecording, next)

StartPlay ==
    /\ Play("start", "while")
    /\ playingRecording' = TRUE
    /\ UNCHANGED <<schedVars, callVars, i, j>> /\ PlayFrame

\* while(playingRecording), and the end of the task after it.
WhilePlaying ==
    /\ \/ /\ playingRecording
          /\ Play("while", "entry")
          /\ i' = 0 /\ j' = 0
          /\ UNCHANGED schedVars
       \/ /\ ~playingRecording
          /\ Play("while", "dormant")
          /\ i' = 0 /\ j' = 0
          /\ Delete(TaskPlayRecording)
    /\ UNCHANGED <<callVars, playingRecording>> /\ PlayFrame

\* for(j = 0; j <= playticks; j++): the result of the call is ignored.
PlayEntry ==
    /\ \/ /\ Play("entry", "keys")
          /\ j <= recordingPlaylist[i].playticks
          /\ \E ok \in BOOLEAN : waveplay_execute(TaskPlayRecording,
                                          recordingPlaylist[i].songnummer, ok)
       \/ /\ Play("entry", "next")
          /\ j > recordingPlaylist[i].playticks
          /\ NoCall
    /\ UNCHANGED <<schedVars, playVars>> /\ PlayFrame

EntryKeys ==
    /\ Play("keys", "stop")
    /\ handle_key(TaskPlayRecording)
    /\ UNCHANGED <<schedVars, playVars>> /\ PlayFrame

StopPlaying ==
    \E e \in Touches : playingRecording' = (playingRecording /\ ~playTouched(e))

StopButton ==
    /\ Play("stop", "entry")
    /\ StopPlaying
    /\ j' = j + 1
    /\ UNCHANGED <<schedVars, callVars, i>> /\ PlayFrame

NextEntry ==
    /\ Play("next", IF i + 1 < PlayEntries THEN "entry" ELSE "pause")
    /\ StopPlaying
    /\ i' = i + 1
    /\ j' = 0
    /\ UNCHANGED <<schedVars, callVars>> /\ PlayFrame

PausePlaying ==
    /\ Play("pause", "flag")
    /\ Delay(TaskPlayRecording, PollTicks)
    /\ UNCHANGED <<callVars, playVars>> /\ PlayFrame

\* Mutation: the flag is left to the stop button.
EndPlayingLoops ==
    /\ Play("flag", "while")
    /\ UNCHANGED <<schedVars, callVars, playVars>> /\ PlayFrame

EndPlaying ==
    /\ Play("flag", "while")
    /\ playingRecording' = FALSE
    /\ UNCHANGED <<schedVars, callVars, i, j>> /\ PlayFrame

PlayRecording ==
    \/ StartPlay \/ WhilePlaying \/ PlayEntry \/ EntryKeys
    \/ StopButton \/ NextEntry \/ PausePlaying \/ EndPlaying
    \/ Codec(TaskPlayRecording)

-----------------------------------------------------------------------------
\* The surroundings: the clock, the user at the card slot, the codec.

AppFrame ==
    UNCHANGED <<pc, callVars, codecVars, bSdacrdReady, readVars, recordVars,
                keyVars, playVars>>

ClockTick == Tick /\ UNCHANGED <<cardVars, worldVars>> /\ AppFrame

\* A card is pulled out, put in or replaced by one of another kind.
ChangeCard ==
    /\ card' \in Cards \ {card}
    /\ cardReady' = FALSE
    /\ UNCHANGED <<schedVars, worldVars>> /\ AppFrame

\* From now on nothing fails of what is asked of a good card.
FaultsEnd ==
    /\ faulty /\ faulty' = FALSE
    /\ UNCHANGED <<schedVars, cardVars, untouched>> /\ AppFrame

\* From now on no finger is on the screen.
HandsOff ==
    /\ ~untouched /\ untouched' = TRUE
    /\ UNCHANGED <<schedVars, cardVars, faulty>> /\ AppFrame

Init ==
    /\ alive = {TaskKeyHandler}
    /\ dly = [t \in Tasks |-> 0]
    /\ pc = [t \in Tasks |-> IF t = TaskKeyHandler THEN "checkCard"
                             ELSE "dormant"]
    /\ i2c = [t \in Tasks |-> "none"] /\ toPlay = [t \in Tasks |-> 0]
    /\ bus = [t \in Tasks |-> "free"]
    /\ codecActive = TRUE /\ fifo = 0 /\ spoilt = FALSE
    /\ card \in Cards /\ cardReady = FALSE
    /\ faulty = Faults /\ untouched = FALSE
    /\ bSdacrdReady = FALSE /\ hFat = FALSE
    /\ nFileNum = 0 /\ listed = 0 /\ nTry = 0
    /\ busyRecording = FALSE /\ songRecording = FALSE
    /\ playingRecording = FALSE
    /\ recordingPlaylist = [n \in Entries |-> Blank]
    /\ songNummer = NoSong /\ ticks = 0 /\ count = 0
    /\ i = 0 /\ j = 0

Next ==
    \/ ReadSD \/ PlayRecording \/ KeyHandler
    \/ ClockTick \/ ChangeCard \/ FaultsEnd \/ HandsOff \/ TakeSample

Spec == Init /\ [][Next]_vars

\* A ready task executes thousands of instructions between two clock ticks, so
\* one that gets the processor again and again makes progress.  TaskReadSD is
\* never preempted.  The codec, while it is active, takes 8000 samples a second
\* or more.  Nothing is assumed of the user or of the card.
Fairness ==
    /\ WF_vars(ClockTick)
    /\ WF_vars(TakeSample)
    /\ WF_vars(ReadSD)
    /\ SF_vars(PlayRecording)
    /\ SF_vars(KeyHandler)

FairSpec == Spec /\ Fairness

-----------------------------------------------------------------------------
\* The flag that keeps a second playback from being started (main.c:114) is
\* only up while TaskPlayRecording exists to take it down again: were it left
\* up behind, the play button would be dead until the next reset.
PlayingFlagOwned == playingRecording => TaskPlayRecording \in alive

\* From the moment the list is cleared (main.c:99) to the end of the next
\* recording, and as long as that is kept, it holds nothing of an earlier one.
NoLeftover ==
    songRecording \/ (busyRecording /\ pc[TaskKeyHandler] # "clear") =>
        \A n \in Entries : n >= count => recordingPlaylist[n] = Blank

\* waveplay_start switches the codec's interface off and on again around the
\* new sample rate (audio_f.c:184-198), waiting after each write, and other
\* tasks may do the same meanwhile; nobody looks whether the writes succeed.
\* Once none of them is within it the interface is on, however they took turns,
\* unless the last transfer to its register met another one on the bus.
Restarting(t) == i2c[t] \in {"deactivate", "setRate", "activate"}
CodecLeftActive ==
    (\A t \in Tasks : ~Restarting(t)) => codecActive \/ spoilt

\* The card is only announced ready by a task that has mounted it and put a
\* song on the list (main.c:39-42).
ReadyAfterList ==
    [][~bSdacrdReady /\ bSdacrdReady' => hFat' /\ nFileNum' > 0]_vars

\* Nothing is added to or taken from a finished recording until the user
\* starts a new one, whatever is played, touched or unplugged meanwhile.
FinishedRecordingFrozen ==
    [][songRecording /\ songRecording' => UNCHANGED recordingPlaylist]_vars

\* Playback is only started on a finished recording (main.c:113): not while
\* one is being made, although the test lies 100 ticks before the start.
PlaysFinishedRecording ==
    [][TaskPlayRecording \notin alive /\ TaskPlayRecording \in alive'
            => songRecording /\ ~busyRecording]_vars

\* A player waits for room in the FIFO of a codec that is switched off.  It keeps
\* the processor meanwhile, so that nobody less urgent gets on.
Stalled ==
    ~codecActive /\ fifo = FifoDepth /\ \E t \in Tasks : toPlay[t] > 0

\* A card that stays in the slot is announced, also after any number of
\* removals, failed mounts, short lists and read errors: TaskReadSD is started
\* again each time (main.c:68), unless a player waits for the codec for ever.
CardBecomesReady ==
    <>[](card = "good" /\ ~faulty) => []<>bSdacrdReady \/ <>[]Stalled

\* Every playback ends, whatever is touched, played and listed meanwhile, also
\* when the list is cleared under it (main.c:99) or a song of it does not play;
\* or it hangs, and then only in the loop that waits for room in the FIFO of a
\* codec that nobody switches on again (audio_f.c:241).
PlaybackEnds == []<>(TaskPlayRecording \notin alive) \/ <>[]Stalled

\* Once the user keeps off the screen, TaskKeyHandler comes back to the head
\* of its loop again and again, with the same exception.
FingerLiftReturns ==
    <>[]untouched => []<>(pc[TaskKeyHandler] = "checkCard") \/ <>[]Stalled

-----------------------------------------------------------------------------
\* What comments say of the program and the code does not do.

\* main.h:23, bSdacrdReady "keeps track of whether the sd card is ready for
\* use": the volume is mounted and its songs are listed.
ReadyMeansMounted == bSdacrdReady => hFat /\ nFileNum > 0
=============================================================================
