# A verification project for the sound board (KBSesa2)

The program is a sampler on an Altera DE2-115 board: it reads `.wav` files from
an SD card, shows one button per song on a touch screen, plays the song whose
button is touched, and records and replays a sequence of touches. It is C code
on a Nios II processor with the uC/OS-II kernel (`src/C-Code`); the FPGA design
(`src/Verilog`) wires the devices together.

This directory holds TLA+ modules that model the program, TLC configurations
that check them on small instances, and proofs that TLAPS checks for every
instance.

## 1. Inventory

| component | state | operations | interacts with |
|---|---|---|---|
| application tasks (`KBS/main.c`, `main.h`) | `bSdacrdReady`, `recordingPlaylist`, the three recording flags, the locals of the tasks | `TaskReadSD`, `TaskKeyHandler`, `TaskPlayRecording` | all of them share globals without a lock; the touch event comes from an interrupt handler |
| task scheduling (`KBS_bsp/UCOSII/src/os_core.c`, `os_task.c`, `os_time.c`) | task control blocks, ready bitmap, delays | `OSTaskCreate`, `OSTaskDel`, `OSTimeDly`, `OSTimeTick`, `OS_Sched` | runs the tasks by priority |
| song playback (`KBS/audio_f.c`) | one `PLAYWAVE_CONTEXT` per song: handle, sector buffer, play, read and end position; `volume` | `build_wave_play_list`, `waveplay_start`, `waveplay_execute`, `handle_key` | called by all three tasks; FAT, codec |
| codec (`terasic_lib/AUDIO.c`) and its bus (`I2C.c`) | shadow registers, the level of two pins | register writes, FIFO | called by playback; each write waits 7 ms |
| touch (`terasic_lib/multi_touch2.c`, `I2C_core.c`) | the event `*mtc2` | `mtc2_ISR` | interrupt; read by two tasks |
| screen (`KBS/graphic_f.c`, `graphic_lib`) | frame buffer | drawing, `getButtonId`, `recordTouched`, `playTouched` | called by the tasks |
| FAT (`terasic_fat`) | volume, pool of file handles, sector cache | mount, browse, open, read, seek, close | called by playback and `TaskReadSD` |
| SD card (`terasic_sdcard`) | `gSdInfo`, card state | initialise, read block, write block | called by FAT |
| wave header (`terasic_lib/WaveLib.c`) | none | chunk walk and field getters | called by playback |
| events of the kernel (`os_sem.c`, `os_flag.c`, `os_task.c`) and its other services | counts, flags, wait lists | pend, post, abort, accept, time-outs, suspension | used by the drivers; the application's two semaphores are created and never used |
| JTAG UART driver (`KBS_bsp/drivers`) and HAL | two rings, two locks, a group of flags, the enable bits of the device | `write`, `read`, the interrupt handler, an alarm | every `printf` of the program; the kernel's events |
| FPGA design (`src/Verilog`) | the codec's FIFO of samples | the codec takes a sample | generated system and pin wiring; the FIFO is filled by playback |

Hard behaviours, in one line each (the list with its lines is `hazards` in
`PROJECT.json`): preemption between a test and the action it guards; flags
lowered by one task and looked at too late by another; a list cleared while it
is played; codec registers written by three tasks in turns; a player that waits, without a
pause, for room in the FIFO of a codec somebody has switched off; a card pulled out in
the middle of anything; a pause of 100 ms between a decision and its effect;
files opened and never closed; a play position that must stay inside one sector
buffer; two wires that tasks of different priority drive by turns; rings whose
other end is an interrupt handler; a time-out, a post and an abort that all come
before the waiting task runs; names put together from entries in reverse order
while another search goes through the same directory.

## 2. The modules and how they fit together

They were written in this order, the behaviour a user notices first.

| module | stands for | uses |
|---|---|---|
| `PrioSched` | what the application relies on from the kernel | |
| `KbsTasks` | `main.c` and, as its tasks see them, the calls into playback, FAT and SD card | extends `PrioSched` |
| `SongStream` | what playing a song promises | |
| `WavePlayer` | one `PLAYWAVE_CONTEXT` and its calls (`audio_f.c`) | implements `SongStream` |
| `FileAccess` | what reading a file promises | |
| `FatFile` | `Fat_FileOpen/Seek/Read/Close` with cluster chain and sector cache | implements `FileAccess` |
| `SdCard` | `SDLIB_Init`, `SDLIB_ReadBlock512` and the card | |
| `UcosSched` | the scheduler of uC/OS-II | implements `PrioSched` |
| `I2CBus` | the register writes of `AUDIO.c` over `I2C.c`, pin by pin, and the codec | |
| `FatDir` | `build_wave_play_list` with the directory searches and opens it makes | |
| `WaveChunks` | the chunk walk of `WaveLib.c` | |
| `WaveSongs` | the songs of `WavePlayer` as files on the card | extends `WavePlayer` and `WaveChunks` |
| `UcosEvents` | semaphores, event flags, time-outs and suspension | |
| `ByteChannel` | what a buffered character device promises | |
| `JtagUart` | the driver of the JTAG UART with handler and alarm | implements `ByteChannel` twice |
| `JtagUartIsr` | the same, with a handler that prints | extends `JtagUart` |

`MC*` modules hold the values the configurations give to constants that are
functions, sequences or sets of records. `*_proofs` modules hold the theorems; `Drivers_proofs` those about both drivers that set pins themselves,
`SdCard` and `I2CBus`, which is why the names of the latter's specification carry `Bus`.

A layer never contains the one below: it is given what the lower one promises.
`KbsTasks` runs on `PrioSched`, and `UcosSched` is shown to implement
`PrioSched`, so that the scheduling `KbsTasks` assumes is the one the kernel's
tables produce. `WavePlayer` lets each read succeed with the bytes at its
position or fail, as `FatFile` is shown to do; its handle becomes `Foreign` when a read
fails, and may when one succeeds at the beginning of a cluster. Those are the steps in which
`FatFile` loses the chain (`lost`), if it is read as `WavePlayer` reads: `ReadsBySectors` says that
the player asks for no more than the rest of a sector, `SectorsLoseBetweenClusters` what
`FatFile` does with such a caller (`SectorSpec`). That holds of files whose first cluster has a number
of 16 bits, and the songs of `WavePlayer` and the files of `FatDir` are taken to be such
files: all of a FAT16 volume are, on FAT32 those that begin below cluster 65536 (section 5). `FatFile` lets each
sector be read or not, which is what `SDLIB_ReadBlock512` reports, with the
exception described in section 5. `FatDir` lets each entry be read or not in the
same way, and tells `KbsTasks` what a listing may come to. What `KbsTasks` assumes of a register
write is what `I2CBus` shows of it: one that meets no other on the bus reaches its register and
reports so (`SuccessMeansWritten`, `CopyIsTrue`); of those that meet neither is sure. `JtagUart` waits on one
semaphore and one group of flags as `UcosEvents` has them. `UcosEvents` makes each
half of a call one step, because `UcosSched` shows that a task is preempted at
their ends and in between as `Running` allows.

### KbsTasks

A step is what a task does between two points where another task, or the
interrupt handler, can see or change what it uses. `Running(t)` guards every
step of a task: on this kernel a task only loses the processor to a more urgent
one, and the priorities (4, 6, 8) are those of `main.c`. `pc[t]` is the place
in the task's source, `i2c[t]` the codec register a called function of playback
has still to write: each write is followed by a pause in which others run. `toPlay[t]` are the
samples a `waveplay_execute` has still to put into the FIFO of the codec (`fifo`), which only
an active codec empties; while it is full the loop goes round and keeps the processor from every
less urgent task.

| actions | code |
|---|---|
| `Detect`, `Detected` | the loops of `wait_sdcard_insert`, with `SDLIB_Init` |
| `Mount`, `Mounting` | `fatMountSdcard`: ten attempts, pauses, reset in between |
| `List`, `ListFile`, `Listed` | `build_wave_play_list` and the flag raised after it |
| `ExitReadSD` | `OSTaskDel(OS_PRIO_SELF)` |
| `CheckCard`, `CreateReadSD` | the test of `bSdacrdReady` and, a step later, the task created |
| `Select`, `Loop`, `Execute`, `Fail`, `Keys` | the touched song: start, the loop while the finger is down, what follows an error, the volume keys |
| `RecordButton`, `Toggle`, `Clear` | recording: entry appended, button, flags and list |
| `PlayButton`, `CreatePlayRecording`, `MainKeys`, `Pause` | the rest of the handler's round |
| `StartPlay` .. `EndPlaying` | the nested loops of `TaskPlayRecording` |
| `I2CBegin`, `I2CEnd` | one codec register written by the call a task is in: the transfer begins, another task's may fall into it, and it ends with a result that only `handle_key` looks at |
| `SendSample`, `TakeSample` | a round of the loop that fills the FIFO, and the codec at its other end |
| `ClockTick`, `ChangeCard`, `FaultsEnd`, `HandsOff` | the clock, the user at the card slot, and the moments from which on a good card does what it is asked and no finger is on the screen |

Abstractions: a touch is the button it lies in, and since the interrupt handler may publish an
event between any two instructions, every look at `*mtc2` finds any of them (`Touches`). A transfer
is its beginning and its end, with what `I2CBus` shows may come of it: one that meets another may
report anything and leave the interface on or off (`spoilt` observes it). `faulty` stands for a
read, a command or a `malloc` that fails on a good card: initialisation, mounting, listing and
playing may then fail at any step, and a listing end early. A task waits for the FIFO with its own
test; that a more urgent one fills the last place between a test and the write after it, so that a
sample is dropped, is left out. What is drawn or printed is left out, printing because `JtagUart` lets
it end always (`WriteReturns`) and it changes nothing the tasks look at; locals are
reset when dead; the volume is only the register writes a change makes (`KeyWrites`); whether the
slot at 111, behind `gWavePlay`, plays is left open.

### WavePlayer and SongStream

`Start` is `waveplay_start`, `Relist` `build_wave_play_list` for the slot, and
the four `Execute*` actions are the four ways through `waveplay_execute`:
restart at the end, bytes still buffered, refill, failed read. A byte is the pair of
its file and place, so a wrong byte shows. `SongStream` sees only what was
sent, and says that the bytes sent one after another are the song's, without
gap or repetition, until a fault; after it only a good start mends the stream.

The header is taken to lie in the first sector, as the code takes it;
one-sector reads succeed or fail as a whole; one caller uses a slot at a time
(section 6). `waveplay_start` after a failed open may return TRUE, because
`bSuccess` is read uninitialised. The result of the restart at the end of a song
is dropped, as in the code.

### FatFile and FileAccess

`chain` is the file a handle was opened for. The handle is given `FirstLogicalCluster`, the lower
16 bits of the number of its first cluster, by open and seek alike; the upper half is read from the
directory and never used. A step is what lies between two reads of a sector: `Move`/`Moved` walk the chain
up to the position, `Skip`, `Copy`/`CopyFails` go through the sectors of a
cluster, `NextCluster` and, after a failure, `FailsOn` look up the table, `Finish` returns. Data, table
and directory go through the one cache (`Secter_Index`, `Secter_Data`), which a
failed transfer leaves overwritten and unnamed. Positions wrap at `Word`.
`fatNextCluster` may name any value when the table cannot be read: that is its
uninitialised variable.

`FileAccess` says what a caller may rely on: a read delivers the next bytes or
fails. The promise ends (`whole` falls) with the first failure, and with a fault on the way
into another cluster, of which the caller need not be told; the next seek or open
renews it. Of files that begin at cluster 65536 or later nothing is promised (`Promised`). A failed read cannot be repeated: when a sector cannot be read the loop is left, but the
code after it still looks up the next cluster and counts it (`FailsOn`), so that the handle
is behind its position (section 5). `lost` is the same in `FatFile`: an observer of when
the handle is not on the chain of its file, no variable of the program.

### SdCard

`SDLIB_Init` is its sequence of commands: `Reset` (CMD0), `ResetAgain` (CMD8, and the
second CMD0 of a version 1 card), the polls of ACMD41 and, in `Identify`, the
fixed rest (`Script`). The card is the state machine of the SD specification as far as
these commands drive it, modelled from the checks the code makes on
its answers. A command may fail to reach the card, its answer may fail to
come or come damaged; crc7 shows that in all answers but the one to ACMD41, which
is taken to arrive whole or not at all. `ReadCall`, `ReadCommand`, `ReadStart`
and `ReadBytes` are `SDLIB_ReadBlock512`, cut where `SDLIB_Init` of the more
urgent task may break in; a reader itself only runs while `SDLIB_Init`
is off or asleep. `undisturbed` observes that no such break and no change of the card
fell into a read; `calm` that the user and the line leave the card alone from now on.
The RCA is 0 or the card's own (1); one read is outstanding.

### UcosSched and PrioSched

`OSTaskCreate` is `Reserve`, `TakeTCB`, `LinkTCB` or `Undo`; `OSTaskDel` is
`OSTaskDel` and `UnlinkTCB`; `OSTimeDly` is one critical section and the
`OS_Sched` after it. `Interrupt` is any handler, the clock's among them, with
`OSIntExit` after it; handlers do not nest since the port runs them with
interrupts disabled. The ready table is kept as rows of bits and searched as the
kernel does. The refinement maps `alive` to the priorities whose block exists and
is not being deleted, and `dly` to `OSTCBDly`. The chain is the set of its tasks with the
idle task last. A task only deletes itself; events and suspension are in
`UcosEvents`; priority changes are not used, the conversion in `OSTimeDlyHMSM` is
left out.

### I2CBus

`RegWrite` is the entry into a register write: AUDIO.c's copy is changed, then
`I2C_Write` begins. Every step after it, `InCall` or `EndOfCall`, sets one pin as
`i2c_start`, `i2c_write` and `i2c_stop` do, in their order (`StartPins`, `WritePins`,
`StopPins`); `NextStage` is what `I2C_Write` does with `bSuccess`. Preemption is that of
the kernel: a more urgent task may begin between any two pins and runs until its
transfer is over; pauses between the writes of one call let the others in.
Three tasks write registers: `TaskReadSD` (4) tries out each file it lists
(`audio_f.c:132`), `TaskPlayRecording` (6) and `TaskKeyHandler` (8) start songs and change
the volume. So a task may also meet a write of the very register it is writing
(`rival`): then the earlier one reports success, and the register has the later
one's data.
The codec is the standard slave: it looks at both wires, takes bits at rising clocks,
acknowledges its address and every byte after it. Its ninth data bit, which the code packs
into the control byte, is abstracted with the address of the register. `stronger` is the level
that wins when master and codec both drive the data wire; it is a property of the
board, so both are tried and the theorems hold for both.

### FatDir and WaveChunks

A step of `FatDir` looks at one entry of the directory or reads the first sector of a file.
`SkipEntry`, `AddPiece`, `ListFinds` and `ListEnds` are `Fat_FileBrowseNext` called by
`build_wave_play_list`, `OpenPasses`, `OpenFinds` and `OpenFails` the same
function called by `Fat_FileOpen`, which has a search handle of its own;
`ReadHeader`, `HeaderFails` and `ReadFirst` what is then done with the file. A name
is the sequence of the pieces it comes in; names are taken without blanks, since
the code strips them. The directory ends with its mark, as one with a free entry does, and piece
numbers begin at 1; in a directory without a free entry the search runs on (section 6). After a failed read the code asks `fatIsLastDir` of a null pointer,
which reads address 0 and changes nothing. Malloc is a number of handles.

`WaveChunks` is the walk over the chunk heads of a sector: it stops at the first head that has the
name looked for, or lies outside. Behind the heads of the file the walk meets what the
memory behind the buffer holds (`Behind`). `WaveSongs` makes the songs of `WavePlayer` from files,
also with a chunk before the samples, and `PlaysSamples` says that what is sent
are the bytes of a data chunk.

### UcosEvents

One semaphore and one group of flags stand for all: events do not touch each
other. `OSSemPend` and `OSFlagPend` are the first half of a call, up to its
`OS_Sched`, `SemPended` and `FlagPended` the second, run when the task has the
processor again; posts, aborts, ticks, suspension and resumption come in between.
Calls that an interrupt handler may make need no running task. `MaxCnt` is
65535 in the code.

### JtagUart, JtagUartIsr and ByteChannel

A step of a task is what lies between two accesses to what the handler also uses:
`WriteLook` takes the room, `WriteCopy` copies and moves `tx_in`,
`WriteKick` enables the interrupt, `FlagPend` and `FlagWoken` are the two halves of the
wait, and the reader has the same with the lock let go before `ReadEnable`. A step of
the handler is an access to the device (`IrqControl`, `IrqReceive`, `IrqSend`
and the ends of their loops); while it runs only the host moves. `ByteChannel` is what
both rings promise although neither end of a ring takes a lock against the
other. The FIFOs are counters, a received byte is its number.

`JtagUart` has tasks for callers only. In this program the touch handler
prints too when a transfer fails: `JtagUartIsr` adds that action, and what
`JtagUart` promises is lost (section 5). The handler is one step, as interrupts are disabled in it;
if its bytes do not fit and the host is not known to be silent it stays in its loop
for ever (`isr.at = "print"`), and only the device moves on.

## 3. The runs

Deadlock is checked in every run but two: in `fat_dir` the listing comes to its end, in
`print_in_handler` the processor may stay in the handler.

| run | what it asks | bounds, and why they suffice |
|---|---|---|
| `record` | recording, playing and starting songs by three interleaved tasks: a playback begins with a finished recording, a finished recording is not added to, no entry of an old one is left over; the flag `playingRecording` is up only while its task lives; the codec is on whenever nobody is restarting a song, unless the last transfer to it met another; playbacks and the rounds of the screen's handler end, unless a player waits for the FIFO for ever | one button, two entries (one to keep, one to run over), no ticks inside an entry; every touch at every look, a volume key held down so that each task writes to the bus all the time, a FIFO of one sample. The card is a good one without faults; songs fail all the same, through the slot behind the list (111), restarts come at any call |
| `card` | cards put in, pulled out, failing to answer, to mount, to be listed or read, with songs playing and the volume being changed: a card that stays and has no more faults is announced again and again | one button, all three cards, faults at any time and an end of them, two attempts to mount; no recording and so no playback, since the touches are those of a song or of none |
| `wave` | the samples are one song's in order, and those of its data chunk; pointers stay in the buffer; nothing past the end; before the end there is always a frame to send, and a song of whole frames ends | sectors of 8 bytes, frames of 4, clusters of two sectors; songs longer than a cluster, ending inside a sector, shorter than a sector, empty, with an odd header, with a chunk before the samples |
| `fat_read` | from an open or a seek on reads deliver a file whose first cluster a handle knows, until one fails or a fault hits the way into another cluster; the cache holds what it names; every read returns | two files, one of three clusters out of order (2, 4, 3), and one at cluster 5, of which a handle keeps 2 (`Half` is 3), so that the other file is read; two sectors of two bytes each, sizes 2 and 3: inside a sector, a whole one, across one, across a cluster; positions to 8, wrapping at 16 |
| `fat_dir` | every file is found once, under its name; what is on the list is a wave file; without a fault no wave file is missing; where the handles go | every directory of up to four of nine entries, well formed or not: both kinds of name, two pieces, doubled names, the volume label, a deleted entry; three handles, so that they run out |
| `sd` | `SDLIB_Init` reports success only for a card that is set up; an undisturbed read reads the block it was asked for; a card left alone comes up | three kinds of card, two blocks, up to two busy polls and as many in the time limit: a card that is just in time, and one that lost polls to faults and is not |
| `i2c` | a write that reports success reached its register; the copy of a register is true unless its own last transfer met another one | two tasks: the less urgent writes two registers and stops at a failure, or writes a third one twice whatever happens; the other only does the latter, so that they meet on one register and on different ones. Bytes of two bits, so that a transfer can be broken off inside a byte, at its end and in its acknowledgement. What a third task adds is left to the proof |
| `sched` | the task with the processor is the most urgent ready one; the processor is kept through a deletion; creators and deletions in the middle of each other lose neither a priority nor a control block; all of `PrioSched` | priorities 4, 6, 8, 12 and the idle 20 in three rows of the ready table; four control blocks for five tasks, so that they run out; delays up to 2 |
| `events` | ready exactly when nothing keeps a task back; no signal lost or doubled; nobody waits for what is there | three tasks, time-outs up to 2, a count up to 2, two flags; waits for any, for all, and for a flag to be clear, with and without consuming |
| `jtag` | both rings are channels; interrupts switched off are switched on again; a call of write returns; what is written is sent if the host reads | two writers, one of which does not block, and a reader; rings of three places, FIFOs of one, up to two bytes a call: every copy meets the end of the ring, a full ring and a full FIFO; either three bytes written or four typed, since the directions share only locks of their own, the flags and the handler |
| `ready_means_mounted`, `print_in_handler` | see section 5 | one button, all three cards; one writer |

In `i2c` and `fat_read` the modules' assumptions hold for the widths of the program too; only the
instances are small. The type invariants are proved and not run again.

Fairness, each where the code justifies it:

- `KbsTasks`: weak fairness of the clock and of `TaskReadSD`, which is the most
  urgent task; strong fairness of the other two, which run whenever the more urgent
  ones wait, since these wait for ticks in every round; weak fairness of the codec, which
  takes samples as long as it is on. Nothing is
  assumed of the user, of what a look at the touch finds, or of the card. A task that waits for the
  FIFO is scheduled as fairly as any: it is the FIFO that does not empty (`Stalled`).
- `WavePlayer`: `waveplay_execute` is called on, as the loops of both callers
  do while the song is wanted.
- `FatFile`: the steps inside a read go on. The caller need not call.
- `SdCard`: `wait_sdcard_insert` calls `SDLIB_Init` in a loop in the most urgent task.
- `JtagUart`: weak fairness of the handler, which nothing interrupts; strong fairness of
  the alarm and of each call under way, which lose the processor to handlers
  and to each other but get it again. Nothing is assumed of the host, and no task
  has to call.

`PlaybackEnds` and `FingerLiftReturns` do not hold without their exception: in `record` a broken-off
"activate" leaves the codec off, and whoever sends the next sample to a full FIFO waits for
ever, with everybody less urgent (section 5). The property says that nothing else keeps them from ending.
`CardBecomesReady` needs the exception only where there are playbacks: `TaskReadSD` is more urgent than
any player, but it is `TaskKeyHandler` that starts it. `CodecLeftActive` does not hold without its
exception either.

`CardComesUp`, `CardBecomesReady` state what the program owes to a card that is
left alone, `AllSent` what it owes to a host that reads; that the card is left alone and
the host reads is their hypothesis, never a fairness.

## 4. The proofs

TLAPS checks every theorem below for all values of the constants that satisfy the
assumptions of the module (for instance that -1 is the number of no sector, and an
empty place no piece of a name); TLC evaluates these in each run. In every
module the argument is an inductive invariant, proved action by action, of which the
property is a consequence.

| theorems | inductive invariant, and why it is needed |
|---|---|
| `KbsTasks_proofs`: `TypeCorrect`, `RecordingFrozen`, `NothingLeftOver`, `PlaybackStarts`, `FlagOwned`, `CodecActive`, `AnnouncedWithList` | ties where each task is to the flags: a finished recording is not being recorded, the play flag belongs to a living task, the list behind `count` is blank, a codec switched off has a restarter on its way to switch it on, or the last transfer to its register met another |
| `WavePlayer_proofs`: `TypeCorrect`, `StaysInBuffer`, `StopsAtEnd`, `PlayerImplementsStream`, `OnlySamples`, `SamplesAreHeard`, `AlwaysAFrame`, `ReadsBySectors` | `Positions` and `Sector` bound the play position by the sector the read position has left behind; `Coherent` says that while the stream is intact the buffer holds the sector the play position lies in; `ReadWithin` keeps reading inside the song. `OnlySamples` follows from the abstract stream alone. For `SamplesAreHeard` also that the end of the stream is that of the song whose header was read (`MaxIsEnd`), that nothing is sent of a song without samples (`Sized`), and that the place the walk returns lies behind a head that is one of the file's (`ChunkFound`, `SamplesIn`). `OnFrames`: header, sectors and song being whole frames, all three positions are, so rounding down never leaves nothing. `SeekAtSector`: the handle is where a sector begins until the short last read, after which nothing is asked any more |
| `FatFile_proofs`: `CacheIsHonest`, `FatTypes`, `HandleKeepsItsPlace`, `ReadsImplementAccess`, `ReadsGetOn`, `SectorsLoseBetweenClusters` | the cache holds what it names, or names nothing. `InPlace`, while the handle is not lost: the cluster counted, the one remembered and the one of the read agree (`AtCluster`); clusters, sectors and bytes passed add up to the position and what is delivered, with no wrap at `Word` (`Moving`, `Counting`); what is delivered are the bytes of the file (`Delivered`). All this of a file whose first cluster has no upper half, which is when open and seek do not lose the handle at once (`LowerHalf`). With it each step is one of `FileAccess`, or none. `ReadsGetOn` needs the types alone: `ToGo`, what is to be delivered and passed over, falls with every step, also on a wrapped position. `Sectored`: read by sectors, a handle that keeps its place is at most at the end of its cluster, so that only a read that begins there looks up the table |
| `FatDir_proofs`: `DirTypes`, `HandlesAlwaysAccounted`, `BrowsesEveryFile`, `ListedSongsAreWaves`, `NoSongIsMissed`, `ListingEnds` | both searches stand before the last entry, since the step on from it is never taken; the song being started has no handle yet; open handles are started songs, unreadable headers and the one in use. That a name put together from pieces ends needs the least place nothing was written to. `Browsing`: what a search has collected is what `Assembled` gives for the entries before it, so it depends on nothing but the directory. `Sought`: two searches for one name therefore run the same way, and the entry opened is the one whose header was read. `NoneMissed`: without a fault every wave file behind the listing is a song or the one in hand, and the handles are enough since each belongs to another file. `ListingEnds`: an entry still to be listed is worth more than two searches of the whole directory, so what a search by name sets back never outweighs the entry listed before it (`StepsLeft`) |
| `Drivers_proofs`, of the card: `TypeCorrect`, `InitSetsUpCard`, `BlockAsked`, `QuietCallSucceeds`, `CardCallReturns` | `SetUp`: what the card and `gSdInfo` must agree on at each command of the sequence, and for a read which address was made from which block under which capacity. `QuietCallSucceeds`: `OnTrack`, the state, address and answer bits of the card at each label once nothing disturbs a call; the resets clear what the card was left with, and the polls it still needs fit in those left. `CardCallReturns`: the commands left, two for every poll that fits in `nTimeout` |
| `Drivers_proofs`, of the codec's bus: `BusTypes`, `CopyStaysTrue`, `SuccessIsReal` | `BusInv`. `InStep`: what the codec has made of the pins of the task that has the processor, as far as they go: it followed the transfer from its start (`Begun`); it was driving an acknowledgement, did not see the start and takes each byte for a later one (`Slipped`); it heeds nothing until the next start (`Ignored`); or the transfer was broken off and the codec lags behind it (`Cut`). Only in the first case is a write acknowledged to its end. `LoadedBy`: a register the codec has been told is that of a transfer which began after every write already acknowledged, or is the address of one taken for a register; so nothing undoes an acknowledged write but a write of the same register. `Rivals`: whoever is interrupted by a write of its register knows. With any number of tasks these are needed of all suspended transfers at once |
| `UcosSched_proofs`: `TypeCorrect`, `RightTaskRuns`, `KernelImplements`, `DeletionIsSafe`, `KernelLosesNothing` | `KernelOK`: group and rows of the ready table agree, ready is exactly "in the chain with no delay left and not being deleted", the idle task is always ready, blocks and reservations match the calls in progress, the scheduler is locked only inside a deletion, and the current task is the top of the table outside the sections that change it. For `KernelLosesNothing` also that each priority reserved is held by one task, and counts of the free, linked and taken blocks, which every step changes together |
| `UcosEvents_proofs`: `ReadyExactlyWhenFree`, `ListsHoldTheWaiting`, `NoTokenIsLost`, `NobodyWaitsInVain`, `NoFlagIsMissed`, `EventsTypes` | `TaskInv`: for each task, where it is, its status, how its pend ended, its delay and its places in lists and ready table fit together in one of few ways; the tokens then are a count of tasks, which every step changes by one. `NoFlagIsMissed` assumes that who waits for a flag to be clear does not consume it, as the drivers do |
| `JtagUart_proofs`: `UartTypes`, `TransmitNeverStuck`, `ReceiveNeverStuck`, `TransmitIsAChannel`, `ReceiveIsAChannel` | `LockInv`: one holder a lock; `CopyInv`: the room or the bytes a task has seen are still there when it copies, because only it moves its end; `Rings`: the ring holds just what was put in and not yet taken out; `IsrInv`: the room the handler counts is there |

So that `KernelImplements` gives the scheduler below `KbsTasks` for any
priorities, any number of control blocks and any delays.

Only model-checked: everything under fairness (`PlaybackEnds`,
`CardBecomesReady`, `FingerLiftReturns`, `SongEnds`, `ReadReturns`,
`CardComesUp`, `WriteReturns`, `AllSent`), which is out of this prover's reach. What can be said
of it without fairness is proved of three: `QuietCallSucceeds` and `CardCallReturns` are the
steps of `CardComesUp` (a call that starts undisturbed gets nearer to its return with every
command and can only return TRUE; that it goes on at all is the fairness), `AlwaysAFrame` and `StopsAtEnd` are the steps of `SongEnds`
(each call that succeeds brings the position nearer to an end it does not pass), `ReadsGetOn`
those of `ReadReturns` (each step of a read lowers a number that ends at its return).
`ListingEnds` says the same of the listing of the songs, for which no run states a liveness
property. No
module declares a RECURSIVE operator; where a chunk begins (`ChunkOffset`) is a fold, of
which the proofs need no more than its values, and the walk is the least head at which it stops.

What the assumptions on constants say of the code: that the address the driver of
the codec sends is one for writing, its last bit is 0 (`I2C_AUDIO_ADDR` is 0x34, `I2C.h:5`),
and that no register written has its number (`AUDIO.c` writes those up to 15; 0x34 would be
26); that a sector is whole frames (512 and 4 bytes). Of the card, `SongsAssumption` says that
the chunks of a file fill its first sector, which is so as soon as it has samples enough, and that the memory
behind the buffer does not read as a chunk with samples.

## 5. Where code and text disagree

Two runs find what a comment of the code says violated:

- `ready_means_mounted`: `TaskKeyHandler` tests `bSdacrdReady` and creates
  `TaskReadSD` a step later (`main.c:68`). The task may have finished in
  between; started again it mounts anew, and the flag stays up without a volume.
- `print_in_handler`: the lock "ensures that writing to the device is thread-safe"
  (`altera_avalon_jtag_uart_write.c:96`), but `OC_I2C_Read` prints in the touch
  handler when a transfer fails (`I2C_core.c:256`). `OSSemPend` does nothing in a
  handler (`os_sem.c:302`) and its error is not looked at: the handler writes where a task is
  about to copy to, its bytes are overwritten, and it raises a semaphore it never
  took, which then lets two tasks in.

Others were met on the way, and are only described:

- a player waits for room in the FIFO in a loop without a pause (`audio_f.c:241`), and only an
  active codec takes samples. Who has switched it off (`audio_f.c:184`) and pauses is kept from
  switching it on by a more urgent player that finds the FIFO full;
- nobody looks whether the register writes of `waveplay_start` succeed (`audio_f.c:184-198`): an
  "activate" broken off by another task's transfer leaves the codec off until the next start of a
  song, and a player that fills the FIFO before that keeps itself waiting for ever (`Stalled`);
- a handle keeps 16 bits of the number of a file's first cluster (`FatFileSystem.c:326`, `:491`),
  although FAT32 is mounted (`FatInternal.c:428`) and the upper half is copied from the directory
  (`FatFileSystem.c:197`): a file that begins at cluster 65536 or later is read from another place,
  and no call fails;
- the record button clears the list whether or not it is being played (`main.c:93-103`): the
  playback goes on over blank entries, which are the first song, and ends (`PlaybackEnds`);
- a mount or a listing that fails on a good card gives back neither the `VOLUME_INFO`
  (`FatInternal.c:547`) nor the handle of the file (`audio_f.c:114-117`);
- a header that does not end on a frame leaves bytes in a sector that `play_size`
  rounds to none (`audio_f.c:239`; the test whether to read is `:220`): no sector is read any
  more, and every later call returns TRUE in silence;
- when the table cannot be read, `fatNextCluster` returns a variable nobody
  assigned (`FatInternal.c:126`); only 0 counts as a failure (the comment at `:122`);
- a sector that cannot be read ends the loop over the sectors, but not the turn of the loop over the
  clusters: `FatFileSystem.c:441` does not look at `bSuccess`, and the handle moves on to
  the next cluster (`:450`) with its position unchanged. `waveplay_execute` reports the
  failure (`audio_f.c:254`) and can be called again; what it reads then is not what it asked for before;
- on four data lines no checksum is looked at (`sd_hal.c:193`), although `sd_lib.c:36`
  names crc16: a disturbed block is returned as read;
- `i2c_write` and `i2c_stop` "assume SCL = 0" (`I2C.c:194`, `:210`), which a preempting
  transfer leaves at 1; `I2CBus` shows what still holds, and that what `AUDIO.c`
  believes of the interrupted register no longer does;
- `write` reports `-EIO` as "Host not connected" (`altera_avalon_jtag_uart_write.c:214`)
  as soon as one second passed without a sign of the host, not after `timeout` of
  them; a read that finds a flag left up from bytes another read has taken returns
  `-EIO` as well;
- `bFlag` is never lowered (`audio_f.c:99`): after the first `.wav` every file is opened
  as a song; only the header keeps others off the list (`SongsAreWaves`);
- a handle is never given back when a song is started again or its header cannot be read
  (`audio_f.c:114`, `:159`; `HandlesAccounted`);
- before the tasks start, `main` clears one slot more of `gWavePlay` than it has (`main.c:22`);
- a comment (`main.c:135`) promises that a recording is repeated until stop; the flag
  is lowered after one pass (`main.c:152`);
- stop lowers the flag, but the inner loops do not look at it: the
  pass is played to its end (`main.c:146`);
- a failed open leaves `bSuccess` unassigned (`audio_f.c:153`), and the result
  of the restart at the end of a song is dropped (`audio_f.c:214`).

## 6. What is not modelled, and why

- Drawing and the graphics library: output only, and half of the lines of the
  repository's C code (fonts are tables). With the headers, whose lines are declarations, and
  kernel services nobody calls, they are why the modules stand for a small share of
  its lines: what is left is little more than what is modelled.
- Two players in one slot. `TaskPlayRecording` may restart the slot `TaskKeyHandler`
  is in, between `audio_f.c:237` and `:239`: the pointer was computed from the old position, the
  size from the new one, and up to a sector is read from the middle of the buffer
  on. The repository promises nothing of it; `WavePlayer` has one caller.
- The value of the volume. Two tasks may be in `handle_key` at once: each reads `volume`, steps
  its own copy, which it keeps within the limits, and writes it back (`audio_f.c:283`, `:296`). The
  later one wins, and the codec may be left with the other's. `KbsTasks` has the register writes
  and their pauses, not what they carry.
- Two readers of the sector cache. A task that resumes in a transfer names the
  sector another has overwritten meanwhile (`FatInternal.c:333`). `FatFile` has one
  reader; `KbsTasks` lets a read during the initialisation of the card fail.
- The accesses of the touch handler to its bus core (`I2C_core.c`): a sequence with
  interrupts disabled. Coordinates published one by one make touches nobody
  made, which `KbsTasks` allows; an edge lost while the handler runs
  (`multi_touch2.c:60`) is a lift that stays away, which it allows too.
- A root directory that fills its area. `fatFindDirectory` computes the sector of an
  entry from its index alone (`FatInternal.c:353`), so that without the mark a search goes on into
  the data of files, on FAT32 already behind the first cluster. What it finds there is the
  files' content; `FatDir` assumes the mark.
- The layout of the volume, and writing: the only writer, `fatDelClusterList`, is not
  called by the program.
- The kernel's mutexes, mailboxes, queues, memory partitions and timers, deletion of
  events and pends on several: nothing in the program or the drivers calls them.
- The other drivers (single accesses to registers), `close` and `ioctl` of the UART, `AUDIO_Init`
  and reading over I2C, which are not called while tasks run; of the FPGA
  design all but the codec's FIFO of samples (`AUDIO_DAC.v`), which `KbsTasks` has.
- Memory behind an array (`recordingPlaylist` at entry 41, `gWavePlay` at 30 songs or
  slot 111): what such an access hits is decided by the linker, so the models stop
  at the bound.

## 7. Plan

Extending the model:

1. `WavePlayer` with two players on one slot, and `FatFile` with two readers, to say
   what of their promises survives (section 6).
2. The volume of `handle_key`, as one more value that the register writes of `I2CBus` carry.
3. Mounting: the fields of the boot sector that `fatMount` takes as they are.

Proving more:

1. The steps of the other liveness properties, as for `CardComesUp`, `SongEnds` and
   `ReadReturns`: what a writer in `JtagUart` waits for.
2. Codec and playback together: `KbsTasks` takes what comes of a register write from `I2CBus` by
   the text of section 2; to make of the latter an abstract bus that it is shown to implement.
