------------------------------- MODULE SdCard --------------------------------
(***************************************************************************)
(* The SD card and the two calls that use it: SDLIB_Init brings the card   *)
(* from power-on to the transfer state by a fixed sequence of commands,    *)
(* SDLIB_ReadBlock512 asks for one block and takes it in.  The calls share *)
(* gSdInfo and the bus without a lock.  SDLIB_Init is called by the most   *)
(* urgent task, so another task that reads gets in only while it sleeps;   *)
(* it itself may break into a read at any point.  A command may not reach  *)
(* the card (also because a command of another task was broken off in      *)
(* front of it), and its answer may arrive damaged, which crc7 shows; the  *)
(* answer to ACMD41 has no crc7 and is taken to arrive whole or not at     *)
(* all.  The card may be pulled out and replaced at any time.              *)
(***************************************************************************)
EXTENDS Integers

CONSTANTS
    Cards,          \* the cards at hand: "v1", "sc" (version 2, up to 2 GB)
                    \*   and "hc" (SDHC)
    Blocks,         \* the numbers of the blocks of a card
    BlockSize,      \* 512
    Word,           \* addresses are alt_u32: 2^32
    MaxBusy,        \* the polls of ACMD41 a card needs to power up, at most
    MaxPolls,       \* the polls that fit in nTimeout, one second
    NoCard,         \* the empty slot
    NoBlock,        \* the card sends nothing
    Garbage         \* bytes that are not a block

ASSUME SdAssumption ==
    /\ Cards \subseteq {"v1", "sc", "hc"} /\ NoCard \notin Cards
    /\ Blocks \subseteq Nat /\ BlockSize \in Nat \ {0}
    /\ Word \in Nat \ {0}
    /\ \A b \in Blocks : b * BlockSize < Word
    /\ NoBlock \notin Blocks /\ Garbage \notin Blocks /\ NoBlock # Garbage
    /\ MaxBusy \in Nat /\ MaxPolls \in Nat /\ MaxBusy <= MaxPolls

VARIABLES
    kind, state,        \* the card in the slot and its CURRENT_STATE
    appCmd, illegal,    \* two bits of its status
    wide,               \* it uses four data lines
    busy,               \* polls until it has powered up
    sending,            \* the block it sends
    bSDHC, RCA16,       \* gSdInfo; RCA16 = 1 for the card's own address
    pc, asleep, polls,  \* SDLIB_Init
    ready,              \* what it returned last
    rpc, asked, addr, buff, \* SDLIB_ReadBlock512
    undisturbed,        \* no SDLIB_Init ran since it was called
    calm                \* nobody touches the card, reads or disturbs the bus

cardVars == <<kind, state, appCmd, illegal, wide, busy, sending>>
infoVars == <<bSDHC, RCA16>>
initVars == <<pc, asleep, polls, ready>>
readVars == <<rpc, asked, addr, buff, undisturbed>>
vars == <<cardVars, infoVars, initVars, readVars, calm>>

States == {"idle", "ready", "ident", "stby", "tran"}

\* The commands SDLIB_Init gives once the card has powered up, in order: the
\* command at each label and the label after it.
Script ==
    [cmd2   |-> [cmd |-> "CMD2",   next |-> "cmd3"],
     cmd3   |-> [cmd |-> "CMD3",   next |-> "cmd9"],
     cmd9   |-> [cmd |-> "CMD9",   next |-> "cmd10"],
     cmd10  |-> [cmd |-> "CMD10",  next |-> "cmd7"],
     cmd7   |-> [cmd |-> "CMD7",   next |-> "cmd16"],
     cmd16  |-> [cmd |-> "CMD16",  next |-> "app6"],
     app6   |-> [cmd |-> "CMD55",  next |-> "acmd6"],
     acmd6  |-> [cmd |-> "ACMD6",  next |-> "app42"],
     app42  |-> [cmd |-> "CMD55",  next |-> "acmd42"],
     acmd42 |-> [cmd |-> "ACMD42", next |-> "off"]]

ScriptPcs == DOMAIN Script
InitPcs == {"off", "cmd0", "cmd8", "again", "app41", "acmd41"} \cup ScriptPcs

TypeOK ==
    /\ kind \in Cards \cup {NoCard} /\ state \in States
    /\ appCmd \in BOOLEAN /\ illegal \in BOOLEAN /\ wide \in BOOLEAN
    /\ busy \in 0 .. MaxBusy /\ sending \in Blocks \cup {NoBlock}
    /\ bSDHC \in BOOLEAN /\ RCA16 \in {0, 1}
    /\ pc \in InitPcs /\ asleep \in BOOLEAN
    /\ polls \in 0 .. MaxPolls /\ ready \in BOOLEAN
    /\ rpc \in {"idle", "cmd17", "start", "bytes"}
    /\ asked \in Blocks \cup {NoBlock} /\ addr \in 0 .. Word - 1
    /\ buff \in Blocks \cup {NoBlock, Garbage}
    /\ undisturbed \in BOOLEAN /\ calm \in BOOLEAN

-----------------------------------------------------------------------------
\* The card, as the code expects it to answer.

LegalIn ==
    [CMD8 |-> {"idle"}, CMD55 |-> {"idle", "stby", "tran"},
     ACMD41 |-> {"idle"}, CMD2 |-> {"ready"}, CMD3 |-> {"ident"},
     CMD9 |-> {"stby"}, CMD10 |-> {"stby"}, CMD7 |-> {"stby"},
     CMD16 |-> {"tran"}, ACMD6 |-> {"tran"}, ACMD42 |-> {"tran"},
     CMD17 |-> {"tran"}]

AppCommands == {"ACMD41", "ACMD6", "ACMD42"}
WithAddress == {"CMD55", "CMD9", "CMD10", "CMD7"}

\* The commands whose answer carries the card's status.
WithStatus == {"CMD55", "CMD7", "CMD16", "ACMD6", "ACMD42", "CMD17"}

\* The address in the command is the card's: 0 until it has published one.
Addressed == (RCA16 = 1) <=> state \in {"stby", "tran"}

Obeys(c) ==
    /\ state \in LegalIn[c] /\ sending = NoBlock
    /\ c = "CMD8" => kind # "v1"
    /\ c \in AppCommands => appCmd

\* An SDHC card only powers up for a host that says it knows them (HCS).
PowersUp == busy = 0 /\ (kind = "hc" => bSDHC)

NextState == [ACMD41 |-> "ready", CMD2 |-> "ident", CMD3 |-> "stby",
              CMD7 |-> "tran"]

\* The card carries out command c, in whose answer the host finds what it
\* expects (ok) or not.
CardDoes(c, ok) ==
    /\ ok = /\ c = "ACMD41" => PowersUp
            /\ c \in WithStatus => ~illegal
    /\ state' = IF c \in DOMAIN NextState /\ (c = "ACMD41" => PowersUp)
                THEN NextState[c] ELSE state
    /\ busy' = IF c = "ACMD41" /\ busy > 0 THEN busy - 1 ELSE busy
    /\ appCmd' = (c = "CMD55") /\ illegal' = FALSE
    /\ wide' = (wide \/ c = "ACMD6")
    /\ UNCHANGED kind

\* A command the card does not obey is not answered, and remembered.
Refused(c) ==
    /\ kind # NoCard /\ ~Obeys(c)
    /\ illegal' = TRUE /\ appCmd' = FALSE
    /\ UNCHANGED <<kind, state, wide, busy, sending>>

\* The command is not for this card or does not reach it.
Lost(c) ==
    /\ kind = NoCard \/ ~calm \/ (c \in WithAddress /\ ~Addressed)
    /\ UNCHANGED cardVars

\* One of SD_CMD8 ... SD_ACMD42 returns ok: the answer came, undamaged, and
\* says what was expected.
Command(c, ok) ==
    \/ ~ok /\ Lost(c)
    \/ ~ok /\ (c \in WithAddress => Addressed) /\ Refused(c)
    \/ /\ kind # NoCard /\ Obeys(c) /\ (c \in WithAddress => Addressed)
       /\ \E answer \in BOOLEAN :
             CardDoes(c, answer) /\ (ok = answer \/ (~calm /\ ~ok))
       /\ UNCHANGED sending

\* SD_CMD0 is not answered.
SD_CMD0 ==
    \/ (kind = NoCard \/ ~calm) /\ UNCHANGED cardVars
    \/ /\ kind # NoCard
       /\ state' = "idle" /\ wide' = FALSE /\ busy' \in 0 .. MaxBusy
       /\ appCmd' = FALSE /\ illegal' = FALSE /\ sending' = NoBlock
       /\ UNCHANGED kind

-----------------------------------------------------------------------------
\* SDLIB_Init

InitFrame == UNCHANGED <<rpc, asked, addr, buff, undisturbed, calm>>

Goto(label, sleep) == pc' = label /\ asleep' = sleep

Fail == Goto("off", FALSE) /\ UNCHANGED <<polls, ready>>

\* wait_sdcard_insert or fatMountSdcard calls it: gSdInfo is cleared.
Call ==
    /\ pc = "off"
    /\ Goto("cmd0", FALSE)
    /\ bSDHC' = FALSE /\ RCA16' = 0
    /\ polls' = 0 /\ ready' = FALSE
    /\ undisturbed' = FALSE
    /\ UNCHANGED <<cardVars, rpc, asked, addr, buff, calm>>

Reset ==
    /\ pc = "cmd0"
    /\ SD_CMD0
    /\ Goto("cmd8", TRUE)
    /\ UNCHANGED <<infoVars, polls, ready>> /\ InitFrame

\* Only cards of version 2 answer; they may be SDHC.
Cmd8 ==
    /\ pc = "cmd8"
    /\ \E ok \in BOOLEAN :
         /\ Command("CMD8", ok)
         /\ bSDHC' = ok
         /\ Goto(IF ok THEN "app41" ELSE "again", FALSE)
    /\ UNCHANGED <<RCA16, polls, ready>> /\ InitFrame

\* Mutation: a card that refused CMD8 is not reset.
ResetNotAgain ==
    /\ pc = "again"
    /\ Goto("app41", TRUE)
    /\ UNCHANGED <<cardVars, infoVars, polls, ready>> /\ InitFrame

ResetAgain ==
    /\ pc = "again"
    /\ SD_CMD0
    /\ Goto("app41", TRUE)
    /\ UNCHANGED <<infoVars, polls, ready>> /\ InitFrame

App41 ==
    /\ pc = "app41"
    /\ \E ok \in BOOLEAN :
         /\ Command("CMD55", ok)
         /\ \/ ok /\ Goto("acmd41", FALSE) /\ UNCHANGED <<polls, ready>>
            \/ ~ok /\ Fail
    /\ UNCHANGED infoVars /\ InitFrame

\* The card is busy: it is asked again 10 ms later, for one second.
PollAgain ==
    \/ /\ polls < MaxPolls /\ polls' = polls + 1
       /\ Goto("app41", TRUE) /\ UNCHANGED ready
    \/ polls = MaxPolls /\ Fail

\* Mutation: what the card says of its capacity is not looked at.
CapacityAssumed == UNCHANGED bSDHC

\* Bit 30 of the answer says whether the card is SDHC.
CapacityTold == bSDHC' = (bSDHC /\ kind = "hc")

Acmd41 ==
    /\ pc = "acmd41"
    /\ \/ /\ Command("ACMD41", TRUE) /\ CapacityTold
          /\ Goto("cmd2", FALSE) /\ UNCHANGED <<polls, ready>>
       \/ Command("ACMD41", FALSE) /\ PollAgain /\ UNCHANGED bSDHC
    /\ UNCHANGED RCA16 /\ InitFrame

\* The rest of the sequence; the first command that fails ends it.
Identify ==
    /\ pc \in ScriptPcs
    /\ \E ok \in BOOLEAN :
         /\ Command(Script[pc].cmd, ok)
         /\ RCA16' = IF ok /\ pc = "cmd3" THEN 1 ELSE RCA16
         /\ \/ /\ ok /\ Goto(Script[pc].next, FALSE)
               /\ ready' = (pc = "acmd42") /\ UNCHANGED polls
            \/ ~ok /\ Fail
    /\ UNCHANGED bSDHC /\ InitFrame

SDLIB_Init ==
    Call \/ Reset \/ Cmd8 \/ ResetAgain \/ App41 \/ Acmd41 \/ Identify

-----------------------------------------------------------------------------
\* SDLIB_ReadBlock512, in any task while SDLIB_Init does not run or sleeps.

MayRead == pc = "off" \/ asleep

ReadFrame == UNCHANGED <<infoVars, initVars, calm>>

EndRead == rpc' = "idle" /\ asked' = NoBlock /\ addr' = 0
               /\ undisturbed' = FALSE

\* Mutation: every card is addressed by bytes.
AddressBytes(b) == b * BlockSize

AddressOf(b) == IF bSDHC THEN b ELSE b * BlockSize

ReadCall ==
    /\ MayRead /\ rpc = "idle" /\ ~calm
    /\ rpc' = "cmd17" /\ buff' = NoBlock
    /\ asked' \in Blocks
    /\ addr' = AddressOf(asked')
    /\ undisturbed' = (pc = "off" /\ ready)
    /\ UNCHANGED cardVars /\ ReadFrame

\* The block a card finds at an address: it has none at most of them.
BlockAt(a) ==
    CHOOSE b \in Blocks \cup {NoBlock} :
        IF kind = "hc" THEN b = a \/ (a \notin Blocks /\ b = NoBlock)
        ELSE \/ b # NoBlock /\ a = b * BlockSize
             \/ b = NoBlock /\ \A c \in Blocks : a # c * BlockSize

\* SD_CMD17
ReadCommand ==
    /\ MayRead /\ rpc = "cmd17"
    /\ \E ok \in BOOLEAN :
         /\ \/ ~ok /\ (Lost("CMD17") \/ Refused("CMD17"))
            \/ /\ kind # NoCard /\ Obeys("CMD17")
               /\ \E answer \in BOOLEAN :
                    /\ CardDoes("CMD17", answer)
                    /\ ok => answer /\ BlockAt(addr) # NoBlock
                    /\ ~ok => ~answer \/ BlockAt(addr) = NoBlock \/ ~calm
               /\ sending' = BlockAt(addr)
         /\ \/ ok /\ rpc' = "start" /\ UNCHANGED <<asked, addr, undisturbed>>
            \/ ~ok /\ EndRead
    /\ UNCHANGED buff /\ ReadFrame

\* SDHAL_ReadData waits for the start bits on all four lines.
ReadStart ==
    /\ MayRead /\ rpc = "start"
    /\ \/ /\ sending # NoBlock /\ wide /\ rpc' = "bytes"
          /\ UNCHANGED <<asked, addr, undisturbed>>
       \/ ~(sending # NoBlock /\ wide /\ calm) /\ EndRead
    /\ UNCHANGED <<cardVars, buff>> /\ ReadFrame

\* It takes in what is on the lines.  A checksum is not looked at.
ReadBytes ==
    /\ MayRead /\ rpc = "bytes"
    /\ \/ sending # NoBlock /\ buff' = sending
       \/ ~(sending # NoBlock /\ calm) /\ buff' = Garbage
    /\ sending' = NoBlock
    /\ EndRead
    /\ UNCHANGED <<kind, state, appCmd, illegal, wide, busy>> /\ ReadFrame

SDLIB_ReadBlock512 == ReadCall \/ ReadCommand \/ ReadStart \/ ReadBytes

-----------------------------------------------------------------------------
\* The user pulls out the card or puts one in.
ChangeCard ==
    /\ ~calm
    /\ kind' \in (Cards \cup {NoCard}) \ {kind}
    /\ state' = "idle" /\ appCmd' = FALSE /\ illegal' = FALSE
    /\ wide' = FALSE /\ busy' \in 0 .. MaxBusy /\ sending' = NoBlock
    /\ UNCHANGED <<infoVars, initVars, readVars, calm>>

\* A block nobody takes in is clocked out by other commands.
ClockedOut ==
    /\ sending # NoBlock /\ rpc \in {"idle", "cmd17"}
    /\ sending' = NoBlock
    /\ UNCHANGED <<kind, state, appCmd, illegal, wide, busy, infoVars,
                   initVars, readVars, calm>>

Calm ==
    /\ calm' = ~calm
    /\ UNCHANGED <<cardVars, infoVars, initVars, readVars>>

Init ==
    /\ kind \in Cards \cup {NoCard} /\ state = "idle"
    /\ appCmd = FALSE /\ illegal = FALSE /\ wide = FALSE
    /\ busy \in 0 .. MaxBusy /\ sending = NoBlock
    /\ bSDHC = FALSE /\ RCA16 = 0
    /\ pc = "off" /\ asleep = FALSE /\ polls = 0 /\ ready = FALSE
    /\ rpc = "idle" /\ asked = NoBlock /\ addr = 0 /\ buff = NoBlock
    /\ undisturbed = FALSE
    /\ calm = FALSE

Next == SDLIB_Init \/ SDLIB_ReadBlock512 \/ ChangeCard \/ ClockedOut \/ Calm

Spec == Init /\ [][Next]_vars

\* SDLIB_Init is called again and again until it succeeds
\* (wait_sdcard_insert), by a task nothing else keeps from running.
FairSpec == Spec /\ WF_vars(SDLIB_Init)

-----------------------------------------------------------------------------
\* SDLIB_Init only returns TRUE with a card in the transfer state, on four
\* lines and of the capacity noted in gSdInfo, whatever cards were changed,
\* answers lost and reads attempted while it ran and slept.
InitSetsUp ==
    [][ready' /\ ~ready =>
          /\ kind' # NoCard /\ state' = "tran" /\ wide'
          /\ bSDHC' = (kind' = "hc")]_vars

\* A block is only taken in when it is the one that was asked for, if the last
\* SDLIB_Init had succeeded and none was called since: the card counts blocks
\* or bytes as the host believes, also when it was changed after SDLIB_Init.
ReadsBlockAsked ==
    rpc \in {"start", "bytes"} /\ undisturbed /\ sending # NoBlock =>
        sending = asked

\* Once a card stays in the slot, nobody reads and the bus is undisturbed,
\* SDLIB_Init succeeds, whatever state the card was left in.
CardComesUp == <>[](calm /\ kind # NoCard) => []<>ready
=============================================================================
