---------------------------- MODULE Drivers_proofs ---------------------------
(***************************************************************************)
(* Proofs about the two drivers that set the pins of a bus themselves: the *)
(* SD card's (SdCard), for every set of cards, blocks and bounds, and the  *)
(* codec's (I2CBus), for every set of tasks and calls, any device and      *)
(* bytes of any length.                                                    *)
(***************************************************************************)
EXTENDS SdCard, I2CBus, SequenceTheorems, TLAPS

(***************************************************************************)
(* The card                                                                *)
(***************************************************************************)

LEMMA Facts ==
    /\ NoBlock \notin Blocks /\ Blocks \subseteq Nat
    /\ BlockSize \in Nat /\ BlockSize > 0 /\ Word \in Nat
    /\ Word > 0 /\ \A b \in Blocks : b * BlockSize < Word
    /\ MaxBusy \in Nat /\ MaxPolls \in Nat
BY SdAssumption

Commands == DOMAIN LegalIn

LEMMA NextStates ==
    /\ DOMAIN NextState = {"ACMD41", "CMD2", "CMD3", "CMD7"}
    /\ NextState.ACMD41 = "ready" /\ NextState.CMD2 = "ident"
    /\ NextState.CMD3 = "stby" /\ NextState.CMD7 = "tran"
    /\ LegalIn.ACMD41 = {"idle"} /\ LegalIn.CMD2 = {"ready"}
    /\ LegalIn.CMD3 = {"ident"} /\ LegalIn.CMD7 = {"stby"}
    /\ LegalIn.ACMD6 = {"tran"} /\ LegalIn.ACMD42 = {"tran"}
    /\ LegalIn.CMD17 = {"tran"}
BY DEF NextState, LegalIn

\* Whatever becomes of a command, it moves the card on only along the states,
\* and out of the idle state only when the card powers up.
LEMMA CommandKeeps ==
    ASSUME NEW c \in Commands, NEW ok \in BOOLEAN, Command(c, ok)
    PROVE  /\ kind' = kind /\ sending' = sending
           /\ wide => wide'
           /\ \/ state' = state
              \/ c = "ACMD41" /\ state = "idle" /\ PowersUp /\ state' = "ready"
              \/ c = "CMD2" /\ state = "ready" /\ state' = "ident"
              \/ c = "CMD3" /\ state = "ident" /\ state' = "stby"
              \/ c = "CMD7" /\ state = "stby" /\ state' = "tran"
<1>1. CASE ~ok /\ Lost(c) BY <1>1 DEF Lost, cardVars
<1>2. CASE ~ok /\ Refused(c) BY <1>2 DEF Refused
<1>3. CASE Obeys(c) /\ UNCHANGED sending
             /\ \E answer \in BOOLEAN : CardDoes(c, answer)
  BY <1>3, NextStates DEF CardDoes, Obeys
<1> QED BY <1>1, <1>2, <1>3 DEF Command

\* A command that succeeds was carried out.
LEMMA CommandDone ==
    ASSUME NEW c \in Commands, Command(c, TRUE)
    PROVE  /\ kind # NoCard /\ Obeys(c)
           /\ c = "ACMD41" => PowersUp
           /\ c = "ACMD6" => wide'
<1>1. kind # NoCard /\ Obeys(c) /\ CardDoes(c, TRUE) BY DEF Command
<1> QED BY <1>1 DEF CardDoes

-----------------------------------------------------------------------------
\* Types

CardType ==
    /\ kind \in Cards \cup {NoCard} /\ state \in States
    /\ appCmd \in BOOLEAN /\ illegal \in BOOLEAN /\ wide \in BOOLEAN
    /\ busy \in 0 .. MaxBusy /\ sending \in Blocks \cup {NoBlock}

LEMMA CardDoesType ==
    ASSUME CardType, NEW c, NEW ok, CardDoes(c, ok)
    PROVE  /\ kind' \in Cards \cup {NoCard} /\ state' \in States
           /\ appCmd' \in BOOLEAN /\ illegal' \in BOOLEAN /\ wide' \in BOOLEAN
           /\ busy' \in 0 .. MaxBusy
<1>1. state' \in States
  BY NextStates DEF CardDoes, CardType, States, NextState
<1>2. busy' \in 0 .. MaxBusy BY Facts DEF CardDoes, CardType
<1> QED BY <1>1, <1>2 DEF CardDoes, CardType

LEMMA CommandType ==
    ASSUME CardType, NEW c, NEW ok, Command(c, ok)
    PROVE  CardType'
<1>1. CASE ~ok /\ Lost(c) BY <1>1 DEF Lost, cardVars, CardType
<1>2. CASE ~ok /\ Refused(c) BY <1>2 DEF Refused, CardType
<1>3. CASE UNCHANGED sending /\ \E answer \in BOOLEAN : CardDoes(c, answer)
  BY <1>3, CardDoesType DEF CardType
<1> QED BY <1>1, <1>2, <1>3 DEF Command

LEMMA ResetType == CardType /\ SD_CMD0 => CardType'
BY DEF CardType, SD_CMD0, cardVars, States

HostType ==
    /\ bSDHC \in BOOLEAN /\ RCA16 \in {0, 1}
    /\ pc \in InitPcs /\ asleep \in BOOLEAN
    /\ polls \in 0 .. MaxPolls /\ ready \in BOOLEAN

ReadType ==
    /\ rpc \in {"idle", "cmd17", "start", "bytes"}
    /\ asked \in Blocks \cup {NoBlock} /\ addr \in 0 .. Word - 1
    /\ buff \in Blocks \cup {NoBlock, Garbage}
    /\ undisturbed \in BOOLEAN /\ calm \in BOOLEAN

LEMMA ScriptOf ==
    \A l \in ScriptPcs :
        /\ Script[l].cmd \in Commands \ {"CMD17"}
        /\ Script[l].next \in InitPcs
BY DEF Script, ScriptPcs, InitPcs, Commands, LegalIn

LEMMA BlockAtType == \A a : BlockAt(a) \in Blocks \cup {NoBlock}
<1> SUFFICES ASSUME NEW a PROVE BlockAt(a) \in Blocks \cup {NoBlock}
  OBVIOUS
<1>1. \E b \in Blocks \cup {NoBlock} :
        IF kind = "hc" THEN b = a \/ (a \notin Blocks /\ b = NoBlock)
        ELSE \/ b # NoBlock /\ a = b * BlockSize
             \/ b = NoBlock /\ \A c \in Blocks : a # c * BlockSize
  <2>1. CASE kind = "hc" /\ a \in Blocks BY <2>1
  <2>2. CASE kind = "hc" /\ a \notin Blocks BY <2>2
  <2>3. CASE kind # "hc" /\ \E c \in Blocks : a = c * BlockSize
    BY <2>3, Facts
  <2>4. CASE kind # "hc" /\ \A c \in Blocks : a # c * BlockSize BY <2>4
  <2> QED BY <2>1, <2>2, <2>3, <2>4
<1> QED BY <1>1 DEF BlockAt

LEMMA Zeros == 0 \in 0 .. MaxPolls /\ 0 \in 0 .. Word - 1
BY Facts

LEMMA AddressOfType ==
    \A b \in Blocks : bSDHC \in BOOLEAN => AddressOf(b) \in 0 .. Word - 1
<1> SUFFICES ASSUME NEW b \in Blocks PROVE AddressOf(b) \in 0 .. Word - 1
  OBVIOUS
<1>1. b \in Nat /\ b * BlockSize \in Nat /\ b <= b * BlockSize
  BY Facts
<1> QED BY <1>1, Facts DEF AddressOf

LEMMA InitStepType ==
    ASSUME CardType, HostType, ReadType, SDLIB_Init
    PROVE  CardType' /\ HostType' /\ ReadType'
<1>1. CASE Call
  BY <1>1, Zeros DEF Call, Goto, CardType, HostType, ReadType, cardVars, InitPcs
<1>2. CASE Reset
  BY <1>2, ResetType DEF Reset, Goto, HostType, ReadType, infoVars, InitFrame,
     InitPcs
<1>3. CASE Cmd8
  BY <1>3, CommandType DEF Cmd8, Goto, HostType, ReadType, InitFrame, InitPcs
<1>4. CASE ResetAgain
  BY <1>4, ResetType DEF ResetAgain, Goto, HostType, ReadType, infoVars,
     InitFrame, InitPcs
<1>5. CASE App41
  BY <1>5, CommandType DEF App41, Fail, Goto, HostType, ReadType, infoVars,
     InitFrame, InitPcs
<1>6. CASE Acmd41
  <2>1. CardType' BY <1>6, CommandType DEF Acmd41
  <2>2. polls' \in 0 .. MaxPolls
    <3>1. CASE polls < MaxPolls /\ polls' = polls + 1
      BY <3>1, Facts DEF HostType
    <3>2. CASE polls' = polls BY <3>2 DEF HostType
    <3> QED BY <1>6, <3>1, <3>2 DEF Acmd41, PollAgain, Fail
  <2>3. pc' \in InitPcs /\ asleep' \in BOOLEAN /\ ready' \in BOOLEAN
    BY <1>6 DEF Acmd41, PollAgain, Fail, Goto, HostType, InitPcs, ScriptPcs,
       Script
  <2>4. bSDHC' \in BOOLEAN /\ RCA16' \in {0, 1} /\ ReadType'
    BY <1>6 DEF Acmd41, CapacityTold, HostType, ReadType, InitFrame
  <2> QED BY <2>1, <2>2, <2>3, <2>4 DEF HostType
<1>7. CASE Identify
  <2>1. CardType' BY <1>7, CommandType DEF Identify
  <2>2. HostType'
    BY <1>7, ScriptOf DEF Identify, Goto, Fail, HostType, InitPcs
  <2> QED BY <1>7, <2>1, <2>2 DEF Identify, InitFrame, ReadType
<1> QED BY <1>1, <1>2, <1>3, <1>4, <1>5, <1>6, <1>7 DEF SDLIB_Init

LEMMA ReadStepType ==
    ASSUME CardType, HostType, ReadType, SDLIB_ReadBlock512
    PROVE  CardType' /\ HostType' /\ ReadType'
<1>1. CASE ReadCall
  BY <1>1, AddressOfType DEF ReadCall, ReadFrame, CardType, HostType, ReadType,
     cardVars, infoVars, initVars
<1>2. CASE ReadCommand
  <2>1. CardType'
    <3>1. CASE Lost("CMD17") \/ Refused("CMD17")
      BY <3>1 DEF Lost, Refused, CardType, cardVars
    <3>2. CASE /\ \E answer \in BOOLEAN : CardDoes("CMD17", answer)
               /\ sending' = BlockAt(addr)
      BY <3>2, CardDoesType, BlockAtType DEF CardType
    <3> QED BY <1>2, <3>1, <3>2 DEF ReadCommand
  <2>2. HostType' /\ ReadType'
    BY <1>2, Zeros DEF ReadCommand, ReadFrame, EndRead, HostType, ReadType,
       infoVars, initVars
  <2> QED BY <2>1, <2>2
<1>3. CASE ReadStart
  <2>1. CardType' /\ HostType' /\ buff' = buff /\ calm' = calm
    BY <1>3 DEF ReadStart, ReadFrame, CardType, HostType, cardVars, infoVars,
       initVars
  <2>2. \/ EndRead /\ rpc' = "idle"
        \/ rpc' = "bytes" /\ UNCHANGED <<asked, addr, undisturbed>>
    BY <1>3 DEF ReadStart, EndRead
  <2> QED BY <2>1, <2>2, Zeros DEF EndRead, ReadType
<1>4. CASE ReadBytes
  BY <1>4, Zeros DEF ReadBytes, ReadFrame, EndRead, CardType, HostType,
     ReadType, infoVars, initVars
<1> QED BY <1>1, <1>2, <1>3, <1>4 DEF SDLIB_ReadBlock512

LEMMA TypeStep == TypeOK /\ [Next]_vars => TypeOK'
<1> SUFFICES ASSUME TypeOK, [Next]_vars PROVE TypeOK' OBVIOUS
<1>1. CASE SDLIB_Init
  BY <1>1, InitStepType DEF TypeOK, CardType, HostType, ReadType
<1>2. CASE SDLIB_ReadBlock512
  BY <1>2, ReadStepType DEF TypeOK, CardType, HostType, ReadType
<1>3. CASE ChangeCard
  BY <1>3 DEF TypeOK, ChangeCard, infoVars, initVars, readVars, States
<1>4. CASE ClockedOut
  BY <1>4 DEF TypeOK, ClockedOut, infoVars, initVars, readVars
<1>5. CASE Calm
  BY <1>5 DEF TypeOK, Calm, cardVars, infoVars, initVars, readVars
<1>6. CASE UNCHANGED vars
  BY <1>6 DEF TypeOK, vars, cardVars, infoVars, initVars, readVars
<1> QED BY <1>1, <1>2, <1>3, <1>4, <1>5, <1>6 DEF Next

\* Types hold for every set of cards and blocks and every bound on the polls.
THEOREM TypeCorrect == Spec => []TypeOK
<1>1. Init => TypeOK
  BY Zeros DEF Init, TypeOK, States, InitPcs
<1>2. TypeOK /\ [Next]_vars => TypeOK' BY TypeStep
<1> QED BY <1>1, <1>2, PTL DEF Spec

-----------------------------------------------------------------------------
\* What is known of a card that has left the idle state: gSdInfo names its
\* capacity from the end of ACMD41 on, and four lines are in use from ACMD6 on.

CapacityKnown ==
    (pc \in ScriptPcs \/ ready) /\ state # "idle" => bSDHC = (kind = "hc")
WideSet == pc \in {"app42", "acmd42"} /\ state = "tran" => wide
ReadyAtRest == (ready => pc = "off") /\ (undisturbed => ready)
AddressKept == undisturbed => asked \in Blocks /\ addr = AddressOf(asked)

SetUp ==
    /\ TypeOK /\ CapacityKnown /\ WideSet /\ ReadyAtRest /\ AddressKept
    /\ ReadsBlockAsked

LEMMA BlockAtAddress ==
    ASSUME NEW b \in Blocks, bSDHC = (kind = "hc")
    PROVE  BlockAt(AddressOf(b)) = b
<1>1. CASE kind = "hc"
  <2>1. AddressOf(b) = b BY <1>1 DEF AddressOf
  <2> QED BY <1>1, <2>1, Facts DEF BlockAt
<1>2. CASE kind # "hc"
  <2>1. AddressOf(b) = b * BlockSize BY <1>2 DEF AddressOf
  <2>2. \A c \in Blocks : b * BlockSize = c * BlockSize => b = c BY Facts
  <2>3. \A c \in Blocks \cup {NoBlock} :
          (\/ c # NoBlock /\ b * BlockSize = c * BlockSize
           \/ c = NoBlock /\ \A d \in Blocks : b * BlockSize # d * BlockSize)
          <=> c = b
    BY <2>2, Facts
  <2> QED BY <1>2, <2>1, <2>3 DEF BlockAt
<1> QED BY <1>1, <1>2

LEMMA ScriptLabels ==
    /\ ScriptPcs = {"cmd2", "cmd3", "cmd9", "cmd10", "cmd7", "cmd16", "app6",
                    "acmd6", "app42", "acmd42"}
    /\ \A l \in ScriptPcs :
         /\ Script[l].cmd # "ACMD41"
         /\ Script[l].next = "app42" => Script[l].cmd = "ACMD6"
         /\ Script[l].next = "acmd42" => l = "app42"
         /\ Script[l].next = "off" <=> l = "acmd42"
         /\ Script[l].next \in ScriptPcs \cup {"off"}
         /\ l = "app42" => Script[l].cmd = "CMD55"
         /\ l = "acmd42" => Script[l].cmd = "ACMD42"
BY DEF Script, ScriptPcs

\* SDLIB_Init, and what a step of it that succeeds leaves behind.
LEMMA InitSteps ==
    ASSUME SetUp, SDLIB_Init
    PROVE  /\ CapacityKnown' /\ WideSet' /\ ReadyAtRest'
           /\ AddressKept' /\ ReadsBlockAsked'
           /\ ready' /\ ~ready =>
                 /\ kind' # NoCard /\ state' = "tran" /\ wide'
                 /\ bSDHC' = (kind' = "hc")
<1>0. "off" \notin ScriptPcs /\ ~("off" \in {"app42", "acmd42"})
  BY ScriptLabels
<1>1. CASE Call
  <2>1. ~undisturbed' /\ ~ready' /\ pc' = "cmd0" BY <1>1 DEF Call, Goto
  <2> QED BY <2>1, ScriptLabels DEF CapacityKnown, WideSet, ReadyAtRest,
             AddressKept, ReadsBlockAsked
<1>2. CASE pc # "off" /\ ~ready' /\ undisturbed' = undisturbed
             /\ pc' \notin ScriptPcs
  <2>1. ~ready /\ ~undisturbed BY <1>2 DEF SetUp, ReadyAtRest
  <2> QED BY <1>2, <2>1, ScriptLabels DEF CapacityKnown, WideSet, ReadyAtRest,
             AddressKept, ReadsBlockAsked
<1>3. CASE Reset \/ Cmd8 \/ ResetAgain \/ App41
  <2>1. pc # "off" /\ ready' = ready /\ undisturbed' = undisturbed
    BY <1>3 DEF Reset, Cmd8, ResetAgain, App41, InitFrame, Fail
  <2>2. pc' \in {"cmd8", "app41", "again", "acmd41", "off"}
    BY <1>3 DEF Reset, Cmd8, ResetAgain, App41, Fail, Goto
  <2> QED BY <2>1, <2>2, <1>2, ScriptLabels DEF SetUp, ReadyAtRest
<1>4. CASE Acmd41
  <2>0. pc = "acmd41" /\ undisturbed' = undisturbed /\ ready' = ready
    BY <1>4 DEF Acmd41, InitFrame, PollAgain, Fail
  <2>1. CASE Command("ACMD41", TRUE) /\ CapacityTold /\ pc' = "cmd2"
    <3>1. kind' = kind /\ PowersUp
      BY <2>1, CommandKeeps, CommandDone DEF Commands, LegalIn
    <3>2. bSDHC' = (kind' = "hc")
      BY <3>1, <2>1 DEF CapacityTold, PowersUp, SetUp, TypeOK
    <3>3. ~ready /\ ~undisturbed BY <2>0 DEF SetUp, ReadyAtRest
    <3> QED BY <2>0, <2>1, <3>2, <3>3 DEF CapacityKnown, WideSet, ReadyAtRest,
               AddressKept, ReadsBlockAsked
  <2>2. CASE PollAgain
    <3>1. pc' \in {"app41", "off"} BY <2>2 DEF PollAgain, Fail, Goto
    <3> QED BY <2>0, <3>1, <1>2, ScriptLabels DEF SetUp, ReadyAtRest
  <2> QED BY <1>4, <2>1, <2>2 DEF Acmd41, Goto
<1>5. CASE Identify
  <2>0. pc \in ScriptPcs /\ undisturbed' = undisturbed /\ bSDHC' = bSDHC
    BY <1>5 DEF Identify, InitFrame
  <2>1. ~ready /\ ~undisturbed
    BY <2>0, ScriptLabels DEF SetUp, ReadyAtRest
  <2>2. PICK ok \in BOOLEAN :
          /\ Command(Script[pc].cmd, ok)
          /\ \/ /\ ok /\ pc' = Script[pc].next
                /\ ready' = (pc = "acmd42")
             \/ ~ok /\ pc' = "off" /\ ready' = ready
    BY <1>5 DEF Identify, Goto, Fail
  <2> DEFINE c == Script[pc].cmd
  <2>3. c \in Commands /\ c # "ACMD41"
    BY <2>0, ScriptOf, ScriptLabels
  <2>4. /\ kind' = kind /\ (wide => wide')
        /\ state = "idle" => state' = "idle"
        /\ state # "idle" => state' # "idle"
        /\ c \in {"CMD55", "ACMD6", "ACMD42"} => state' = state
    BY <2>2, <2>3, CommandKeeps
  <2>5. CASE ~ok
    BY <2>1, <2>2, <2>5, <1>2, <2>0, ScriptLabels
  <2>6. CASE ok
    <3>1. Command(c, TRUE) BY <2>2, <2>6
    <3>2. kind # NoCard /\ Obeys(c) /\ (c = "ACMD6" => wide')
      BY <3>1, <2>3, CommandDone
    <3>3. pc' = Script[pc].next /\ ready' = (pc = "acmd42") BY <2>2, <2>6
    <3>4. state # "idle" => bSDHC = (kind = "hc")
      BY <2>0 DEF SetUp, CapacityKnown
    <3>5. CapacityKnown' BY <3>4, <2>4, <2>0 DEF CapacityKnown
    <3>6. WideSet'
      <4>1. CASE pc' = "app42" BY <4>1, <3>2, <3>3, <2>0, ScriptLabels
                               DEF WideSet
      <4>2. CASE pc' = "acmd42"
        <5>1. pc = "app42" /\ c = "CMD55"
          BY <4>2, <3>3, <2>0, ScriptLabels
        <5> QED BY <5>1, <2>4 DEF SetUp, WideSet
      <4> QED BY <4>1, <4>2 DEF WideSet
    <3>7. ready' => pc' = "off" BY <3>3, <2>0, ScriptLabels
    <3>8. ready' => /\ kind' # NoCard /\ state' = "tran" /\ wide'
                    /\ bSDHC' = (kind' = "hc")
      <4> SUFFICES ASSUME pc = "acmd42"
                   PROVE  /\ kind' # NoCard /\ state' = "tran" /\ wide'
                          /\ bSDHC' = (kind' = "hc")
        BY <3>3
      <4>1. c = "ACMD42" BY <2>0, ScriptLabels
      <4>2. state = "tran" BY <4>1, <3>2, NextStates DEF Obeys
      <4>3. wide BY <4>2 DEF SetUp, WideSet
      <4> QED BY <4>1, <4>2, <4>3, <3>2, <3>4, <2>4, <2>0
    <3> QED BY <3>5, <3>6, <3>7, <3>8, <2>0, <2>1
            DEF ReadyAtRest, AddressKept, ReadsBlockAsked
  <2> QED BY <2>5, <2>6
<1> QED BY <1>1, <1>3, <1>4, <1>5 DEF SDLIB_Init

\* SDLIB_ReadBlock512
LEMMA ReadSteps ==
    ASSUME SetUp, SDLIB_ReadBlock512
    PROVE  /\ CapacityKnown' /\ WideSet' /\ ReadyAtRest'
           /\ AddressKept' /\ ReadsBlockAsked'
           /\ ready' = ready
<1>1. pc' = pc /\ ready' = ready /\ bSDHC' = bSDHC
  BY DEF SDLIB_ReadBlock512, ReadCall, ReadCommand, ReadStart, ReadBytes,
         ReadFrame, infoVars, initVars
<1>2. kind' = kind /\ state' = state /\ (wide => wide')
  <2>1. CASE ReadCommand
    <3>1. CASE Lost("CMD17") BY <3>1 DEF Lost, cardVars
    <3>2. CASE Refused("CMD17") BY <3>2 DEF Refused
    <3>3. CASE \E answer \in BOOLEAN : CardDoes("CMD17", answer)
      BY <3>3, NextStates DEF CardDoes
    <3> QED BY <2>1, <3>1, <3>2, <3>3 DEF ReadCommand
  <2> QED BY <2>1 DEF SDLIB_ReadBlock512, ReadCall, ReadStart, ReadBytes,
                      cardVars
<1>3. CapacityKnown' /\ WideSet'
  BY <1>1, <1>2 DEF SetUp, CapacityKnown, WideSet
<1>4. /\ ready => pc = "off"
      /\ undisturbed => /\ ready /\ asked \in Blocks
                        /\ addr = AddressOf(asked)
      /\ ReadsBlockAsked
  BY DEF SetUp, ReadyAtRest, AddressKept
<1>5. ASSUME ~undisturbed'
      PROVE  ReadyAtRest' /\ AddressKept' /\ ReadsBlockAsked'
  BY <1>1, <1>4, <1>5 DEF ReadyAtRest, AddressKept, ReadsBlockAsked
<1>6. ASSUME UNCHANGED <<asked, addr, undisturbed>>,
             undisturbed => sending' \in {asked, NoBlock, sending},
             rpc \in {"start", "bytes"} \/ sending' # sending \/ ~undisturbed
      PROVE  ReadyAtRest' /\ AddressKept' /\ ReadsBlockAsked'
  BY <1>1, <1>4, <1>6 DEF ReadyAtRest, AddressKept, ReadsBlockAsked, AddressOf
<1>7. CASE ReadCall
  <2>1. asked' \in Blocks /\ addr' = AddressOf(asked') /\ rpc' = "cmd17"
    BY <1>7 DEF ReadCall
  <2>2. undisturbed' => ready /\ pc = "off" BY <1>7 DEF ReadCall
  <2>3. addr' = AddressOf(asked)' BY <2>1, <1>1 DEF AddressOf
  <2> QED BY <1>1, <1>3, <1>4, <2>1, <2>2, <2>3
          DEF ReadyAtRest, AddressKept, ReadsBlockAsked
<1>8. CASE ReadCommand
  <2>1. CASE EndRead BY <1>1, <1>3, <1>5, <2>1 DEF EndRead
  <2>2. CASE /\ UNCHANGED <<asked, addr, undisturbed>>
             /\ Obeys("CMD17") /\ sending' = BlockAt(addr)
    <3>1. state = "tran" BY <2>2, NextStates DEF Obeys
    <3>2. undisturbed => BlockAt(addr) = asked
      <4> SUFFICES ASSUME undisturbed PROVE BlockAt(addr) = asked OBVIOUS
      <4>1. bSDHC = (kind = "hc")
        BY <3>1, <1>4 DEF SetUp, CapacityKnown
      <4> QED BY <4>1, <1>4, BlockAtAddress
    <3>3. undisturbed => sending' = asked BY <2>2, <3>2
    <3>4. addr' = AddressOf(asked)' \/ addr # AddressOf(asked)
      BY <2>2, <1>1 DEF AddressOf
    <3> QED BY <1>1, <1>3, <1>4, <2>2, <3>3, <3>4
            DEF ReadyAtRest, AddressKept, ReadsBlockAsked
  <2>3. EndRead \/ /\ UNCHANGED <<asked, addr, undisturbed>>
                   /\ Obeys("CMD17") /\ sending' = BlockAt(addr)
    BY <1>8 DEF ReadCommand
  <2> QED BY <2>1, <2>2, <2>3, <1>1
<1>9. CASE ReadStart
  <2>1. CASE EndRead BY <1>1, <1>3, <1>5, <2>1 DEF EndRead
  <2>2. CASE UNCHANGED <<sending, asked, addr, undisturbed>> /\ rpc = "start"
    BY <1>1, <1>3, <1>6, <2>2
  <2> QED BY <1>9, <2>1, <2>2 DEF ReadStart, cardVars
<1>10. CASE ReadBytes
  <2>1. ~undisturbed' BY <1>10 DEF ReadBytes, EndRead
  <2> QED BY <1>1, <1>3, <1>5, <2>1
<1> QED BY <1>7, <1>8, <1>9, <1>10 DEF SDLIB_ReadBlock512

LEMMA SetUpStep ==
    ASSUME SetUp, [Next]_vars
    PROVE  /\ SetUp'
           /\ ready' /\ ~ready =>
                 /\ kind' # NoCard /\ state' = "tran" /\ wide'
                 /\ bSDHC' = (kind' = "hc")
<1>1. TypeOK' BY TypeStep DEF SetUp
<1>2. CASE SDLIB_Init BY <1>1, <1>2, InitSteps DEF SetUp
<1>3. CASE SDLIB_ReadBlock512 BY <1>1, <1>3, ReadSteps DEF SetUp
<1>4. CASE ChangeCard
  BY <1>1, <1>4 DEF ChangeCard, SetUp, CapacityKnown, WideSet, ReadyAtRest,
     AddressKept, AddressOf, ReadsBlockAsked, infoVars, initVars, readVars
<1>5. CASE ClockedOut
  BY <1>1, <1>5 DEF ClockedOut, SetUp, CapacityKnown, WideSet, ReadyAtRest,
     AddressKept, AddressOf, ReadsBlockAsked, infoVars, initVars, readVars
<1>6. CASE Calm \/ UNCHANGED vars
  BY <1>1, <1>6 DEF Calm, vars, SetUp, CapacityKnown, WideSet, ReadyAtRest,
     AddressKept, AddressOf, ReadsBlockAsked, cardVars, infoVars, initVars,
     readVars
<1> QED BY <1>2, <1>3, <1>4, <1>5, <1>6 DEF Next

LEMMA SetUpInit == Init => SetUp
<1>1. Init => TypeOK BY Zeros DEF Init, TypeOK, States, InitPcs
<1> QED BY <1>1, ScriptLabels DEF Init, SetUp, CapacityKnown, WideSet,
           ReadyAtRest, AddressKept, ReadsBlockAsked

\* When SDLIB_Init returns TRUE the card in the slot is selected, on four
\* lines, and gSdInfo names its capacity.
THEOREM InitSetsUpCard == Spec => InitSetsUp
<1>1. SetUp /\ [Next]_vars =>
        SetUp' /\ [ready' /\ ~ready =>
                     /\ kind' # NoCard /\ state' = "tran" /\ wide'
                     /\ bSDHC' = (kind' = "hc")]_vars
  BY SetUpStep
<1> QED BY SetUpInit, <1>1, PTL DEF Spec, InitSetsUp

\* Every block taken in while gSdInfo is valid is the one asked for.
THEOREM BlockAsked == Spec => []ReadsBlockAsked
<1>1. SetUp /\ [Next]_vars => SetUp' BY SetUpStep
<1>2. SetUp => ReadsBlockAsked BY DEF SetUp
<1> QED BY SetUpInit, <1>1, <1>2, PTL DEF Spec

-----------------------------------------------------------------------------
\* What a call of SDLIB_Init comes to when nobody touches the card, reads or
\* disturbs the bus from its first command on.

Untouched == calm /\ kind # NoCard /\ rpc = "idle"

\* A call begins without a card address and without a poll.
Fresh ==
    /\ pc \in InitPcs \ (ScriptPcs \cup {"off"}) => RCA16 = 0
    /\ pc \in {"cmd0", "cmd8", "again"} => polls = 0

PoweringUp ==
    /\ state = "idle" /\ sending = NoBlock /\ ~illegal
    /\ busy + polls <= MaxPolls
    /\ kind = "hc" => bSDHC

\* The state in which each command of the script finds the card.
StateAt(l) ==
    IF l = "cmd2" THEN "ready"
    ELSE IF l = "cmd3" THEN "ident"
    ELSE IF l \in {"cmd9", "cmd10", "cmd7"} THEN "stby" ELSE "tran"

OnTrack ==
    /\ Untouched
    /\ pc = "off" => ready
    /\ pc = "cmd8" => state = "idle" /\ sending = NoBlock
    /\ pc = "again" => kind # "hc"
    /\ pc \in {"app41", "acmd41"} => PoweringUp
    /\ pc \in ScriptPcs =>
          state = StateAt(pc) /\ sending = NoBlock /\ ~illegal /\ Addressed
    /\ pc \in {"acmd41", "acmd6", "acmd42"} => appCmd

LEMMA ScriptAt ==
    ASSUME NEW l \in ScriptPcs
    PROVE  LET c == Script[l].cmd
               n == Script[l].next
           IN  /\ c \in Commands \ {"ACMD41", "CMD8"}
               /\ StateAt(l) \in LegalIn[c]
               /\ c \in AppCommands => l \in {"acmd6", "acmd42"}
               /\ (c = "CMD55") <=> n \in {"acmd6", "acmd42"}
               /\ n = "off" => l = "acmd42"
               /\ n \in ScriptPcs =>
                    StateAt(n) = IF c \in DOMAIN NextState THEN NextState[c]
                                 ELSE StateAt(l)
               /\ n \in {"cmd0", "cmd8", "again", "app41", "acmd41"} => FALSE
               /\ n \in ScriptPcs =>
                    (StateAt(n) \in {"stby", "tran"} <=>
                        l = "cmd3" \/ StateAt(l) \in {"stby", "tran"})
BY DEF Script, ScriptPcs, StateAt, Commands, LegalIn, AppCommands, NextState

LEMMA FreshStep == Fresh /\ [Next]_vars => Fresh'
<1> SUFFICES ASSUME Fresh, [Next]_vars PROVE Fresh' OBVIOUS
<1>1. CASE Call
  BY <1>1 DEF Call, Goto, Fresh
<1>2. CASE Reset
  BY <1>2, ScriptLabels DEF Reset, Goto, Fresh, infoVars, InitPcs
<1>3. CASE Cmd8
  BY <1>3, ScriptLabels DEF Cmd8, Goto, Fresh, InitPcs
<1>4. CASE ResetAgain
  BY <1>4, ScriptLabels DEF ResetAgain, Goto, Fresh, infoVars, InitPcs
<1>5. CASE App41
  BY <1>5, ScriptLabels DEF App41, Fail, Goto, Fresh, infoVars, InitPcs
<1>6. CASE Acmd41
  BY <1>6, ScriptLabels DEF Acmd41, PollAgain, Fail, Goto, Fresh, InitPcs
<1>7. CASE Identify
  <2>1. pc' \in ScriptPcs \cup {"off"}
    BY <1>7, ScriptLabels DEF Identify, Fail, Goto
  <2> QED BY <2>1, ScriptLabels DEF Fresh
<1>8. CASE UNCHANGED <<infoVars, initVars>>
  BY <1>8 DEF Fresh, infoVars, initVars
<1>9. SDLIB_ReadBlock512 \/ ChangeCard \/ ClockedOut \/ Calm \/ UNCHANGED vars
        => UNCHANGED <<infoVars, initVars>>
  BY DEF SDLIB_ReadBlock512, ReadCall, ReadCommand, ReadStart, ReadBytes,
         ReadFrame, ChangeCard, ClockedOut, Calm, vars, infoVars, initVars
<1> QED BY <1>1, <1>2, <1>3, <1>4, <1>5, <1>6, <1>7, <1>8, <1>9
        DEF Next, SDLIB_Init

\* A card that is left alone obeys, and its answer arrives.
LEMMA Carried ==
    ASSUME Untouched, NEW c \in Commands, NEW ok \in BOOLEAN, Command(c, ok),
           Obeys(c), c \in WithAddress => Addressed
    PROVE  CardDoes(c, ok) /\ sending' = sending
<1>1. ~Lost(c) /\ ~Refused(c) BY DEF Untouched, Lost, Refused
<1>2. PICK answer \in BOOLEAN :
        CardDoes(c, answer) /\ ok = answer /\ sending' = sending
  BY <1>1 DEF Command, Untouched
<1> QED BY <1>2

LEMMA ResetDone ==
    ASSUME Untouched, SD_CMD0
    PROVE  /\ kind' = kind /\ state' = "idle" /\ ~illegal'
           /\ sending' = NoBlock /\ busy' \in 0 .. MaxBusy
BY DEF Untouched, SD_CMD0

\* A call that is on its way stays so, step by step.
LEMMA InitOnTrack ==
    ASSUME TypeOK, Fresh, SDLIB_Init, OnTrack
    PROVE  OnTrack'
<1>0. ScriptPcs \cap {"off", "cmd0", "cmd8", "again", "app41", "acmd41"} = {}
  BY ScriptLabels
<1>1. CASE Call
  BY <1>0, <1>1 DEF Call, Goto, OnTrack, Untouched, cardVars
<1>2. CASE Reset
  <2>1. pc' = "cmd8" /\ UNCHANGED <<calm, rpc>>
    BY <1>2 DEF Reset, Goto, InitFrame
  <2>2. kind' = kind /\ state' = "idle" /\ sending' = NoBlock
    BY <1>2, ResetDone DEF Reset, OnTrack
  <2> QED BY <1>0, <2>1, <2>2 DEF OnTrack, Untouched
<1>3. CASE Cmd8
  <2>1. PICK ok \in BOOLEAN :
          /\ Command("CMD8", ok) /\ bSDHC' = ok
          /\ pc' = IF ok THEN "app41" ELSE "again"
    BY <1>3 DEF Cmd8, Goto
  <2>2. /\ pc = "cmd8" /\ polls = 0 /\ state = "idle" /\ sending = NoBlock
        /\ UNCHANGED <<polls, calm, rpc>>
    BY <1>3 DEF Cmd8, InitFrame, Fresh, OnTrack
  <2>3. "CMD8" \in Commands /\ "CMD8" \notin WithAddress
        /\ "CMD8" \notin WithStatus /\ "CMD8" \notin DOMAIN NextState
        /\ LegalIn["CMD8"] = {"idle"} /\ "CMD8" \notin AppCommands
    BY NextStates DEF Commands, LegalIn, WithAddress, WithStatus, AppCommands
  <2>4. kind' = kind /\ sending' = NoBlock
    BY <2>1, <2>2, <2>3, CommandKeeps
  <2>5. CASE kind = "v1"
    <3>1. ~ok BY <2>1, <2>3, <2>5, CommandDone DEF Obeys
    <3> QED BY <1>0, <2>1, <2>2, <2>4, <2>5, <3>1 DEF OnTrack, Untouched
  <2>6. CASE kind # "v1"
    <3>1. CardDoes("CMD8", ok)
      BY <2>1, <2>2, <2>3, <2>6, Carried DEF Obeys, OnTrack
    <3>2. ok /\ state' = "idle" /\ ~illegal' /\ busy' = busy
      BY <2>2, <2>3, <3>1 DEF CardDoes
    <3>3. busy + 0 <= MaxPolls
      BY SdAssumption DEF TypeOK
    <3>4. PoweringUp' BY <2>1, <2>2, <2>4, <3>2, <3>3 DEF PoweringUp
    <3> QED BY <1>0, <2>1, <2>2, <2>4, <3>2, <3>4 DEF OnTrack, Untouched
  <2> QED BY <2>5, <2>6
<1>4. CASE ResetAgain
  <2>1. pc = "again" /\ pc' = "app41" /\ UNCHANGED <<calm, rpc, polls>>
    BY <1>4 DEF ResetAgain, Goto, InitFrame
  <2>2. /\ kind' = kind /\ state' = "idle" /\ sending' = NoBlock /\ ~illegal'
        /\ busy' \in 0 .. MaxBusy
    BY <1>4, ResetDone DEF ResetAgain, OnTrack
  <2>3. busy' + polls' <= MaxPolls
    <3>1. polls' = 0 BY <2>1 DEF Fresh
    <3>2. MaxBusy \in Nat /\ MaxPolls \in Nat /\ MaxBusy <= MaxPolls
      BY SdAssumption
    <3>3. busy' \in 0 .. MaxBusy BY <2>2
    <3>4. busy' \in Nat /\ busy' <= MaxPolls BY <3>2, <3>3
    <3> QED BY <3>1, <3>4
  <2>4. PoweringUp' BY <2>1, <2>2, <2>3 DEF PoweringUp, OnTrack
  <2> QED BY <1>0, <2>1, <2>2, <2>4 DEF OnTrack, Untouched
<1>5. CASE App41
  <2>1. PICK ok \in BOOLEAN :
          /\ Command("CMD55", ok)
          /\ ~ok \/ (pc' = "acmd41" /\ polls' = polls)
    BY <1>5 DEF App41, Goto
  <2>2. pc = "app41" /\ UNCHANGED <<bSDHC, calm, rpc>>
    BY <1>5 DEF App41, InitFrame, infoVars
  <2>3. PoweringUp /\ RCA16 = 0
    BY <2>2, ScriptLabels DEF OnTrack, Fresh, InitPcs
  <2>4. /\ "CMD55" \in Commands /\ "CMD55" \notin AppCommands
        /\ "idle" \in LegalIn["CMD55"] /\ "CMD55" \notin DOMAIN NextState
    BY NextStates DEF Commands, LegalIn, AppCommands
  <2>5. CardDoes("CMD55", ok) /\ sending' = sending
    BY <2>1, <2>3, <2>4, Carried DEF Obeys, Addressed, PoweringUp, OnTrack
  <2>6. /\ ok /\ appCmd' /\ ~illegal' /\ state' = state /\ busy' = busy
        /\ kind' = kind
    BY <2>3, <2>4, <2>5 DEF CardDoes, PoweringUp
  <2>7. PoweringUp' BY <2>1, <2>2, <2>3, <2>5, <2>6 DEF PoweringUp
  <2> QED BY <1>0, <2>1, <2>2, <2>6, <2>7 DEF OnTrack, Untouched
<1>6. CASE Acmd41
  <2>1. PICK ok \in BOOLEAN :
          /\ Command("ACMD41", ok)
          /\ \/ ok /\ CapacityTold /\ pc' = "cmd2" /\ polls' = polls
             \/ ~ok /\ PollAgain /\ bSDHC' = bSDHC
    BY <1>6 DEF Acmd41, Goto
  <2>2. pc = "acmd41" /\ UNCHANGED <<RCA16, calm, rpc>>
    BY <1>6 DEF Acmd41, InitFrame
  <2>3. PoweringUp /\ RCA16 = 0 /\ appCmd
    BY <2>2, ScriptLabels DEF OnTrack, Fresh, InitPcs
  <2>4. /\ "ACMD41" \in Commands /\ "ACMD41" \notin WithAddress
        /\ "ACMD41" \notin WithStatus /\ "ACMD41" \in DOMAIN NextState
        /\ LegalIn["ACMD41"] = {"idle"} /\ NextState["ACMD41"] = "ready"
    BY NextStates DEF Commands, LegalIn, WithAddress, WithStatus
  <2>5. CardDoes("ACMD41", ok) /\ sending' = sending
    BY <2>1, <2>3, <2>4, Carried DEF Obeys, PoweringUp, OnTrack
  <2>6. kind' = kind /\ ~illegal' /\ (ok <=> PowersUp)
    BY <2>4, <2>5 DEF CardDoes
  <2>7. CASE ok
    <3>1. state' = "ready" /\ pc' = "cmd2"
      BY <2>1, <2>4, <2>5, <2>6, <2>7 DEF CardDoes
    <3>2. sending' = NoBlock BY <2>3, <2>5 DEF PoweringUp
    <3>3. Addressed' BY <2>2, <2>3, <3>1 DEF Addressed
    <3>4. pc' \in ScriptPcs /\ StateAt(pc') = "ready"
      BY <3>1, ScriptLabels DEF StateAt
    <3> QED BY <1>0, <2>2, <2>6, <3>1, <3>2, <3>3, <3>4 DEF OnTrack, Untouched
  <2>8. CASE ~ok
    <3>1. busy > 0 /\ busy \in Nat /\ polls \in Nat
      BY <2>3, <2>6, <2>8 DEF PoweringUp, PowersUp, TypeOK
    <3>2. busy' = busy - 1 /\ state' = state
      BY <2>5, <2>6, <2>8, <3>1 DEF CardDoes
    <3>3. polls < MaxPolls BY <2>3, <3>1, SdAssumption DEF PoweringUp
    <3>4. polls' = polls + 1 /\ pc' = "app41" /\ bSDHC' = bSDHC
      BY <2>1, <2>8, <3>3, SdAssumption DEF PollAgain, Goto
    <3>5. busy' + polls' <= MaxPolls
      BY <2>3, <3>1, <3>2, <3>4, SdAssumption DEF PoweringUp
    <3>6. PoweringUp' BY <2>3, <2>5, <2>6, <3>2, <3>4, <3>5 DEF PoweringUp
    <3> QED BY <1>0, <2>2, <2>6, <3>4, <3>6 DEF OnTrack, Untouched
  <2> QED BY <2>7, <2>8
<1>7. CASE Identify
  <2> DEFINE c == Script[pc].cmd
             n == Script[pc].next
  <2>1. pc \in ScriptPcs /\ UNCHANGED <<calm, rpc>>
    BY <1>7 DEF Identify, InitFrame
  <2>2. PICK ok \in BOOLEAN :
          /\ Command(c, ok)
          /\ RCA16' = IF ok /\ pc = "cmd3" THEN 1 ELSE RCA16
          /\ ~ok \/ (pc' = n /\ ready' = (pc = "acmd42"))
    BY <1>7 DEF Identify, Goto
  <2>3. /\ state = StateAt(pc) /\ sending = NoBlock /\ ~illegal /\ Addressed
        /\ pc \in {"acmd6", "acmd42"} => appCmd
    BY <2>1 DEF OnTrack
  <2>4. /\ c \in Commands \ {"ACMD41", "CMD8"} /\ state \in LegalIn[c]
        /\ c \in AppCommands => appCmd
    BY <2>1, <2>3, ScriptAt
  <2>5. CardDoes(c, ok) /\ sending' = NoBlock
    BY <2>2, <2>3, <2>4, Carried DEF Obeys, OnTrack
  <2>6. /\ ok /\ kind' = kind /\ ~illegal' /\ appCmd' = (c = "CMD55")
        /\ state' = IF c \in DOMAIN NextState THEN NextState[c] ELSE state
    <3> HIDE DEF c
    <3> QED BY <2>3, <2>4, <2>5 DEF CardDoes
  <2>7. pc' = n /\ ready' = (pc = "acmd42") BY <2>2, <2>6
  <2>8. CASE n \in ScriptPcs
    <3>1. state' = StateAt(n) BY <2>1, <2>3, <2>6, <2>8, ScriptAt
    <3>2. Addressed'
      BY <2>1, <2>2, <2>3, <2>6, <2>8, <3>1, ScriptAt DEF Addressed
    <3>3. n \in {"acmd41", "acmd6", "acmd42"} => appCmd'
      BY <2>1, <2>6, ScriptAt
    <3> QED BY <1>0, <2>1, <2>5, <2>6, <2>7, <2>8, <3>1, <3>2, <3>3
            DEF OnTrack, Untouched
  <2>9. CASE n = "off"
    <3>1. ready' BY <2>1, <2>7, <2>9, ScriptAt
    <3> QED BY <1>0, <2>1, <2>6, <2>7, <2>9, <3>1 DEF OnTrack, Untouched
  <2> QED BY <2>1, <2>8, <2>9, ScriptLabels
<1> QED BY <1>1, <1>2, <1>3, <1>4, <1>5, <1>6, <1>7 DEF SDLIB_Init

LEMMA OnTrackKept ==
    ASSUME TypeOK, Fresh, OnTrack, [Next]_vars, [calm']_vars
    PROVE  OnTrack'
<1>1. CASE SDLIB_Init BY <1>1, InitOnTrack
<1>2. CASE SDLIB_ReadBlock512
  BY <1>2 DEF SDLIB_ReadBlock512, ReadCall, ReadCommand, ReadStart, ReadBytes,
              OnTrack, Untouched
<1>3. CASE ChangeCard BY <1>3 DEF ChangeCard, OnTrack, Untouched
<1>4. CASE ClockedOut
  BY <1>4 DEF ClockedOut, OnTrack, Untouched, PoweringUp, Addressed, infoVars,
     initVars, readVars
<1>5. CASE Calm
  <2>1. calm /\ ~calm' BY <1>5 DEF Calm, OnTrack, Untouched
  <2>2. vars' = vars => (calm' <=> calm) BY DEF vars
  <2> QED BY <2>1, <2>2, Zenon
<1>6. CASE UNCHANGED vars
  BY <1>6 DEF vars, OnTrack, Untouched, PoweringUp, Addressed, cardVars,
     infoVars, initVars, readVars
<1> QED BY <1>1, <1>2, <1>3, <1>4, <1>5, <1>6 DEF Next

\* Whatever state a card was left in, by an exchange of cards, a call that
\* broke off, a command it refused or a block nobody took in: a call of
\* SDLIB_Init from whose CMD0 on the bus is undisturbed, the card in its slot
\* and nobody reading returns TRUE, and so does every later one; the one
\* second of polls is enough for a card that powers up within MaxBusy of them
\* (sd_lib.c:85-266).
THEOREM QuietCallSucceeds ==
    Spec => []( pc = "cmd0" /\ Untouched /\ [][calm']_vars =>
                    [](pc = "off" => ready) )
<1>1. Init => TypeOK /\ Fresh
  <2>1. Init => TypeOK BY SetUpInit DEF SetUp
  <2>2. Init => Fresh BY DEF Init, Fresh
  <2> QED BY <2>1, <2>2
<1>2. TypeOK /\ Fresh /\ [Next]_vars => TypeOK' /\ Fresh'
  BY TypeStep, FreshStep
<1>3. pc = "cmd0" /\ Untouched => OnTrack BY ScriptLabels DEF OnTrack
<1>4. TypeOK /\ Fresh /\ OnTrack /\ [Next]_vars /\ [calm']_vars => OnTrack'
  BY OnTrackKept
<1>5. OnTrack => (pc = "off" => ready) BY DEF OnTrack
<1> QED BY <1>1, <1>2, <1>3, <1>4, <1>5, PTL DEF Spec

-----------------------------------------------------------------------------
\* What a call of SDLIB_Init has left to do: the commands of the script, and
\* before them two commands for every poll that still fits in nTimeout.

CommandsLeft ==
    [cmd2 |-> 10, cmd3 |-> 9, cmd9 |-> 8, cmd10 |-> 7, cmd7 |-> 6,
     cmd16 |-> 5, app6 |-> 4, acmd6 |-> 3, app42 |-> 2, acmd42 |-> 1]

BeforePowerUp ==
    [cmd0 |-> 5, cmd8 |-> 4, again |-> 3, app41 |-> 2, acmd41 |-> 1]

InitLeft ==
    IF pc = "off" THEN 0
    ELSE IF pc \in ScriptPcs THEN CommandsLeft[pc]
    ELSE 10 + 2 * (MaxPolls - polls) + BeforePowerUp[pc]

NearerReturn ==
    /\ SDLIB_Init =>
          Call \/ (InitLeft \in Nat /\ InitLeft' \in Nat /\ InitLeft' < InitLeft)
    /\ ~SDLIB_Init => InitLeft' = InitLeft

LEMMA LeftOf ==
    /\ \A l \in ScriptPcs :
          /\ CommandsLeft[l] \in 1 .. 10
          /\ Script[l].next \in ScriptPcs =>
                CommandsLeft[Script[l].next] < CommandsLeft[l]
    /\ BeforePowerUp["cmd0"] = 5 /\ BeforePowerUp["cmd8"] = 4
    /\ BeforePowerUp["again"] = 3 /\ BeforePowerUp["app41"] = 2
    /\ BeforePowerUp["acmd41"] = 1
    /\ ScriptPcs \cap {"off", "cmd0", "cmd8", "again", "app41", "acmd41"} = {}
BY DEF Script, ScriptPcs, CommandsLeft, BeforePowerUp

LEMMA ScriptNext == \A l \in ScriptPcs : Script[l].next # l /\ l # "off"
BY DEF Script, ScriptPcs

\* The labels before the script, one after the other.
LEMMA FirstLeft ==
    ASSUME NEW l \in {"cmd0", "cmd8", "again", "app41", "acmd41"},
           NEW n \in {"cmd0", "cmd8", "again", "app41", "acmd41"},
           TypeOK, TypeOK', pc = l, pc' = n,
           \/ polls' = polls /\ BeforePowerUp[n] < BeforePowerUp[l]
           \/ polls' = polls + 1 /\ l = "acmd41" /\ n = "app41"
    PROVE  InitLeft \in Nat /\ InitLeft' \in Nat /\ InitLeft' < InitLeft
<1>1. /\ polls \in Nat /\ polls' \in Nat /\ MaxPolls \in Nat
      /\ polls <= MaxPolls /\ polls' <= MaxPolls
  BY Facts DEF TypeOK
<1>2. BeforePowerUp[l] \in 1 .. 5 /\ BeforePowerUp[n] \in 1 .. 5
  BY LeftOf
<1>3. /\ InitLeft = 10 + 2 * (MaxPolls - polls) + BeforePowerUp[l]
      /\ InitLeft' = 10 + 2 * (MaxPolls - polls') + BeforePowerUp[n]
  BY LeftOf DEF InitLeft
<1>4. CASE polls' = polls /\ BeforePowerUp[n] < BeforePowerUp[l]
  BY <1>1, <1>2, <1>3, <1>4
<1>5. CASE polls' = polls + 1 /\ l = "acmd41" /\ n = "app41"
  <2>1. BeforePowerUp[l] = 1 /\ BeforePowerUp[n] = 2 BY <1>5, LeftOf
  <2> QED BY <1>1, <1>3, <1>5, <2>1
<1> QED BY <1>4, <1>5

\* Leaving them, or a call that ends.
LEMMA LastLeft ==
    ASSUME TypeOK, pc # "off",
           \/ pc' = "off"
           \/ pc' \in ScriptPcs /\ pc \notin ScriptPcs
           \/ /\ pc \in ScriptPcs /\ pc' \in ScriptPcs
              /\ pc' = Script[pc].next
    PROVE  InitLeft \in Nat /\ InitLeft' \in Nat /\ InitLeft' < InitLeft
<1>1. polls \in Nat /\ MaxPolls \in Nat /\ polls <= MaxPolls
  BY Facts DEF TypeOK
<1>2. CASE pc \in ScriptPcs
  <2>1. InitLeft = CommandsLeft[pc] /\ InitLeft \in 1 .. 10
    BY <1>2, LeftOf DEF InitLeft
  <2>2. \/ InitLeft' = 0
        \/ InitLeft' = CommandsLeft[pc'] /\ InitLeft' \in 1 .. 10
             /\ CommandsLeft[pc'] < CommandsLeft[pc]
    BY <1>2, LeftOf DEF InitLeft
  <2> QED BY <2>1, <2>2
<1>3. CASE pc \notin ScriptPcs
  <2>1. pc \in {"cmd0", "cmd8", "again", "app41", "acmd41"}
    BY <1>3 DEF TypeOK, InitPcs
  <2>2. BeforePowerUp[pc] \in 1 .. 5 BY <2>1, LeftOf
  <2>3. InitLeft = 10 + 2 * (MaxPolls - polls) + BeforePowerUp[pc]
    BY <1>3 DEF InitLeft
  <2>4. InitLeft \in Nat /\ InitLeft > 10 BY <1>1, <2>2, <2>3
  <2>5. InitLeft' \in 0 .. 10
    <3>1. CASE pc' = "off" BY <3>1 DEF InitLeft
    <3>2. CASE pc' \in ScriptPcs
      <4>1. InitLeft' = CommandsLeft[pc'] /\ CommandsLeft[pc'] \in 1 .. 10
        BY <3>2, LeftOf DEF InitLeft
      <4> QED BY <4>1
    <3> QED BY <1>3, <3>1, <3>2
  <2> QED BY <2>4, <2>5
<1> QED BY <1>2, <1>3

\* Every call of SDLIB_Init returns, whatever cards are exchanged and answers
\* lost meanwhile: each command brings it nearer to its end, a read in one of
\* its sleeps sets nothing back, and a card that stays busy is given up after
\* MaxPolls (sd_lib.c:85-266).
THEOREM CardCallReturns == Spec => [][NearerReturn]_vars
<1>1. Init => TypeOK BY SetUpInit DEF SetUp
<1>2. TypeOK /\ [Next]_vars => TypeOK' /\ [NearerReturn]_vars
  <2> SUFFICES ASSUME TypeOK, Next PROVE NearerReturn
    BY TypeStep DEF vars
  <2>0. TypeOK' BY TypeStep
  <2>1. CASE Call
    BY <2>1 DEF NearerReturn, SDLIB_Init
  <2>2. CASE Reset
    <3>1. pc = "cmd0" /\ pc' = "cmd8" /\ polls' = polls
      BY <2>2 DEF Reset, Goto
    <3> QED BY <2>0, <2>2, <3>1, LeftOf, FirstLeft DEF NearerReturn, SDLIB_Init
  <2>3. CASE Cmd8
    <3>1. pc = "cmd8" /\ pc' \in {"app41", "again"} /\ polls' = polls
      BY <2>3 DEF Cmd8, Goto
    <3> QED BY <2>0, <2>3, <3>1, LeftOf, FirstLeft DEF NearerReturn, SDLIB_Init
  <2>4. CASE ResetAgain
    <3>1. pc = "again" /\ pc' = "app41" /\ polls' = polls
      BY <2>4 DEF ResetAgain, Goto
    <3> QED BY <2>0, <2>4, <3>1, LeftOf, FirstLeft DEF NearerReturn, SDLIB_Init
  <2>5. CASE App41
    <3>1. pc = "app41" /\ ((pc' = "acmd41" /\ polls' = polls) \/ pc' = "off")
      BY <2>5 DEF App41, Goto, Fail
    <3> QED BY <2>0, <2>5, <3>1, LeftOf, FirstLeft, LastLeft
            DEF NearerReturn, SDLIB_Init
  <2>6. CASE Acmd41
    <3>1. /\ pc = "acmd41"
          /\ \/ pc' \in {"cmd2", "off"}
             \/ pc' = "app41" /\ polls' = polls + 1
      BY <2>6 DEF Acmd41, PollAgain, Goto, Fail
    <3> QED BY <2>0, <2>6, <3>1, LeftOf, ScriptLabels, FirstLeft, LastLeft
            DEF NearerReturn, SDLIB_Init
  <2>7. CASE Identify
    <3>1. pc \in ScriptPcs /\ (pc' = "off" \/ pc' = Script[pc].next)
      BY <2>7 DEF Identify, Goto, Fail
    <3> QED BY <2>7, <3>1, ScriptLabels, LeftOf, LastLeft
            DEF NearerReturn, SDLIB_Init
  <2>8. CASE SDLIB_ReadBlock512 \/ ChangeCard \/ ClockedOut \/ Calm
    <3>1. UNCHANGED initVars
      BY <2>8 DEF SDLIB_ReadBlock512, ReadCall, ReadCommand, ReadStart,
         ReadBytes, ReadFrame, ChangeCard, ClockedOut, Calm
    <3>2. pc' = pc /\ polls' = polls BY <3>1 DEF initVars
    <3>3. ~Identify
      BY <3>2, ScriptNext DEF Identify, Goto, Fail
    <3>4. ~(Call \/ Reset \/ Cmd8 \/ ResetAgain \/ App41 \/ Acmd41)
      BY <3>2 DEF Call, Reset, Cmd8, ResetAgain, App41, Acmd41, PollAgain,
         Goto, Fail
    <3>5. ~SDLIB_Init BY <3>3, <3>4 DEF SDLIB_Init
    <3> QED BY <3>2, <3>5 DEF NearerReturn, InitLeft
  <2> QED BY <2>1, <2>2, <2>3, <2>4, <2>5, <2>6, <2>7, <2>8
          DEF Next, SDLIB_Init
<1> QED BY <1>1, <1>2, PTL DEF Spec

(***************************************************************************)
(* The codec's bus                                                         *)
(***************************************************************************)

LEMMA BusConsts ==
    /\ Tasks \subseteq Nat /\ Bits \in Nat /\ Bits > 0
    /\ Device \in Byte /\ Device[Bits] = 0
    /\ \A t \in Tasks :
        Calls[t] \subseteq [writes : Seq(Write) \ {<<>>}, strict : BOOLEAN]
BY I2CAssumption

-----------------------------------------------------------------------------
(* Where a task is among its pins *)

ByteStages == {"address", "control", "data"}

\* The step that ends the last bit of a byte.
LastBit == 4 * Bits + 1

\* The bits the codec has taken before a step.
Sampled(k) == (k - 1) \div 4

LEMMA BitSteps ==
    ASSUME NEW k \in Nat, k >= 2, k <= LastBit
    PROVE  /\ LastBit \in Nat /\ Sampled(k) \in Nat /\ Sampled(k) <= Bits
           /\ \/ /\ k % 4 = 2 /\ ((k - 2) % 4) + 1 = 1 /\ k + 1 <= LastBit
                 /\ (k + 1) % 4 = 3 /\ Sampled(k + 1) = Sampled(k)
              \/ /\ k % 4 = 3 /\ ((k - 2) % 4) + 1 = 2 /\ k + 1 < LastBit
                 /\ (k + 1) % 4 = 0 /\ Sampled(k + 1) = Sampled(k)
                 /\ (k + 2) \div 4 = Sampled(k) + 1
                 /\ (k + 1 + 2) \div 4 = Sampled(k) + 1
              \/ /\ k % 4 = 0 /\ ((k - 2) % 4) + 1 = 3 /\ k + 1 <= LastBit
                 /\ (k + 1) % 4 = 1 /\ Sampled(k + 1) = Sampled(k) + 1
                 /\ (k + 2) \div 4 = Sampled(k) + 1 /\ Sampled(k) < Bits
              \/ /\ k % 4 = 1 /\ ((k - 2) % 4) + 1 = 4 /\ k >= 5
                 /\ Sampled(k) >= 1 /\ Sampled(k + 1) = Sampled(k)
                 /\ k = LastBit => Sampled(k) = Bits
                 /\ k # LastBit =>
                        k + 1 <= LastBit /\ (k + 1) % 4 = 2 /\ Sampled(k) < Bits
BY BusConsts DEF LastBit, Sampled

LEMMA FirstStep ==
    /\ LastBit \in Nat /\ LastBit >= 5 /\ Sampled(1) = 0 /\ Sampled(2) = 0
    /\ 1 % 4 = 1 /\ 2 % 4 = 2
BY BusConsts DEF LastBit, Sampled

PinKinds == {"dirOut", "dirIn", "sdaHigh", "sdaLow", "sdaBit", "sclHigh",
             "sclLow", "getAck"}

LEMMA WritePinsAre ==
    /\ Len(WritePins) = LastBit + 4
    /\ WritePins[1] = "dirOut"
    /\ \A k \in 2 .. LastBit : WritePins[k] = BitPins[((k - 2) % 4) + 1]
    /\ WritePins[LastBit + 1] = "dirIn" /\ WritePins[LastBit + 2] = "sclHigh"
    /\ WritePins[LastBit + 3] = "getAck" /\ WritePins[LastBit + 4] = "sclLow"
<1> DEFINE a == <<"dirOut">>
           b == [k \in 1 .. 4 * Bits |-> BitPins[((k - 1) % 4) + 1]]
           c == <<"dirIn", "sclHigh", "getAck", "sclLow">>
<1>1. 4 * Bits \in Nat /\ LastBit = 4 * Bits + 1 /\ LastBit \in Nat
  BY BusConsts DEF LastBit
<1>2. a \in Seq(PinKinds) /\ Len(a) = 1 /\ a[1] = "dirOut"
  BY DEF PinKinds
<1>3. /\ c \in Seq(PinKinds) /\ Len(c) = 4 /\ c[1] = "dirIn" /\ c[2] = "sclHigh"
      /\ c[3] = "getAck" /\ c[4] = "sclLow"
  BY DEF PinKinds
<1>4. b \in Seq(PinKinds) /\ Len(b) = 4 * Bits
  <2>1. \A k \in 1 .. 4 * Bits : BitPins[((k - 1) % 4) + 1] \in PinKinds
    <3> TAKE k \in 1 .. 4 * Bits
    <3>1. ((k - 1) % 4) + 1 \in 1 .. 4 OBVIOUS
    <3>2. BitPins \in Seq(PinKinds) /\ Len(BitPins) = 4
      BY DEF BitPins, PinKinds
    <3> QED BY <3>1, <3>2, ElementOfSeq
  <2> QED BY <1>1, <2>1, IsASeq
<1>5. \A k \in 1 .. 4 * Bits : b[k] = BitPins[((k - 1) % 4) + 1] OBVIOUS
<1>6. WritePins = (a \o b) \o c BY DEF WritePins
<1> HIDE DEF a, b, c
<1>7. /\ a \o b \in Seq(PinKinds) /\ Len(a \o b) = LastBit
      /\ \A k \in 1 .. LastBit : (a \o b)[k] = IF k <= 1 THEN a[k] ELSE b[k - 1]
  <2>1. /\ a \o b \in Seq(PinKinds) /\ Len(a \o b) = Len(a) + Len(b)
        /\ \A k \in 1 .. Len(a) + Len(b) :
               (a \o b)[k] = IF k <= Len(a) THEN a[k] ELSE b[k - Len(a)]
    BY <1>2, <1>4, ConcatProperties
  <2>2. Len(a) + Len(b) = LastBit BY <1>1, <1>2, <1>4
  <2> QED BY <1>2, <2>1, <2>2
<1> DEFINE d == a \o b
<1>8. /\ d \in Seq(PinKinds) /\ Len(d) = LastBit
      /\ \A k \in 1 .. LastBit : d[k] = IF k <= 1 THEN a[k] ELSE b[k - 1]
  BY <1>7
<1>9. WritePins = d \o c BY <1>6
<1> HIDE DEF d
<1>10. /\ Len(WritePins) = LastBit + 4
       /\ \A k \in 1 .. LastBit + 4 :
              WritePins[k] = IF k <= LastBit THEN d[k] ELSE c[k - LastBit]
  <2>1. /\ Len(d \o c) = Len(d) + Len(c)
        /\ \A k \in 1 .. Len(d) + Len(c) :
               (d \o c)[k] = IF k <= Len(d) THEN d[k] ELSE c[k - Len(d)]
    BY <1>3, <1>8, ConcatProperties
  <2> QED BY <1>3, <1>8, <1>9, <2>1
<1>11. WritePins[1] = "dirOut" BY <1>1, <1>2, <1>8, <1>10, FirstStep
<1>12. ASSUME NEW k \in 2 .. LastBit
       PROVE  WritePins[k] = BitPins[((k - 2) % 4) + 1]
  <2>1. k \in 1 .. LastBit + 4 /\ k <= LastBit /\ k \in 1 .. LastBit /\ ~(k <= 1)
        /\ k - 1 \in 1 .. 4 * Bits /\ k - 1 - 1 = k - 2
    BY <1>1
  <2> QED BY <1>5, <1>8, <1>10, <2>1
<1>13. /\ WritePins[LastBit + 1] = c[1] /\ WritePins[LastBit + 2] = c[2]
       /\ WritePins[LastBit + 3] = c[3] /\ WritePins[LastBit + 4] = c[4]
  <2>1. ASSUME NEW j \in 1 .. 4 PROVE WritePins[LastBit + j] = c[j]
    <3> DEFINE k == LastBit + j
    <3>1. k \in 1 .. LastBit + 4 /\ ~(k <= LastBit) /\ k - LastBit = j
      BY <1>1
    <3> HIDE DEF k
    <3>2. WritePins[k] = c[j] BY <1>10, <3>1
    <3> QED BY <3>2 DEF k
  <2> QED BY <2>1
<1> QED BY <1>3, <1>10, <1>11, <1>12, <1>13

\* The pin a task sets next.
Op(t) == Pins[stage[t]][step[t]]

LEMMA PinsOf ==
    /\ Pins["start"] = StartPins /\ Pins["stop"] = StopPins
    /\ \A g \in ByteStages : Pins[g] = WritePins
    /\ Len(StartPins) = 5 /\ Len(StopPins) = 4
BY DEF Pins, ByteStages, StartPins, StopPins

LEMMA Places ==
    ASSUME BusTypeOK, NEW t \in Tasks, InTransfer(t)
    PROVE  /\ step[t] \in Nat /\ step[t] >= 1
           /\ \/ /\ stage[t] = "start" /\ step[t] <= 5
                 /\ LastPin(t) <=> step[t] = 5
              \/ /\ stage[t] \in ByteStages /\ step[t] <= LastBit + 4
                 /\ LastPin(t) <=> step[t] = LastBit + 4
              \/ /\ stage[t] = "stop" /\ step[t] <= 4
                 /\ LastPin(t) <=> step[t] = 4
<1>1. stage[t] \in Stages \ {"idle"} BY DEF BusTypeOK, InTransfer
<1>2. stage[t] \in ByteStages \/ stage[t] = "start" \/ stage[t] = "stop"
  BY <1>1 DEF Stages, ByteStages
<1>3. step[t] \in Nat /\ step[t] >= 1 /\ step[t] <= Len(Pins[stage[t]])
  BY DEF BusTypeOK
<1> QED BY <1>2, <1>3, PinsOf, WritePinsAre DEF LastPin

LEMMA StartOps ==
    ASSUME NEW t \in Tasks, stage[t] = "start"
    PROVE  /\ step[t] = 1 => Op(t) = "dirOut"
           /\ step[t] = 2 => Op(t) = "sdaHigh"
           /\ step[t] = 3 => Op(t) = "sclHigh"
           /\ step[t] = 4 => Op(t) = "sdaLow"
           /\ step[t] = 5 => Op(t) = "sclLow"
BY PinsOf DEF Op, StartPins

LEMMA StopOps ==
    ASSUME NEW t \in Tasks, stage[t] = "stop"
    PROVE  /\ step[t] = 1 => Op(t) = "dirOut"
           /\ step[t] = 2 => Op(t) = "sdaLow"
           /\ step[t] = 3 => Op(t) = "sclHigh"
           /\ step[t] = 4 => Op(t) = "sdaHigh"
BY PinsOf DEF Op, StopPins

LEMMA ByteOps ==
    ASSUME NEW t \in Tasks, stage[t] \in ByteStages, step[t] \in Nat
    PROVE  /\ step[t] = 1 => Op(t) = "dirOut"
           /\ step[t] \in 2 .. LastBit =>
                /\ step[t] % 4 = 2 => Op(t) = "sclLow"
                /\ step[t] % 4 = 3 => Op(t) = "sdaBit"
                /\ step[t] % 4 = 0 => Op(t) = "sclHigh"
                /\ step[t] % 4 = 1 => Op(t) = "sclLow"
           /\ step[t] = LastBit + 1 => Op(t) = "dirIn"
           /\ step[t] = LastBit + 2 => Op(t) = "sclHigh"
           /\ step[t] = LastBit + 3 => Op(t) = "getAck"
           /\ step[t] = LastBit + 4 => Op(t) = "sclLow"
<1> DEFINE k == step[t]
<1>1. Op(t) = WritePins[k] BY PinsOf DEF Op
<1>2. /\ BitPins[1] = "sclLow" /\ BitPins[2] = "sdaBit"
      /\ BitPins[3] = "sclHigh" /\ BitPins[4] = "sclLow"
  BY DEF BitPins
<1>3. ASSUME k \in 2 .. LastBit
      PROVE  /\ k % 4 = 2 => Op(t) = "sclLow"
             /\ k % 4 = 3 => Op(t) = "sdaBit"
             /\ k % 4 = 0 => Op(t) = "sclHigh"
             /\ k % 4 = 1 => Op(t) = "sclLow"
  <2>1. Op(t) = BitPins[((k - 2) % 4) + 1] BY <1>1, <1>3, WritePinsAre
  <2>2. k \in Nat /\ k >= 2 /\ k <= LastBit BY <1>3, FirstStep
  <2> HIDE DEF k
  <2>3. /\ k % 4 = 2 => ((k - 2) % 4) + 1 = 1
        /\ k % 4 = 3 => ((k - 2) % 4) + 1 = 2
        /\ k % 4 = 0 => ((k - 2) % 4) + 1 = 3
        /\ k % 4 = 1 => ((k - 2) % 4) + 1 = 4
    BY <2>2
  <2> QED BY <1>2, <2>1, <2>3
<1> QED BY <1>1, <1>3, WritePinsAre

\* What a pin of each kind is.
LEMMA PinIs ==
    ASSUME NEW t, Pin(t)
    PROVE  /\ Op(t) = "dirOut"  => SetPins(scl, sda, "out")
           /\ Op(t) = "dirIn"   => SetPins(scl, sda, "in")
           /\ Op(t) = "sdaHigh" => SetPins(scl, 1, dir)
           /\ Op(t) = "sdaLow"  => SetPins(scl, 0, dir)
           /\ Op(t) = "sdaBit"  => SetPins(scl, Bit(t), dir)
           /\ Op(t) = "sclHigh" => SetPins(1, sda, dir)
           /\ Op(t) = "sclLow"  => SetPins(0, sda, dir)
           /\ Op(t) = "getAck"  => UNCHANGED <<pinVars, codecVars>>
BY DEF Pin, Op

-----------------------------------------------------------------------------
(* How the codec answers the pins *)

\* While the clock stays low nothing is said.
LEMMA ClockLow ==
    ASSUME NEW v, NEW d, SetPins(0, v, d), scl = 0
    PROVE  /\ scl' = 0 /\ sda' = v /\ dir' = d
           /\ UNCHANGED <<phase, got, nth, control, regs>>
BY DEF SetPins, CodecStart, CodecStop, CodecSamples, CodecByte, CodecAckEnds,
       CodecIgnores, codecVars

\* A rising clock is a bit.
LEMMA ClockRises ==
    ASSUME NEW v, NEW d, SetPins(1, v, d), scl = 0, Len(got) \in Nat
    PROVE  /\ scl' = 1 /\ sda' = v /\ dir' = d
           /\ UNCHANGED <<phase, nth, control, regs>>
           /\ phase = "shift" /\ Len(got) < Bits =>
                  got' = Append(got, Wire(d, v, FALSE))
           /\ ~(phase = "shift" /\ Len(got) < Bits) => got' = got
<1>1. scl' = 1 /\ sda' = v /\ dir' = d BY DEF SetPins
<1>2. CodecSamples(1, Wire(d, v, Pulls)) \/ CodecIgnores(1, Wire(dir, sda, Pulls), Wire(d, v, Pulls))
  BY DEF SetPins, CodecStart, CodecStop, CodecByte, CodecAckEnds
<1>3. CASE CodecSamples(1, Wire(d, v, Pulls))
  <2>1. phase = "shift" /\ ~Pulls BY <1>3 DEF CodecSamples, Pulls
  <2>2. Wire(d, v, Pulls) = Wire(d, v, FALSE) BY <2>1 DEF Wire
  <2>3. got' = Append(got, Wire(d, v, FALSE)) BY <1>3, <2>2 DEF CodecSamples
  <2>4. Len(got) < Bits /\ UNCHANGED <<phase, nth, control, regs>>
    BY <1>3 DEF CodecSamples
  <2> QED BY <1>1, <2>1, <2>3, <2>4
<1>4. CASE CodecIgnores(1, Wire(dir, sda, Pulls), Wire(d, v, Pulls))
  <2>1. UNCHANGED <<phase, got, nth, control, regs>>
    BY <1>4 DEF CodecIgnores, codecVars
  <2>2. phase # "shift" \/ Len(got) = Bits BY <1>4 DEF CodecIgnores
  <2>3. Len(got) = Bits => ~(Len(got) < Bits) BY BusConsts
  <2> QED BY <1>1, <2>1, <2>2, <2>3
<1> QED BY <1>2, <1>3, <1>4

\* A falling clock ends a byte or its acknowledgement.
LEMMA ClockFalls ==
    ASSUME NEW v, NEW d, SetPins(0, v, d), scl = 1
    PROVE  /\ scl' = 0 /\ sda' = v /\ dir' = d
           /\ \/ CodecByte(0)
              \/ CodecAckEnds(0)
              \/ /\ phase = "idle" \/ (phase = "shift" /\ Len(got) < Bits)
                 /\ UNCHANGED <<phase, got, nth, control, regs>>
BY DEF SetPins, CodecStart, CodecStop, CodecSamples, CodecIgnores, codecVars

\* While the clock is high a moving wire is a start or a stop.
LEMMA ClockHigh ==
    ASSUME NEW v, NEW d, SetPins(1, v, d), scl = 1
    PROVE  /\ scl' = 1 /\ sda' = v /\ dir' = d
           /\ UNCHANGED <<control, regs>>
           /\ LET w == Wire(dir, sda, Pulls)
                  x == Wire(d, v, Pulls)
              IN  \/ /\ w = 1 /\ x = 0
                     /\ phase' = "shift" /\ got' = <<>> /\ nth' = "address"
                  \/ /\ w = 0 /\ x = 1
                     /\ phase' = "idle" /\ got' = <<>> /\ nth' = nth
                  \/ w = x /\ UNCHANGED <<phase, got, nth>>
BY DEF SetPins, CodecStart, CodecStop, CodecSamples, CodecByte, CodecAckEnds,
       CodecIgnores, codecVars

LEMMA WireIs ==
    ASSUME NEW v \in {0, 1}, NEW p \in BOOLEAN
    PROVE  /\ Wire("in", v, p) = IF p THEN 0 ELSE 1
           /\ ~p => Wire("out", v, p) = v
           /\ Wire("out", 0, p) = 0
           /\ p => Wire("out", 1, p) = stronger
BY DEF Wire

-----------------------------------------------------------------------------
(* Types *)

JobsOK == job \in [Tasks -> [writes : Seq(Write), strict : BOOLEAN]]

BusTyped == BusTypeOK /\ JobsOK

\* The byte a task sends.
ByteOf(t) ==
    IF stage[t] = "address" THEN Device
    ELSE IF stage[t] = "control" THEN Target(t) ELSE Data(t)

LEMMA JobTypes ==
    ASSUME BusTyped, NEW t \in Tasks, InTransfer(t)
    PROVE  /\ Target(t) \in Byte /\ Data(t) \in Byte /\ ByteOf(t) \in Byte
           /\ Target(t) # Device
<1>1. job[t].writes \in Seq(Write) /\ job[t].writes # <<>>
  BY DEF BusTyped, BusTypeOK, JobsOK
<1>2. Head(job[t].writes) \in Write BY <1>1, EmptySeq, HeadTailProperties
<1>3. Target(t) \in Byte \ {Device} /\ Data(t) \in Byte
  BY <1>2 DEF Target, Data, Write
<1> QED BY <1>3, BusConsts DEF ByteOf

LEMMA BitIs ==
    ASSUME NEW t \in Tasks, stage[t] \in ByteStages
    PROVE  Bit(t) = ByteOf(t)[(step[t] + 2) \div 4]
BY DEF Bit, ByteOf, ByteStages, Target, Data

LEMMA BitType ==
    ASSUME BusTyped, NEW t \in Tasks, InTransfer(t), Op(t) = "sdaBit"
    PROVE  Bit(t) \in {0, 1}
<1> DEFINE k == step[t]
<1>1. k \in Nat /\ k >= 1 /\ Op(t) = "sdaBit" BY Places DEF BusTyped
<1>2. stage[t] \in ByteStages /\ k <= LastBit + 4
  BY <1>1, Places, StartOps, StopOps DEF BusTyped
<1>3. k \in 2 .. LastBit /\ k % 4 = 3
  <2>1. k # 1 /\ ~(k \in {LastBit + 1, LastBit + 2, LastBit + 3, LastBit + 4})
    BY <1>1, <1>2, ByteOps
  <2>2. k \in 2 .. LastBit BY <1>1, <1>2, <2>1, FirstStep
  <2>3. k % 4 \in {0, 1, 2, 3} BY <2>2, FirstStep
  <2> QED BY <1>1, <1>2, <2>2, <2>3, ByteOps
<1>4. (k + 2) \div 4 \in 1 .. Bits
  <2> HIDE DEF k
  <2> QED BY <1>3, BitSteps, BusConsts DEF LastBit
<1>5. ByteOf(t)[(k + 2) \div 4] \in {0, 1} BY <1>4, JobTypes DEF Byte
<1> QED BY <1>2, <1>5, BitIs

CodecType ==
    /\ phase \in {"idle", "shift", "ack"}
    /\ got \in Seq({0, 1}) /\ Len(got) <= Bits
    /\ nth \in {"address", "control", "data"} /\ control \in Byte
    /\ regs \in [Byte -> Byte]

PinType == scl \in {0, 1} /\ sda \in {0, 1} /\ dir \in {"in", "out"}

LEMMA WireType ==
    ASSUME NEW v \in {0, 1}, NEW d, NEW p \in BOOLEAN, stronger \in {0, 1}
    PROVE  Wire(d, v, p) \in {0, 1}
BY DEF Wire

LEMMA GotByte ==
    ASSUME got \in Seq({0, 1}), Len(got) = Bits
    PROVE  got \in Byte
BY LenProperties DEF Byte

LEMMA SetPinsType ==
    ASSUME CodecType, PinType, stronger \in {0, 1},
           NEW c \in {0, 1}, NEW v \in {0, 1}, NEW d \in {"in", "out"},
           SetPins(c, v, d)
    PROVE  CodecType' /\ PinType'
<1>1. PinType' BY DEF SetPins, PinType
<1>2. Pulls \in BOOLEAN BY DEF Pulls
<1> DEFINE w == Wire(dir, sda, Pulls)
           x == Wire(d, v, Pulls)
<1>3. x \in {0, 1} BY <1>2, WireType
<1>4. <<>> \in Seq({0, 1}) /\ Len(<<>>) = 0 /\ 0 <= Bits BY EmptySeq, BusConsts
<1>5. \/ CodecStart(c, w, x) \/ CodecStop(c, w, x) \/ CodecSamples(c, x)
      \/ CodecByte(c) \/ CodecAckEnds(c) \/ CodecIgnores(c, w, x)
  BY DEF SetPins
<1> HIDE DEF w, x
<1>6. CASE CodecStart(c, w, x) BY <1>1, <1>4, <1>6 DEF CodecStart, CodecType
<1>7. CASE CodecStop(c, w, x) BY <1>1, <1>4, <1>7 DEF CodecStop, CodecType
<1>8. CASE CodecSamples(c, x)
  <2>1. Len(got) \in Nat /\ Len(got) < Bits /\ got \in Seq({0, 1})
    BY <1>8, LenProperties DEF CodecSamples, CodecType
  <2>2. Append(got, x) \in Seq({0, 1}) /\ Len(Append(got, x)) = Len(got) + 1
    BY <1>3, <2>1, AppendProperties
  <2>3. got' = Append(got, x) BY <1>8 DEF CodecSamples
  <2>4. got' \in Seq({0, 1}) /\ Len(got') <= Bits BY <2>1, <2>2, <2>3, BusConsts
  <2> QED BY <1>1, <1>8, <2>4 DEF CodecSamples, CodecType
<1>9. CASE CodecByte(c)
  <2>1. got \in Byte BY <1>9, GotByte DEF CodecByte, CodecType
  <2>2. control' \in Byte BY <1>9, <2>1 DEF CodecByte, CodecType
  <2>3. regs' \in [Byte -> Byte] BY <1>9, <2>1 DEF CodecByte, CodecType
  <2>4. phase' \in {"idle", "shift", "ack"} BY <1>9 DEF CodecByte
  <2>5. got' = <<>> /\ nth' = nth BY <1>9 DEF CodecByte
  <2> QED BY <1>1, <1>4, <2>2, <2>3, <2>4, <2>5 DEF CodecType
<1>10. CASE CodecAckEnds(c)
  BY <1>1, <1>10 DEF CodecAckEnds, CodecType
<1>11. CASE CodecIgnores(c, w, x)
  BY <1>1, <1>11 DEF CodecIgnores, CodecType, codecVars
<1> QED BY <1>5, <1>6, <1>7, <1>8, <1>9, <1>10, <1>11

LEMMA TypesHave ==
    ASSUME BusTyped
    PROVE  /\ CodecType /\ PinType /\ stronger \in {0, 1}
           /\ \A t \in Tasks : stage[t] \in Stages /\ ack[t] \in BOOLEAN
                               /\ alone[t] \in BOOLEAN
           /\ Len(got) \in Nat
BY LenProperties DEF BusTyped, BusTypeOK, CodecType, PinType

LEMMA PinTypes ==
    ASSUME BusTyped, NEW t \in Tasks, InTransfer(t), Pin(t)
    PROVE  CodecType' /\ PinType'
<1>1. CodecType /\ PinType /\ stronger \in {0, 1} BY TypesHave
<1>2. scl \in {0, 1} /\ sda \in {0, 1} /\ dir \in {"in", "out"}
  BY <1>1 DEF PinType
<1>3. Op(t) = "sdaBit" => Bit(t) \in {0, 1} BY BitType
<1>4. CASE Op(t) = "getAck"
  BY <1>1, <1>4, PinIs DEF CodecType, PinType, pinVars, codecVars
<1>5. CASE Op(t) # "getAck"
  <2>1. \E c \in {0, 1}, v \in {0, 1}, d \in {"in", "out"} : SetPins(c, v, d)
    BY <1>2, <1>3, <1>5 DEF Pin, Op
  <2> QED BY <1>1, <2>1, SetPinsType
<1> QED BY <1>4, <1>5

LEMMA AckType ==
    ASSUME BusTyped, NEW t \in Tasks
    PROVE  Ack(t) \in BOOLEAN
BY TypesHave DEF Ack

LEMMA BusInitTypes == BusInit => BusTyped
<1> SUFFICES ASSUME BusInit PROVE BusTyped OBVIOUS
<1>1. /\ scl \in {0, 1} /\ sda \in {0, 1} /\ dir \in {"in", "out"}
      /\ stronger \in {0, 1}
  BY DEF BusInit
<1>2. stage \in [Tasks -> Stages] /\ step \in [Tasks -> Nat \ {0}]
  BY DEF BusInit, Stages
<1>3. \A t \in Tasks : ~InTransfer(t) BY DEF BusInit, InTransfer
<1>4. /\ ack \in [Tasks -> BOOLEAN] /\ alone \in [Tasks -> BOOLEAN]
      /\ rival \in [Tasks -> BOOLEAN] /\ spoilt \subseteq Byte
  BY DEF BusInit
<1>5. <<>> \in Seq({0, 1}) /\ Len(<<>>) = 0 /\ <<>> \in Seq(Write) BY EmptySeq
<1>6. reg_file \in [Byte -> Byte] /\ regs \in [Byte -> Byte]
  <2>1. [i \in 1 .. Bits |-> 0] \in Byte BY DEF Byte
  <2> QED BY <2>1 DEF BusInit
<1>7. JobsOK BY <1>5 DEF BusInit, JobsOK
<1>8. /\ phase \in {"idle", "shift", "ack"} /\ got \in Seq({0, 1})
      /\ Len(got) <= Bits /\ nth \in {"address", "control", "data"}
      /\ control \in Byte
  BY <1>5, BusConsts DEF BusInit
<1> QED BY <1>1, <1>2, <1>3, <1>4, <1>6, <1>7, <1>8 DEF BusTyped, BusTypeOK

LEMMA RegWriteTypes ==
    ASSUME BusTyped, NEW t \in Tasks, RegWrite(t)
    PROVE  BusTyped'
<1>1. PICK j \in IF job[t].writes = <<>> THEN Calls[t] ELSE {job[t]} :
        /\ job' = [job EXCEPT ![t] = j]
        /\ reg_file' = [reg_file EXCEPT ![Head(j.writes).control] = Head(j.writes).data]
  BY DEF RegWrite
<1>2. j \in [writes : Seq(Write), strict : BOOLEAN] /\ j.writes # <<>>
  <2>1. CASE job[t].writes = <<>>
    <3>1. j \in Calls[t] BY <1>1, <2>1
    <3>2. j \in [writes : Seq(Write) \ {<<>>}, strict : BOOLEAN] BY <3>1, BusConsts
    <3> QED BY <3>2
  <2>2. CASE job[t].writes # <<>>
    <3>1. j = job[t] BY <1>1, <2>2
    <3> QED BY <2>2, <3>1 DEF BusTyped, JobsOK
  <2> QED BY <2>1, <2>2
<1>3. JobsOK' BY <1>1, <1>2 DEF BusTyped, JobsOK
<1>4. Head(j.writes) \in Write BY <1>2, EmptySeq, HeadTailProperties
<1>5. reg_file' \in [Byte -> Byte]
  BY <1>1, <1>4 DEF BusTyped, BusTypeOK, Write
<1>6. /\ stage' = [stage EXCEPT ![t] = "start"] /\ step' = [step EXCEPT ![t] = 1]
      /\ ack' = [ack EXCEPT ![t] = TRUE] /\ alone' = [alone EXCEPT ![t] = Idle]
      /\ UNCHANGED <<pinVars, stronger, codecVars, spoilt>>
  BY DEF RegWrite
<1>7. stage' \in [Tasks -> Stages] /\ step' \in [Tasks -> Nat \ {0}]
  BY <1>6 DEF BusTyped, BusTypeOK, Stages
<1>8. ASSUME NEW u \in Tasks, InTransfer(u)'
      PROVE  step'[u] <= Len(Pins[stage'[u]]) /\ job'[u].writes # <<>>
  <2>1. CASE u = t
    <3>1. stage'[u] = "start" /\ step'[u] = 1 /\ job'[u] = j
      BY <1>1, <1>6, <2>1 DEF BusTyped, BusTypeOK, JobsOK
    <3> QED BY <1>2, <3>1, PinsOf
  <2>2. CASE u # t
    <3>1. stage'[u] = stage[u] /\ step'[u] = step[u] /\ job'[u] = job[u]
      BY <1>1, <1>6, <2>2 DEF BusTyped, BusTypeOK, JobsOK
    <3> QED BY <1>8, <3>1 DEF BusTyped, BusTypeOK, InTransfer
  <2> QED BY <2>1, <2>2
<1>9. ack' \in [Tasks -> BOOLEAN] BY <1>6 DEF BusTyped, BusTypeOK
<1>10. alone' \in [Tasks -> BOOLEAN]
  <2>1. Idle \in BOOLEAN BY DEF Idle
  <2> QED BY <1>6, <2>1 DEF BusTyped, BusTypeOK
<1>11. CodecType' /\ PinType' /\ (stronger \in {0, 1})'
  BY <1>6, TypesHave DEF CodecType, PinType, codecVars, pinVars
<1>12. spoilt' \subseteq Byte BY <1>6 DEF BusTyped, BusTypeOK
<1>13. rival' \in [Tasks -> BOOLEAN]
  <2>1. \A u \in Tasks :
          (u # t /\ (rival[u] \/ (InTransfer(u) /\ Target(u) = Target(t)'))) \in BOOLEAN
    OBVIOUS
  <2> QED BY <2>1 DEF RegWrite
<1> QED BY <1>3, <1>5, <1>7, <1>8, <1>9, <1>10, <1>11, <1>12, <1>13
        DEF BusTyped, BusTypeOK, CodecType, PinType

\* What both kinds of pin steps do to alone.
LEMMA AloneType ==
    ASSUME BusTyped, NEW t \in Tasks,
           alone' = [u \in Tasks |-> alone[u] /\ (u = t \/ ~InTransfer(u))]
    PROVE  alone' \in [Tasks -> BOOLEAN]
<1>1. \A u \in Tasks : (alone[u] /\ (u = t \/ ~InTransfer(u))) \in BOOLEAN
  OBVIOUS
<1> QED BY <1>1

LEMMA InCallTypes ==
    ASSUME BusTyped, NEW t \in Tasks, InCall(t)
    PROVE  BusTyped'
<1>1. /\ InTransfer(t) /\ ~LastPin(t) /\ Pin(t)
      /\ ack' = [ack EXCEPT ![t] = Ack(t)] /\ step' = [step EXCEPT ![t] = @ + 1]
      /\ UNCHANGED <<stronger, stage, job, reg_file, rival, spoilt>>
  BY DEF InCall, Running
<1>2. CodecType' /\ PinType' BY <1>1, PinTypes
<1>3. step' \in [Tasks -> Nat \ {0}] BY <1>1 DEF BusTyped, BusTypeOK
<1>4. ack' \in [Tasks -> BOOLEAN] BY <1>1, AckType DEF BusTyped, BusTypeOK
<1>5. alone' \in [Tasks -> BOOLEAN] BY AloneType DEF InCall
<1>6. ASSUME NEW u \in Tasks, InTransfer(u)'
      PROVE  step'[u] <= Len(Pins[stage'[u]]) /\ job'[u].writes # <<>>
  <2>1. InTransfer(u) BY <1>1, <1>6 DEF InTransfer
  <2>2. step[u] <= Len(Pins[stage[u]]) /\ job[u].writes # <<>> /\ step[u] \in Nat
    BY <2>1 DEF BusTyped, BusTypeOK
  <2>3. Len(Pins[stage[u]]) \in Nat
    <3>1. stage[u] \in Stages /\ stage[u] # "idle"
      BY <2>1 DEF BusTyped, BusTypeOK, InTransfer
    <3>2. stage[u] \in ByteStages \/ stage[u] = "start" \/ stage[u] = "stop"
      BY <3>1 DEF Stages, ByteStages
    <3> QED BY <3>2, PinsOf, WritePinsAre, FirstStep
  <2>4. CASE u = t
    <3>1. step'[u] = step[u] + 1 BY <1>1, <2>4 DEF BusTyped, BusTypeOK
    <3>2. step[u] # Len(Pins[stage[u]]) BY <1>1, <2>4 DEF LastPin
    <3> QED BY <1>1, <2>2, <2>3, <3>1, <3>2
  <2>5. CASE u # t
    <3>1. step'[u] = step[u] BY <1>1, <2>5 DEF BusTyped, BusTypeOK
    <3> QED BY <1>1, <2>2, <3>1
  <2> QED BY <2>4, <2>5
<1> QED BY <1>1, <1>2, <1>3, <1>4, <1>5, <1>6
        DEF BusTyped, BusTypeOK, JobsOK, CodecType, PinType

LEMMA JobAfterType ==
    ASSUME BusTyped, NEW t \in Tasks, InTransfer(t)
    PROVE  JobAfter(job[t], ack[t]) \in [writes : Seq(Write), strict : BOOLEAN]
<1>1. /\ job[t] \in [writes : Seq(Write), strict : BOOLEAN]
      /\ job[t].writes # <<>>
  BY DEF BusTyped, BusTypeOK, JobsOK
<1>2. Tail(job[t].writes) \in Seq(Write) /\ <<>> \in Seq(Write)
  BY <1>1, EmptySeq, HeadTailProperties
<1> QED BY <1>1, <1>2 DEF JobAfter

LEMMA NextStageType ==
    ASSUME BusTyped, NEW t \in Tasks, InTransfer(t)
    PROVE  NextStage(t) \in Stages
<1>1. stage[t] \in {"start", "address", "control", "data", "stop"}
  BY DEF BusTyped, BusTypeOK, InTransfer, Stages
<1> QED BY <1>1 DEF NextStage, Stages

LEMMA EndOfCallTypes ==
    ASSUME BusTyped, NEW t \in Tasks, EndOfCall(t)
    PROVE  BusTyped'
<1>1. /\ InTransfer(t) /\ LastPin(t) /\ Pin(t)
      /\ stage' = [stage EXCEPT ![t] = NextStage(t)]
      /\ step' = [step EXCEPT ![t] = 1]
      /\ UNCHANGED <<stronger, ack, reg_file, rival>>
  BY DEF EndOfCall, Running
<1>2. IF stage[t] = "stop"
      THEN /\ job' = [job EXCEPT ![t] = JobAfter(@, ack[t])]
           /\ spoilt' = IF alone[t] THEN spoilt \ {Target(t)} ELSE spoilt \cup {Target(t)}
      ELSE UNCHANGED <<job, spoilt>>
  BY DEF EndOfCall, Target
<1>3. CodecType' /\ PinType' BY <1>1, PinTypes
<1>4. stage' \in [Tasks -> Stages] /\ step' \in [Tasks -> Nat \ {0}]
  BY <1>1, NextStageType DEF BusTyped, BusTypeOK
<1>5. alone' \in [Tasks -> BOOLEAN] BY AloneType DEF EndOfCall
<1>6. JobsOK' BY <1>1, <1>2, JobAfterType DEF BusTyped, JobsOK
<1>7. spoilt' \subseteq Byte
  <2>1. Target(t) \in Byte BY <1>1, JobTypes
  <2> QED BY <1>2, <2>1 DEF BusTyped, BusTypeOK
<1>8. ASSUME NEW u \in Tasks, InTransfer(u)'
      PROVE  step'[u] <= Len(Pins[stage'[u]]) /\ job'[u].writes # <<>>
  <2>1. CASE u = t
    <3>1. stage'[u] = NextStage(t) /\ step'[u] = 1 /\ NextStage(t) # "idle"
      BY <1>1, <1>8, <2>1 DEF BusTyped, BusTypeOK, InTransfer
    <3>2. stage[t] # "stop" BY <3>1 DEF NextStage
    <3>3. job'[u].writes # <<>> BY <1>1, <1>2, <2>1, <3>2 DEF BusTyped, BusTypeOK
    <3>4. NextStage(t) \in ByteStages \/ NextStage(t) = "start" \/ NextStage(t) = "stop"
      BY <1>1, <3>1, NextStageType DEF Stages, ByteStages
    <3>5. 1 <= Len(Pins[NextStage(t)])
      <4>1. CASE NextStage(t) \in ByteStages
        BY <4>1, PinsOf, WritePinsAre, FirstStep
      <4>2. CASE NextStage(t) = "start"
        <5>1. Len(Pins[NextStage(t)]) = 5 BY <4>2, PinsOf
        <5> QED BY <5>1
      <4>3. CASE NextStage(t) = "stop"
        <5>1. Len(Pins[NextStage(t)]) = 4 BY <4>3, PinsOf
        <5> QED BY <5>1
      <4> QED BY <3>4, <4>1, <4>2, <4>3
    <3> QED BY <3>1, <3>3, <3>5
  <2>2. CASE u # t
    <3>1. stage'[u] = stage[u] /\ step'[u] = step[u]
      BY <1>1, <2>2 DEF BusTyped, BusTypeOK
    <3>2. job'[u] = job[u] BY <1>2, <2>2 DEF BusTyped, JobsOK
    <3> QED BY <1>8, <3>1, <3>2 DEF BusTyped, BusTypeOK, InTransfer
  <2> QED BY <2>1, <2>2
<1> QED BY <1>1, <1>3, <1>4, <1>5, <1>6, <1>7, <1>8
        DEF BusTyped, BusTypeOK, CodecType, PinType

\* Every variable has its type for bytes of any length and any calls: no pin
\* is set behind the end of a function, no bit is taken from outside a byte.
THEOREM BusTypes == BusSpec => []BusTypeOK
<1>1. BusTyped /\ [BusNext]_busVars => BusTyped'
  <2> SUFFICES ASSUME BusTyped, [BusNext]_busVars PROVE BusTyped' OBVIOUS
  <2>1. CASE UNCHANGED busVars
    BY <2>1 DEF busVars, pinVars, taskVars, codecVars, observers, BusTyped, BusTypeOK,
                JobsOK, InTransfer
  <2> QED BY <2>1, RegWriteTypes, InCallTypes, EndOfCallTypes DEF BusNext
<1>2. BusTyped => BusTypeOK BY DEF BusTyped
<1> QED BY <1>1, <1>2, BusInitTypes, PTL DEF BusSpec

-----------------------------------------------------------------------------
(* The places of a byte: four pins a bit, then the acknowledgement *)

BitLow(k)  == k \in 2 .. LastBit /\ k % 4 = 2
BitData(k) == k \in 2 .. LastBit /\ k % 4 = 3
BitHigh(k) == k \in 2 .. LastBit /\ k % 4 = 0
BitEnd(k)  == k \in 2 .. LastBit /\ k % 4 = 1 /\ k # LastBit

\* The clock is high at these steps.
Clocked(k) == BitEnd(k) \/ k = LastBit \/ k > LastBit + 2

LEMMA BitPlaces ==
    ASSUME NEW k \in Nat, k >= 1, k <= LastBit + 4
    PROVE  /\ \/ k = 1 \/ BitLow(k) \/ BitData(k) \/ BitHigh(k) \/ BitEnd(k)
              \/ k = LastBit \/ k = LastBit + 1 \/ k = LastBit + 2
              \/ k = LastBit + 3 \/ k = LastBit + 4
           /\ k = 1 => k + 1 <= LastBit /\ BitLow(k + 1) /\ Sampled(k + 1) = Sampled(k)
           /\ BitLow(k) => /\ 1 < k /\ k + 1 < LastBit /\ BitData(k + 1)
                           /\ Sampled(k + 1) = Sampled(k)
           /\ BitData(k) => /\ 1 < k /\ k + 1 < LastBit /\ BitHigh(k + 1)
                            /\ Sampled(k + 1) = Sampled(k)
           /\ BitHigh(k) => /\ 3 < k /\ k + 1 <= LastBit
                            /\ BitEnd(k + 1) \/ k + 1 = LastBit
                            /\ Sampled(k + 1) = Sampled(k) + 1 /\ Sampled(k) < Bits
           /\ BitEnd(k) => /\ 4 < k /\ k < LastBit /\ k + 1 <= LastBit /\ BitLow(k + 1)
                           /\ Sampled(k + 1) = Sampled(k)
                           /\ 1 <= Sampled(k) /\ Sampled(k) < Bits
           /\ k = LastBit => 4 < k /\ Sampled(k) = Bits /\ ~BitEnd(k)
           /\ k <= LastBit => Sampled(k) \in Nat
<1>1. LastBit \in Nat /\ LastBit >= 5 /\ Sampled(1) = 0 /\ Sampled(2) = 0
      /\ 1 % 4 = 1 /\ 2 % 4 = 2
  BY FirstStep
<1>2. CASE k = 1
  <2>1. k + 1 = 2 /\ k % 4 = 1 BY <1>1, <1>2
  <2> QED BY <1>1, <1>2, <2>1 DEF BitLow, BitData, BitHigh, BitEnd
<1>3. CASE k >= 2 /\ k <= LastBit
  <2>1. k \in 2 .. LastBit BY <1>1, <1>3
  <2>2. k + 1 <= LastBit => k + 1 \in 2 .. LastBit BY <1>1, <1>3
  <2>3. Sampled(k) \in Nat BY <1>3, BitSteps
  <2>4. CASE k % 4 = 2
    <3>1. k + 1 < LastBit /\ (k + 1) % 4 = 3 /\ Sampled(k + 1) = Sampled(k)
      BY <1>3, <2>4, BusConsts DEF LastBit, Sampled
    <3> QED BY <1>1, <1>3, <2>1, <2>2, <2>3, <2>4, <3>1 DEF BitLow, BitData, BitHigh, BitEnd
  <2>5. CASE k % 4 = 3
    <3>1. k + 1 < LastBit /\ (k + 1) % 4 = 0 /\ Sampled(k + 1) = Sampled(k)
      BY <1>3, <2>5, BusConsts DEF LastBit, Sampled
    <3> QED BY <1>1, <1>3, <2>1, <2>2, <2>3, <2>5, <3>1 DEF BitLow, BitData, BitHigh, BitEnd
  <2>6. CASE k % 4 = 0
    <3>1. /\ 3 < k /\ k + 1 <= LastBit /\ (k + 1) % 4 = 1
          /\ Sampled(k + 1) = Sampled(k) + 1 /\ Sampled(k) < Bits
      BY <1>3, <2>6, BusConsts DEF LastBit, Sampled
    <3> QED BY <1>1, <1>3, <2>1, <2>2, <2>3, <2>6, <3>1 DEF BitLow, BitData, BitHigh, BitEnd
  <2>7. CASE k % 4 = 1
    <3>1. /\ 4 < k /\ Sampled(k + 1) = Sampled(k) /\ 1 <= Sampled(k)
          /\ k # LastBit => k + 1 <= LastBit /\ (k + 1) % 4 = 2 /\ Sampled(k) < Bits
          /\ k = LastBit => Sampled(k) = Bits
      BY <1>3, <2>7, BusConsts DEF LastBit, Sampled
    <3> QED BY <1>1, <1>3, <2>1, <2>2, <2>3, <2>7, <3>1 DEF BitLow, BitData, BitHigh, BitEnd
  <2>8. k % 4 \in {0, 1, 2, 3} BY <1>3
  <2> QED BY <2>4, <2>5, <2>6, <2>7, <2>8
<1>4. CASE k > LastBit
  BY <1>1, <1>4 DEF BitLow, BitData, BitHigh, BitEnd
<1> QED BY <1>1, <1>2, <1>3, <1>4

LEMMA ClockedPlaces ==
    ASSUME NEW k \in Nat, k >= 1, k <= LastBit + 4
    PROVE  /\ k = 1 => ~Clocked(k) /\ ~BitHigh(k)
           /\ BitLow(k) => ~Clocked(k) /\ ~BitHigh(k)
           /\ BitData(k) => ~Clocked(k) /\ ~BitHigh(k)
           /\ BitHigh(k) => ~Clocked(k)
           /\ BitEnd(k) => Clocked(k) /\ ~BitHigh(k)
           /\ k = LastBit => Clocked(k) /\ ~BitHigh(k)
           /\ k = LastBit + 1 \/ k = LastBit + 2 => ~Clocked(k)
           /\ k = LastBit + 3 \/ k = LastBit + 4 => Clocked(k)
<1>1. LastBit \in Nat /\ LastBit >= 5 BY FirstStep
<1>2. LastBit % 4 = 1 BY BusConsts DEF LastBit
<1> QED BY <1>1, <1>2 DEF BitLow, BitData, BitHigh, BitEnd, Clocked

\* The pin of a byte at each place.
LEMMA BytePins ==
    ASSUME BusTyped, NEW t \in Tasks, InTransfer(t), stage[t] \in ByteStages, Pin(t),
           NEW k, k = step[t]
    PROVE  /\ k \in Nat /\ k >= 1 /\ k <= LastBit + 4
           /\ k = 1 => SetPins(scl, sda, "out")
           /\ BitLow(k) => SetPins(0, sda, dir)
           /\ BitData(k) => /\ SetPins(scl, ByteOf(t)[Sampled(k) + 1], dir)
                            /\ ByteOf(t)[Sampled(k) + 1] \in {0, 1}
           /\ BitHigh(k) => SetPins(1, sda, dir)
           /\ BitEnd(k) \/ k = LastBit => SetPins(0, sda, dir)
           /\ k = LastBit + 1 => SetPins(scl, sda, "in")
           /\ k = LastBit + 2 => SetPins(1, sda, dir)
           /\ k = LastBit + 3 => UNCHANGED <<scl, sda, dir, phase, got, nth, control, regs>>
           /\ k = LastBit + 4 => SetPins(0, sda, dir)
           /\ k = LastBit + 3 <=> Op(t) = "getAck"
<1>1. k \in Nat /\ k >= 1 /\ k <= LastBit + 4
  BY Places DEF BusTyped, ByteStages
<1>2. LastBit \in Nat /\ LastBit >= 5 BY FirstStep
<1>3. /\ k = 1 => Op(t) = "dirOut"
      /\ BitLow(k) => Op(t) = "sclLow"
      /\ BitData(k) => Op(t) = "sdaBit"
      /\ BitHigh(k) => Op(t) = "sclHigh"
      /\ BitEnd(k) => Op(t) = "sclLow"
      /\ k = LastBit + 1 => Op(t) = "dirIn"
      /\ k = LastBit + 2 => Op(t) = "sclHigh"
      /\ k = LastBit + 3 => Op(t) = "getAck"
      /\ k = LastBit + 4 => Op(t) = "sclLow"
  BY <1>1, ByteOps DEF BitLow, BitData, BitHigh, BitEnd
<1>4. k = LastBit => Op(t) = "sclLow"
  <2>1. LastBit % 4 = 1 /\ LastBit \in 2 .. LastBit BY <1>2, BusConsts DEF LastBit
  <2> QED BY <1>1, <2>1, ByteOps
<1>5. k = LastBit + 3 <=> Op(t) = "getAck"
  BY <1>1, <1>3, <1>4, BitPlaces
<1>6. BitData(k) => Bit(t) = ByteOf(t)[Sampled(k) + 1] /\ Bit(t) \in {0, 1}
  <2> SUFFICES ASSUME BitData(k)
               PROVE  Bit(t) = ByteOf(t)[Sampled(k) + 1] /\ Bit(t) \in {0, 1}
    OBVIOUS
  <2>1. Bit(t) \in {0, 1} BY <1>3, BitType
  <2>2. (k + 2) \div 4 = Sampled(k) + 1
    BY <1>2 DEF BitData, Sampled
  <2>3. Bit(t) = ByteOf(t)[(k + 2) \div 4] BY BitIs
  <2> QED BY <2>1, <2>2, <2>3
<1> QED BY <1>1, <1>3, <1>4, <1>5, <1>6, PinIs DEF pinVars, codecVars

\* The pins of i2c_start and i2c_stop.
LEMMA StartPin ==
    ASSUME BusTyped, NEW t \in Tasks, InTransfer(t), stage[t] = "start", Pin(t),
           NEW k, k = step[t]
    PROVE  /\ k \in {1, 2, 3, 4, 5} /\ Op(t) # "getAck"
           /\ k = 1 => SetPins(scl, sda, "out")
           /\ k = 2 => SetPins(scl, 1, dir)
           /\ k = 3 => SetPins(1, sda, dir)
           /\ k = 4 => SetPins(scl, 0, dir)
           /\ k = 5 => SetPins(0, sda, dir)
<1>1. k \in Nat /\ k >= 1 /\ k <= 5 BY Places DEF BusTyped, ByteStages
<1>2. k \in {1, 2, 3, 4, 5} BY <1>1
<1> QED BY <1>2, StartOps, PinIs

LEMMA StopPin ==
    ASSUME BusTyped, NEW t \in Tasks, InTransfer(t), stage[t] = "stop", Pin(t),
           NEW k, k = step[t]
    PROVE  /\ k \in {1, 2, 3, 4} /\ Op(t) # "getAck"
           /\ k = 1 => SetPins(scl, sda, "out")
           /\ k = 2 => SetPins(scl, 0, dir)
           /\ k = 3 => SetPins(1, sda, dir)
           /\ k = 4 => SetPins(scl, 1, dir)
<1>1. k \in Nat /\ k >= 1 /\ k <= 4 BY Places DEF BusTyped, ByteStages
<1>2. k \in {1, 2, 3, 4} BY <1>1
<1> QED BY <1>2, StopOps, PinIs

-----------------------------------------------------------------------------
(* What the two kinds of pin steps do besides the pin *)

LEMMA InCallIs ==
    ASSUME BusTyped, NEW t \in Tasks, InCall(t)
    PROVE  /\ Running(t) /\ InTransfer(t) /\ Pin(t) /\ ~LastPin(t)
           /\ stage' = stage /\ step'[t] = step[t] + 1 /\ ack'[t] = Ack(t)
           /\ job' = job /\ reg_file' = reg_file /\ stronger' = stronger
           /\ rival' = rival /\ spoilt' = spoilt
           /\ \A u \in Tasks \ {t} : step'[u] = step[u] /\ ack'[u] = ack[u]
           /\ \A u \in Tasks : Target(u)' = Target(u) /\ Data(u)' = Data(u)
                               /\ ByteOf(u)' = ByteOf(u)
           /\ \A u \in Tasks : alone'[u] = (alone[u] /\ (u = t \/ ~InTransfer(u)))
BY DEF InCall, Running, BusTyped, BusTypeOK, Target, Data, ByteOf

LEMMA EndIs ==
    ASSUME BusTyped, NEW t \in Tasks, EndOfCall(t)
    PROVE  /\ Running(t) /\ InTransfer(t) /\ Pin(t) /\ LastPin(t)
           /\ stage'[t] = NextStage(t) /\ step'[t] = 1 /\ ack' = ack
           /\ reg_file' = reg_file /\ stronger' = stronger /\ rival' = rival
           /\ stage[t] # "stop" => job' = job /\ spoilt' = spoilt
           /\ stage[t] = "stop" =>
                spoilt' = IF alone[t] THEN spoilt \ {Target(t)} ELSE spoilt \cup {Target(t)}
           /\ \A u \in Tasks \ {t} :
                /\ stage'[u] = stage[u] /\ step'[u] = step[u]
                /\ Target(u)' = Target(u) /\ Data(u)' = Data(u)
                /\ ByteOf(u)' = ByteOf(u)
           /\ stage[t] # "stop" => Target(t)' = Target(t) /\ Data(t)' = Data(t)
           /\ \A u \in Tasks : alone'[u] = (alone[u] /\ (u = t \/ ~InTransfer(u)))
<1>1. /\ Running(t) /\ InTransfer(t) /\ Pin(t) /\ LastPin(t)
      /\ stage' = [stage EXCEPT ![t] = NextStage(t)]
      /\ step' = [step EXCEPT ![t] = 1]
      /\ UNCHANGED <<stronger, ack, reg_file, rival>>
      /\ alone' = [u \in Tasks |-> alone[u] /\ (u = t \/ ~InTransfer(u))]
  BY DEF EndOfCall, Running
<1>2. IF stage[t] = "stop"
      THEN /\ job' = [job EXCEPT ![t] = JobAfter(@, ack[t])]
           /\ spoilt' = IF alone[t] THEN spoilt \ {Target(t)} ELSE spoilt \cup {Target(t)}
      ELSE UNCHANGED <<job, spoilt>>
  BY DEF EndOfCall, Target
<1>3. \A u \in Tasks \ {t} : job'[u] = job[u]
  BY <1>2 DEF BusTyped, JobsOK
<1>4. \A u \in Tasks \ {t} : stage'[u] = stage[u] /\ step'[u] = step[u]
  BY <1>1 DEF BusTyped, BusTypeOK
<1>5. stage'[t] = NextStage(t) /\ step'[t] = 1 BY <1>1 DEF BusTyped, BusTypeOK
<1> QED BY <1>1, <1>2, <1>3, <1>4, <1>5 DEF Target, Data, ByteOf

LEMMA AckIs ==
    ASSUME NEW t
    PROVE  /\ Op(t) = "getAck" => Ack(t) = (Wire(dir, sda, Pulls) = 0)
           /\ Op(t) # "getAck" => Ack(t) = ack[t]
BY DEF Ack, Op

LEMMA NoAck ==
    ASSUME NEW t, Op(t) = "getAck", Wire(dir, sda, Pulls) = 1
    PROVE  ~Ack(t)
BY DEF Ack, Op

LEMMA NextStageIs ==
    ASSUME NEW t
    PROVE  /\ stage[t] = "start" => NextStage(t) = "address"
           /\ stage[t] = "address" =>
                NextStage(t) = IF ack[t] THEN "control" ELSE "stop"
           /\ stage[t] = "control" =>
                NextStage(t) = IF ack[t] THEN "data" ELSE "stop"
           /\ stage[t] = "data" => NextStage(t) = "stop"
           /\ stage[t] = "stop" => NextStage(t) = "idle"
BY DEF NextStage

\* A task that waits is not touched by the pins of another.
LEMMA SetPinsSets ==
    ASSUME NEW c, NEW v, NEW d, SetPins(c, v, d)
    PROVE  scl' = c /\ sda' = v /\ dir' = d
BY DEF SetPins

\* Nothing but the codec's place in a byte has bits.
Clean == phase # "shift" => got = <<>>

LEMMA SetPinsClean ==
    ASSUME Clean, NEW c, NEW v, NEW d, SetPins(c, v, d)
    PROVE  Clean'
BY DEF Clean, SetPins, CodecStart, CodecStop, CodecSamples, CodecByte, CodecAckEnds,
       CodecIgnores, codecVars

LEMMA PinClean ==
    ASSUME Clean, NEW t, Pin(t)
    PROVE  Clean'
<1>1. CASE UNCHANGED <<pinVars, codecVars>> BY <1>1 DEF Clean, codecVars
<1>2. ASSUME NEW c, NEW v, NEW d, SetPins(c, v, d) PROVE Clean'
  BY <1>2, SetPinsClean
<1> QED BY <1>1, <1>2 DEF Pin

-----------------------------------------------------------------------------
(* The wires, as the running task has set them since its transfer began *)

Wires(t) ==
    LET k == step[t] IN
    /\ stage[t] = "start" =>
        /\ k > 1 => dir = "out"
        /\ k > 2 => sda = IF k = 5 THEN 0 ELSE 1
        /\ k > 3 => scl = 1
    /\ stage[t] \in ByteStages =>
        /\ k > 1 /\ k <= LastBit + 1 => dir = "out"
        /\ k > LastBit + 1 => dir = "in"
        /\ scl = IF Clocked(k) THEN 1 ELSE 0
        /\ BitHigh(k) => sda = ByteOf(t)[Sampled(k) + 1]
    /\ stage[t] = "stop" =>
        /\ scl = IF k = 4 THEN 1 ELSE 0
        /\ k > 1 => dir = "out"
        /\ k > 2 => sda = 0

LEMMA WiresKept ==
    ASSUME BusTyped, NEW t \in Tasks, InCall(t), Wires(t)
    PROVE  Wires(t)'
<1> DEFINE k == step[t]
           l == k + 1
<1>1. /\ InTransfer(t) /\ Pin(t) /\ ~LastPin(t) /\ stage'[t] = stage[t] /\ step'[t] = l
      /\ ByteOf(t)' = ByteOf(t)
  BY InCallIs
<1>2. CASE stage[t] = "start"
  <2>1. k \in {1, 2, 3, 4} BY <1>1, <1>2, StartPin, Places DEF BusTyped, ByteStages
  <2>2. "start" \notin ByteStages BY DEF ByteStages
  <2>3. CASE k = 1
    <3>1. scl' = scl /\ sda' = sda /\ dir' = "out"
      BY <1>1, <1>2, <2>3, StartPin, SetPinsSets
    <3> QED BY <1>1, <1>2, <2>2, <2>3, <3>1 DEF Wires
  <2>4. CASE k = 2
    <3>1. scl' = scl /\ sda' = 1 /\ dir' = dir
      BY <1>1, <1>2, <2>4, StartPin, SetPinsSets
    <3> QED BY <1>1, <1>2, <2>2, <2>4, <3>1 DEF Wires
  <2>5. CASE k = 3
    <3>1. scl' = 1 /\ sda' = sda /\ dir' = dir
      BY <1>1, <1>2, <2>5, StartPin, SetPinsSets
    <3> QED BY <1>1, <1>2, <2>2, <2>5, <3>1 DEF Wires
  <2>6. CASE k = 4
    <3>1. scl' = scl /\ sda' = 0 /\ dir' = dir
      BY <1>1, <1>2, <2>6, StartPin, SetPinsSets
    <3> QED BY <1>1, <1>2, <2>2, <2>6, <3>1 DEF Wires
  <2> QED BY <2>1, <2>3, <2>4, <2>5, <2>6
<1>3. CASE stage[t] = "stop"
  <2>1. k \in {1, 2, 3} BY <1>1, <1>3, StopPin, Places DEF BusTyped, ByteStages
  <2>2. "stop" \notin ByteStages BY DEF ByteStages
  <2>3. CASE k = 1
    <3>1. scl' = scl /\ sda' = sda /\ dir' = "out"
      BY <1>1, <1>3, <2>3, StopPin, SetPinsSets
    <3> QED BY <1>1, <1>3, <2>2, <2>3, <3>1 DEF Wires
  <2>4. CASE k = 2
    <3>1. scl' = scl /\ sda' = 0 /\ dir' = dir
      BY <1>1, <1>3, <2>4, StopPin, SetPinsSets
    <3> QED BY <1>1, <1>3, <2>2, <2>4, <3>1 DEF Wires
  <2>5. CASE k = 3
    <3>1. scl' = 1 /\ sda' = sda /\ dir' = dir
      BY <1>1, <1>3, <2>5, StopPin, SetPinsSets
    <3> QED BY <1>1, <1>3, <2>2, <2>5, <3>1 DEF Wires
  <2> QED BY <2>1, <2>3, <2>4, <2>5
<1>4. CASE stage[t] \in ByteStages
  <2>1. k \in Nat /\ k >= 1 /\ k <= LastBit + 3 /\ LastBit \in Nat /\ LastBit >= 5
    BY <1>1, <1>4, Places, FirstStep DEF BusTyped, ByteStages
  <2>2. l \in Nat /\ l >= 1 /\ l <= LastBit + 4 /\ k <= LastBit + 4 /\ l > 1 BY <2>1
  <2>3. stage[t] # "start" /\ stage[t] # "stop" BY <1>4 DEF ByteStages
  <2>4. /\ k > 1 /\ k <= LastBit + 1 => dir = "out"
        /\ k > LastBit + 1 => dir = "in"
        /\ scl = IF Clocked(k) THEN 1 ELSE 0
        /\ BitHigh(k) => sda = ByteOf(t)[Sampled(k) + 1]
    BY <1>4 DEF Wires
  <2>5. SUFFICES /\ l <= LastBit + 1 => dir' = "out"
                 /\ l > LastBit + 1 => dir' = "in"
                 /\ scl' = IF Clocked(l) THEN 1 ELSE 0
                 /\ BitHigh(l) => sda' = ByteOf(t)[Sampled(l) + 1]
    BY <1>1, <2>3 DEF Wires
  <2> HIDE DEF k, l
  <2>6. l = k + 1 BY DEF l
  <2>7. k = step[t] BY DEF k
  <2>8. CASE k = 1
    <3>1. scl' = 0 /\ dir' = "out"
      BY <1>1, <1>4, <2>1, <2>2, <2>4, <2>7, <2>8, BytePins, SetPinsSets, ClockedPlaces
    <3>2. BitLow(l) BY <2>1, <2>2, <2>6, <2>8, BitPlaces
    <3> QED BY <2>1, <2>2, <2>6, <2>8, <3>1, <3>2, ClockedPlaces
  <2>9. CASE BitLow(k)
    <3>1. scl' = 0 /\ dir' = "out" /\ BitData(l) /\ k < LastBit /\ 1 < k
      BY <1>1, <1>4, <2>1, <2>2, <2>4, <2>6, <2>7, <2>9, BytePins, SetPinsSets, BitPlaces
    <3> QED BY <2>1, <2>2, <2>6, <3>1, ClockedPlaces
  <2>10. CASE BitData(k)
    <3>1. /\ scl' = scl /\ dir' = dir /\ sda' = ByteOf(t)[Sampled(k) + 1]
          /\ BitHigh(l) /\ k < LastBit /\ 1 < k /\ Sampled(l) = Sampled(k)
      BY <1>1, <1>4, <2>1, <2>2, <2>6, <2>7, <2>10, BytePins, SetPinsSets, BitPlaces
    <3>2. scl = 0 /\ dir = "out" BY <2>1, <2>2, <2>4, <2>10, <3>1, ClockedPlaces
    <3> QED BY <2>1, <2>2, <2>6, <3>1, <3>2, ClockedPlaces
  <2>11. CASE BitHigh(k)
    <3>1. /\ scl' = 1 /\ dir' = dir /\ k < LastBit /\ 1 < k
          /\ BitEnd(l) \/ l = LastBit
      BY <1>1, <1>4, <2>1, <2>2, <2>6, <2>7, <2>11, BytePins, SetPinsSets, BitPlaces
    <3>2. dir = "out" BY <2>1, <2>4, <3>1
    <3> QED BY <2>1, <2>2, <2>6, <3>1, <3>2, ClockedPlaces
  <2>12. CASE BitEnd(k)
    <3>1. scl' = 0 /\ dir' = dir /\ k < LastBit /\ 1 < k /\ BitLow(l)
      BY <1>1, <1>4, <2>1, <2>2, <2>6, <2>7, <2>12, BytePins, SetPinsSets, BitPlaces
    <3>2. dir = "out" BY <2>1, <2>4, <3>1
    <3> QED BY <2>1, <2>2, <2>6, <3>1, <3>2, ClockedPlaces
  <2>13. CASE k = LastBit
    <3>1. scl' = 0 /\ dir' = dir
      BY <1>1, <1>4, <2>7, <2>13, BytePins, SetPinsSets
    <3>2. dir = "out" /\ l = LastBit + 1 /\ ~BitHigh(l)
      BY <2>1, <2>4, <2>6, <2>13 DEF BitHigh
    <3> QED BY <2>1, <2>2, <3>1, <3>2, ClockedPlaces
  <2>14. CASE k = LastBit + 1
    <3>1. scl' = scl /\ dir' = "in"
      BY <1>1, <1>4, <2>7, <2>14, BytePins, SetPinsSets
    <3>2. scl = 0 /\ l = LastBit + 2 /\ ~BitHigh(l)
      BY <2>1, <2>2, <2>4, <2>6, <2>14, ClockedPlaces DEF BitHigh
    <3> QED BY <2>1, <2>2, <3>1, <3>2, ClockedPlaces
  <2>15. CASE k = LastBit + 2
    <3>1. scl' = 1 /\ dir' = dir
      BY <1>1, <1>4, <2>7, <2>15, BytePins, SetPinsSets
    <3>2. dir = "in" /\ l = LastBit + 3 /\ ~BitHigh(l)
      BY <2>1, <2>4, <2>6, <2>15 DEF BitHigh
    <3> QED BY <2>1, <2>2, <3>1, <3>2, ClockedPlaces
  <2>16. CASE k = LastBit + 3
    <3>1. scl' = scl /\ dir' = dir
      BY <1>1, <1>4, <2>7, <2>16, BytePins
    <3>2. scl = 1 /\ dir = "in" /\ l = LastBit + 4 /\ ~BitHigh(l)
      BY <2>1, <2>2, <2>4, <2>6, <2>16, ClockedPlaces DEF BitHigh
    <3> QED BY <2>1, <2>2, <3>1, <3>2, ClockedPlaces
  <2>17. k # LastBit + 4 BY <2>1
  <2> QED BY <2>1, <2>2, <2>8, <2>9, <2>10, <2>11, <2>12, <2>13, <2>14, <2>15, <2>16,
             <2>17, BitPlaces
<1> QED BY <1>1, <1>2, <1>3, <1>4, Places DEF BusTyped

\* Each of the functions but i2c_stop leaves the clock low.
LEMMA WiresNext ==
    ASSUME BusTyped, NEW t \in Tasks, EndOfCall(t), stage[t] # "stop"
    PROVE  Wires(t)' /\ scl' = 0
<1>1. InTransfer(t) /\ Pin(t) /\ LastPin(t) /\ step'[t] = 1 /\ stage'[t] = NextStage(t)
  BY EndIs
<1>2. SetPins(0, sda, dir)
  <2>1. CASE stage[t] = "start"
    <3>1. step[t] = 5 BY <1>1, <2>1, Places DEF BusTyped, ByteStages
    <3> QED BY <1>1, <2>1, <3>1, StartPin
  <2>2. CASE stage[t] \in ByteStages
    <3>1. step[t] = LastBit + 4 BY <1>1, <2>2, Places DEF BusTyped, ByteStages
    <3> QED BY <1>1, <2>2, <3>1, BytePins
  <2> QED BY <1>1, <2>1, <2>2, Places DEF BusTyped
<1>3. scl' = 0 BY <1>2, SetPinsSets
<1>4. stage'[t] # "start" BY <1>1, NextStageIs, Places DEF BusTyped, ByteStages
<1>5. ~Clocked(1) /\ ~BitHigh(1) /\ ~(1 > LastBit + 1)
  BY ClockedPlaces, FirstStep
<1> QED BY <1>1, <1>3, <1>4, <1>5 DEF Wires

\* i2c_stop leaves all pins high.
LEMMA WiresDone ==
    ASSUME BusTyped, NEW t \in Tasks, EndOfCall(t), stage[t] = "stop", Wires(t)
    PROVE  scl' = 1 /\ sda' = 1 /\ dir' = "out"
<1>1. InTransfer(t) /\ Pin(t) /\ LastPin(t) BY EndIs
<1>2. step[t] = 4 BY <1>1, Places DEF BusTyped, ByteStages
<1>3. SetPins(scl, 1, dir) BY <1>1, <1>2, StopPin
<1>4. scl = 1 /\ dir = "out" BY <1>2 DEF Wires
<1> QED BY <1>3, <1>4, SetPinsSets

-----------------------------------------------------------------------------
(* A transfer the codec follows from its start condition on *)

Entering(t) == stage[t] = "start" /\ step[t] < 5

StartSent(t) ==
    /\ stage[t] = "start" /\ step[t] = 5
    /\ phase = "shift" /\ got = <<>> /\ nth = "address"

InByte(t) ==
    LET k == step[t] IN
    /\ stage[t] \in ByteStages /\ nth = stage[t]
    /\ phase = IF k <= LastBit THEN "shift" ELSE "ack"
    /\ k <= LastBit =>
        Len(got) = Sampled(k) /\ \A j \in 1 .. Len(got) : got[j] = ByteOf(t)[j]
    /\ stage[t] = "data" \/ (stage[t] = "control" /\ k > LastBit) =>
        control = Target(t)
    /\ stage[t] = "data" /\ k > LastBit => regs[Target(t)] = Data(t)
    /\ k = LastBit + 4 => ack[t]

Sent(t) ==
    stage[t] = "stop" /\ phase = "idle" /\ ack[t] /\ regs[Target(t)] = Data(t)

Begun(t) == StartSent(t) \/ InByte(t) \/ Sent(t)

LEMMA SameByte ==
    ASSUME NEW b \in Byte, NEW d \in Byte, \A j \in 1 .. Bits : b[j] = d[j]
    PROVE  b = d
<1>1. b = [j \in 1 .. Bits |-> b[j]] BY DEF Byte
<1>2. d = [j \in 1 .. Bits |-> d[j]] BY DEF Byte
<1>3. [j \in 1 .. Bits |-> b[j]] = [j \in 1 .. Bits |-> d[j]] OBVIOUS
<1> QED BY <1>1, <1>2, <1>3

LEMMA WireNow ==
    ASSUME BusTyped
    PROVE  /\ dir = "in" => Wire(dir, sda, Pulls) = IF phase = "ack" THEN 0 ELSE 1
           /\ dir = "out" /\ phase # "ack" => Wire(dir, sda, Pulls) = sda
           /\ dir = "out" /\ sda = 0 => Wire(dir, sda, Pulls) = 0
           /\ dir = "out" /\ sda = 1 /\ phase = "ack" => Wire(dir, sda, Pulls) = stronger
BY TypesHave DEF Wire, Pulls, PinType

\* Only a falling clock moves a byte into a register or ends one.
LEMMA NoFall ==
    ASSUME NEW c, NEW v, NEW d, SetPins(c, v, d), scl = 0 \/ c = 1
    PROVE  /\ UNCHANGED <<control, regs>>
           /\ phase' = "ack" => phase = "ack" /\ nth' = nth
BY DEF SetPins, CodecStart, CodecStop, CodecSamples, CodecByte, CodecAckEnds,
       CodecIgnores, codecVars

LEMMA EnteringKept ==
    ASSUME BusTyped, NEW t \in Tasks, InCall(t), Wires(t), Entering(t)
    PROVE  /\ UNCHANGED <<control, regs>>
           /\ phase' = "ack" => phase = "ack" /\ nth' = nth
           /\ \/ Entering(t)'
              \/ StartSent(t)'
              \/ stage'[t] = "start" /\ step'[t] = 5 /\ phase' = "ack"
<1>1. /\ InTransfer(t) /\ Pin(t) /\ stage'[t] = stage[t] /\ step'[t] = step[t] + 1
      /\ stronger' = stronger
  BY InCallIs
<1>2. /\ step[t] \in {1, 2, 3, 4, 5} /\ stage[t] = "start" /\ step[t] < 5
  BY <1>1, StartPin DEF Entering
<1>3. scl \in {0, 1} /\ sda \in {0, 1} /\ stronger \in {0, 1}
      /\ phase \in {"idle", "shift", "ack"}
  BY TypesHave DEF PinType, CodecType
<1>4. CASE step[t] \in {1, 2, 3}
  <2>1. PICK c, v, d : SetPins(c, v, d) /\ (scl = 0 \/ c = 1)
    BY <1>1, <1>2, <1>3, <1>4, StartPin
  <2>2. Entering(t)' BY <1>1, <1>2, <1>4 DEF Entering
  <2> QED BY <2>1, <2>2, NoFall
<1>5. CASE step[t] = 4
  <2>1. dir = "out" /\ sda = 1 /\ scl = 1 BY <1>2, <1>5 DEF Wires
  <2>2. SetPins(1, 0, "out") BY <1>1, <1>2, <1>5, <2>1, StartPin
  <2>3. /\ UNCHANGED <<control, regs>>
        /\ phase' = "ack" => phase = "ack" /\ nth' = nth
    BY <2>2, NoFall
  <2>4. Wire("out", 0, Pulls) = 0 BY DEF Wire
  <2>5. \/ phase' = "shift" /\ got' = <<>> /\ nth' = "address"
        \/ Wire(dir, sda, Pulls) = 0 /\ UNCHANGED <<phase, got, nth>>
    BY <2>1, <2>2, <2>4, ClockHigh
  <2>6. CASE phase' = "shift" /\ got' = <<>> /\ nth' = "address"
    BY <1>1, <1>2, <1>5, <2>3, <2>6 DEF StartSent
  <2>7. CASE Wire(dir, sda, Pulls) = 0 /\ UNCHANGED <<phase, got, nth>>
    <3>1. phase = "ack" /\ stronger = 0 BY <2>1, <2>7, WireNow
    <3> QED BY <1>1, <1>2, <1>5, <2>3, <2>7, <3>1
  <2> QED BY <2>5, <2>6, <2>7
<1> QED BY <1>2, <1>4, <1>5

LEMMA StartSentEnds ==
    ASSUME BusTyped, NEW t \in Tasks, EndOfCall(t), Wires(t), StartSent(t)
    PROVE  InByte(t)' /\ UNCHANGED <<control, regs>>
<1>1. /\ InTransfer(t) /\ Pin(t) /\ stage'[t] = "address" /\ step'[t] = 1
  BY EndIs, NextStageIs DEF StartSent
<1>2. scl = 1 BY DEF Wires, StartSent
<1>3. SetPins(0, sda, dir) BY <1>1, StartPin DEF StartSent
<1>4. Len(got) = 0 /\ 0 < Bits /\ phase = "shift" /\ got = <<>> /\ nth = "address"
  BY EmptySeq, BusConsts DEF StartSent
<1>5. UNCHANGED <<phase, got, nth, control, regs>>
  BY <1>2, <1>3, <1>4, ClockFalls DEF CodecByte, CodecAckEnds
<1>6. 1 <= LastBit /\ Sampled(1) = 0 /\ 1 # LastBit + 4 BY FirstStep
<1> QED BY <1>1, <1>4, <1>5, <1>6 DEF InByte, ByteStages

LEMMA InByteKept ==
    ASSUME BusTyped, Clean, NEW t \in Tasks, InCall(t), Wires(t), InByte(t)
    PROVE  InByte(t)'
<1> DEFINE k == step[t]
           l == k + 1
           B == ByteOf(t)
<1>1. /\ InTransfer(t) /\ Pin(t) /\ ~LastPin(t) /\ stage'[t] = stage[t] /\ step'[t] = l
      /\ B' = B /\ Target(t)' = Target(t) /\ Data(t)' = Data(t) /\ ack'[t] = Ack(t)
  BY InCallIs
<1>2. stage[t] \in ByteStages /\ nth = stage[t] BY DEF InByte
<1>3. k \in Nat /\ k >= 1 /\ k <= LastBit + 3 /\ LastBit \in Nat /\ LastBit >= 5
  BY <1>1, <1>2, Places, FirstStep DEF BusTyped, ByteStages
<1>4. l \in Nat /\ l >= 1 /\ l <= LastBit + 4 /\ k <= LastBit + 4 /\ l > 1 BY <1>3
<1>5. /\ scl = IF Clocked(k) THEN 1 ELSE 0
      /\ BitHigh(k) => sda = B[Sampled(k) + 1]
      /\ k > 1 /\ k <= LastBit + 1 => dir = "out"
      /\ k > LastBit + 1 => dir = "in"
  BY <1>2 DEF Wires
<1>6. /\ phase = IF k <= LastBit THEN "shift" ELSE "ack"
      /\ k <= LastBit => Len(got) = Sampled(k) /\ \A j \in 1 .. Len(got) : got[j] = B[j]
      /\ stage[t] = "data" \/ (stage[t] = "control" /\ k > LastBit) => control = Target(t)
      /\ stage[t] = "data" /\ k > LastBit => regs[Target(t)] = Data(t)
  BY DEF InByte
<1>7. /\ got \in Seq({0, 1}) /\ Len(got) \in Nat /\ B \in Byte /\ Target(t) \in Byte
      /\ regs \in [Byte -> Byte]
  BY <1>1, JobTypes, TypesHave DEF CodecType
<1>8. SUFFICES /\ nth' = nth /\ phase' = IF l <= LastBit THEN "shift" ELSE "ack"
               /\ l <= LastBit =>
                   Len(got') = Sampled(l) /\ \A j \in 1 .. Len(got') : got'[j] = B[j]
               /\ stage[t] = "data" \/ (stage[t] = "control" /\ l > LastBit) =>
                   control' = Target(t)
               /\ stage[t] = "data" /\ l > LastBit => regs'[Target(t)] = Data(t)
               /\ l = LastBit + 4 => ack'[t]
  BY <1>1, <1>2 DEF InByte
<1>9. k = step[t] /\ l = k + 1 OBVIOUS
<1>10. B = ByteOf(t) OBVIOUS
<1> HIDE DEF k, l, B
<1>11. ASSUME UNCHANGED <<phase, got, nth, control, regs>>,
              (k < LastBit /\ Sampled(l) = Sampled(k)) \/ (k > LastBit /\ k < LastBit + 3)
       PROVE  /\ nth' = nth /\ phase' = IF l <= LastBit THEN "shift" ELSE "ack"
              /\ l <= LastBit =>
                  Len(got') = Sampled(l) /\ \A j \in 1 .. Len(got') : got'[j] = B[j]
              /\ stage[t] = "data" \/ (stage[t] = "control" /\ l > LastBit) =>
                  control' = Target(t)
              /\ stage[t] = "data" /\ l > LastBit => regs'[Target(t)] = Data(t)
              /\ l = LastBit + 4 => ack'[t]
  BY <1>3, <1>4, <1>6, <1>9, <1>11
<1>12. CASE k = 1 \/ BitLow(k) \/ BitData(k) \/ k = LastBit + 1
  <2>1. scl = 0 BY <1>3, <1>4, <1>5, <1>12, ClockedPlaces
  <2>2. \E v, d : SetPins(0, v, d)
    BY <1>1, <1>2, <1>9, <1>12, <2>1, BytePins
  <2>3. UNCHANGED <<phase, got, nth, control, regs>> BY <2>1, <2>2, ClockLow
  <2>4. (k < LastBit /\ Sampled(l) = Sampled(k)) \/ (k > LastBit /\ k < LastBit + 3)
    BY <1>3, <1>4, <1>9, <1>12, BitPlaces
  <2> QED BY <1>11, <2>3, <2>4
<1>13. CASE BitHigh(k)
  <2>1. scl = 0 /\ SetPins(1, sda, dir)
    BY <1>1, <1>2, <1>3, <1>4, <1>5, <1>9, <1>13, ClockedPlaces, BytePins
  <2>2. /\ 3 < k /\ l <= LastBit /\ Sampled(l) = Sampled(k) + 1 /\ Sampled(k) < Bits
        /\ Sampled(k) \in Nat
    BY <1>3, <1>4, <1>9, <1>13, BitPlaces
  <2>3. phase = "shift" /\ Len(got) = Sampled(k) /\ Len(got) < Bits /\ dir = "out"
    BY <1>3, <1>4, <1>5, <1>6, <1>9, <2>2
  <2>4. /\ UNCHANGED <<phase, nth, control, regs>>
        /\ got' = Append(got, Wire(dir, sda, FALSE))
    BY <1>7, <2>1, <2>3, ClockRises
  <2>5. Wire(dir, sda, FALSE) = sda BY <2>3 DEF Wire
  <2>6. sda = B[Sampled(k) + 1] /\ sda \in {0, 1}
    BY <1>5, <1>13, TypesHave DEF PinType
  <2>7. /\ Len(got') = Len(got) + 1 /\ got'[Len(got) + 1] = sda
        /\ \A j \in 1 .. Len(got) : got'[j] = got[j]
    <3>1. got' = Append(got, sda) BY <2>4, <2>5
    <3> QED BY <1>7, <2>6, <3>1, AppendProperties
  <2>8. \A j \in 1 .. Len(got') : got'[j] = B[j]
    <3> TAKE j \in 1 .. Len(got')
    <3>1. CASE j = Len(got) + 1 BY <2>3, <2>6, <2>7, <3>1
    <3>2. CASE j # Len(got) + 1
      <4>1. j \in 1 .. Len(got) BY <1>7, <2>7, <3>2
      <4>2. k <= LastBit BY <1>3, <1>4, <1>9, <2>2
      <4> QED BY <1>6, <2>7, <4>1, <4>2
    <3> QED BY <3>1, <3>2
  <2>9. Len(got') = Sampled(l) BY <2>2, <2>3, <2>7
  <2>10. ~(l > LastBit) /\ l # LastBit + 4 /\ ~(k > LastBit)
    BY <1>3, <1>9, <2>2
  <2> QED BY <1>6, <2>2, <2>3, <2>4, <2>8, <2>9, <2>10
<1>14. CASE BitEnd(k)
  <2>1. scl = 1 /\ SetPins(0, sda, dir)
    BY <1>1, <1>2, <1>3, <1>4, <1>5, <1>9, <1>14, ClockedPlaces, BytePins
  <2>2. k < LastBit /\ Sampled(l) = Sampled(k) /\ Sampled(k) < Bits /\ Sampled(k) \in Nat
    BY <1>3, <1>4, <1>9, <1>14, BitPlaces
  <2>3. phase = "shift" /\ Len(got) < Bits BY <1>3, <1>6, <2>2
  <2>4. UNCHANGED <<phase, got, nth, control, regs>>
    BY <1>7, <2>1, <2>3, ClockFalls, BusConsts DEF CodecByte, CodecAckEnds
  <2> QED BY <1>11, <2>2, <2>4
<1>15. CASE k = LastBit
  <2>1. scl = 1 /\ SetPins(0, sda, dir)
    BY <1>1, <1>2, <1>3, <1>4, <1>5, <1>9, <1>15, ClockedPlaces, BytePins
  <2>2. phase = "shift" /\ Len(got) = Bits
    BY <1>3, <1>4, <1>6, <1>15, BitPlaces
  <2>3. CodecByte(0)
    BY <1>7, <2>1, <2>2, ClockFalls, BusConsts DEF CodecAckEnds
  <2>4. got = B
    <3>1. got \in Byte BY <1>7, <2>2, GotByte
    <3>2. \A j \in 1 .. Bits : got[j] = B[j] BY <1>3, <1>6, <1>15, <2>2
    <3> QED BY <1>7, <3>1, <3>2, SameByte
  <2>5. l = LastBit + 1 /\ ~(l <= LastBit) /\ l > LastBit /\ l # LastBit + 4
    BY <1>3, <1>9, <1>15
  <2>6. nth' = nth BY <2>3 DEF CodecByte
  <2>7. phase' = "ack"
    <3>1. stage[t] = "address" => B = Device BY <1>10 DEF ByteOf
    <3> QED BY <1>2, <2>3, <2>4, <3>1 DEF CodecByte
  <2>8. stage[t] = "control" => control' = Target(t)
    <3>1. stage[t] = "control" => B = Target(t) BY <1>10 DEF ByteOf
    <3> QED BY <1>2, <2>3, <2>4, <3>1 DEF CodecByte
  <2>9. stage[t] = "data" =>
            control' = Target(t) /\ regs'[Target(t)] = Data(t)
    <3> SUFFICES ASSUME stage[t] = "data"
                 PROVE  control' = Target(t) /\ regs'[Target(t)] = Data(t)
      OBVIOUS
    <3>1. B = Data(t) BY <1>10 DEF ByteOf
    <3>2. nth = "data" /\ control = Target(t) BY <1>2, <1>6
    <3>3. control' = control /\ regs' = [regs EXCEPT ![control] = got]
      BY <2>3, <3>2 DEF CodecByte
    <3> QED BY <1>7, <2>4, <3>1, <3>2, <3>3
  <2> QED BY <2>5, <2>6, <2>7, <2>8, <2>9
<1>16. CASE k = LastBit + 2
  <2>1. scl = 0 /\ SetPins(1, sda, dir)
    BY <1>1, <1>2, <1>3, <1>4, <1>5, <1>9, <1>16, ClockedPlaces, BytePins
  <2>2. phase = "ack" BY <1>3, <1>6, <1>16
  <2>3. UNCHANGED <<phase, got, nth, control, regs>>
    BY <1>7, <2>1, <2>2, ClockRises
  <2>4. k > LastBit /\ k < LastBit + 3 BY <1>3, <1>16
  <2> QED BY <1>11, <2>3, <2>4
<1>17. CASE k = LastBit + 3
  <2>1. /\ UNCHANGED <<scl, sda, dir, phase, got, nth, control, regs>>
        /\ Op(t) = "getAck"
    BY <1>1, <1>2, <1>9, <1>17, BytePins
  <2>2. phase = "ack" /\ dir = "in" BY <1>3, <1>5, <1>6, <1>17
  <2>3. ack'[t] BY <1>1, <2>1, <2>2, AckIs, WireNow
  <2>4. l > LastBit /\ ~(l <= LastBit) /\ k > LastBit BY <1>3, <1>9, <1>17
  <2> QED BY <1>6, <2>1, <2>2, <2>3, <2>4
<1>18. k # LastBit + 4 BY <1>3
<1> QED BY <1>3, <1>4, <1>12, <1>13, <1>14, <1>15, <1>16, <1>17, <1>18, BitPlaces

LEMMA InByteEnds ==
    ASSUME BusTyped, Clean, NEW t \in Tasks, EndOfCall(t), Wires(t), InByte(t)
    PROVE  /\ InByte(t)' \/ Sent(t)'
           /\ regs' = regs
<1>1. /\ InTransfer(t) /\ Pin(t) /\ LastPin(t) /\ step'[t] = 1
      /\ stage'[t] = NextStage(t) /\ ack' = ack
  BY EndIs
<1>2. stage[t] \in ByteStages /\ nth = stage[t] BY DEF InByte
<1>3. step[t] = LastBit + 4 BY <1>1, <1>2, Places DEF BusTyped, ByteStages
<1>4. LastBit \in Nat /\ LastBit >= 5 /\ Sampled(1) = 0 BY FirstStep
<1>5. SetPins(0, sda, dir) /\ scl = 1
  <2>1. scl = IF Clocked(LastBit + 4) THEN 1 ELSE 0 BY <1>2, <1>3 DEF Wires
  <2>2. Clocked(LastBit + 4) BY <1>4, ClockedPlaces
  <2> QED BY <1>1, <1>2, <1>3, <2>1, <2>2, BytePins
<1>6. /\ phase = "ack" /\ ack[t]
      /\ stage[t] \in {"control", "data"} => control = Target(t)
      /\ stage[t] = "data" => regs[Target(t)] = Data(t)
  BY <1>3, <1>4 DEF InByte
<1>7. CodecAckEnds(0) BY <1>5, <1>6, ClockFalls DEF CodecByte
<1>8. got' = <<>> /\ Len(got') = 0 BY <1>6, <1>7, EmptySeq DEF CodecAckEnds, Clean
<1>9. Target(t)' = Target(t) /\ Data(t)' = Data(t)
  BY <1>2, EndIs DEF ByteStages
<1>10. 1 <= LastBit /\ 1 # LastBit + 4 BY <1>4
<1>11. regs' = regs /\ control' = control BY <1>7 DEF CodecAckEnds
<1>12. CASE stage[t] = "address"
  <2>1. stage'[t] = "control" /\ nth' = "control" /\ phase' = "shift"
    BY <1>1, <1>2, <1>6, <1>7, <1>12, NextStageIs DEF CodecAckEnds
  <2> QED BY <1>1, <1>4, <1>8, <1>10, <1>11, <2>1 DEF InByte, ByteStages
<1>13. CASE stage[t] = "control"
  <2>1. stage'[t] = "data" /\ nth' = "data" /\ phase' = "shift"
    BY <1>1, <1>2, <1>6, <1>7, <1>13, NextStageIs DEF CodecAckEnds
  <2>2. control' = Target(t)' BY <1>6, <1>9, <1>11, <1>13
  <2> QED BY <1>1, <1>4, <1>8, <1>10, <1>11, <2>1, <2>2 DEF InByte, ByteStages
<1>14. CASE stage[t] = "data"
  <2>1. stage'[t] = "stop" /\ phase' = "idle"
    BY <1>1, <1>2, <1>6, <1>7, <1>14, NextStageIs DEF CodecAckEnds
  <2> QED BY <1>1, <1>6, <1>9, <1>11, <1>14, <2>1 DEF Sent
<1> QED BY <1>2, <1>11, <1>12, <1>13, <1>14 DEF ByteStages

LEMMA StopKept ==
    ASSUME BusTyped, NEW t \in Tasks, InCall(t), Wires(t), stage[t] = "stop", phase = "idle"
    PROVE  UNCHANGED <<phase, got, nth, control, regs>>
<1>1. InTransfer(t) /\ Pin(t) /\ ~LastPin(t) BY InCallIs
<1>2. step[t] \in {1, 2, 3}
  BY <1>1, StopPin, Places DEF BusTyped, ByteStages
<1>3. scl = 0 BY <1>2 DEF Wires
<1>4. CASE step[t] \in {1, 2}
  <2>1. \E v, d : SetPins(0, v, d) BY <1>1, <1>3, <1>4, StopPin
  <2> QED BY <1>3, <2>1, ClockLow
<1>5. CASE step[t] = 3
  <2>1. SetPins(1, sda, dir) BY <1>1, <1>5, StopPin
  <2> QED BY <1>3, <2>1, ClockRises, TypesHave
<1> QED BY <1>2, <1>4, <1>5

LEMMA StopDone ==
    ASSUME BusTyped, NEW t \in Tasks, EndOfCall(t), Wires(t), stage[t] = "stop",
           phase = "idle"
    PROVE  phase' = "idle" /\ UNCHANGED <<control, regs>>
<1>1. InTransfer(t) /\ Pin(t) /\ LastPin(t) BY EndIs
<1>2. step[t] = 4 BY <1>1, Places DEF BusTyped, ByteStages
<1>3. scl = 1 /\ sda = 0 /\ dir = "out" BY <1>2 DEF Wires
<1>4. SetPins(1, 1, "out") BY <1>1, <1>2, <1>3, StopPin
<1>5. Wire(dir, sda, Pulls) = 0 BY <1>3, WireNow
<1> QED BY <1>3, <1>4, <1>5, ClockHigh

LEMMA SentKept ==
    ASSUME BusTyped, NEW t \in Tasks, InCall(t), Wires(t), Sent(t)
    PROVE  Sent(t)' /\ regs' = regs
<1>1. stage[t] = "stop" /\ phase = "idle" BY DEF Sent
<1>2. UNCHANGED <<phase, got, nth, control, regs>> BY <1>1, StopKept
<1>3. /\ stage'[t] = "stop" /\ ack'[t] = Ack(t)
      /\ Target(t)' = Target(t) /\ Data(t)' = Data(t) /\ InTransfer(t) /\ Pin(t)
  BY <1>1, InCallIs
<1>4. ack'[t] = ack[t] BY <1>1, <1>3, StopPin, AckIs
<1> QED BY <1>2, <1>3, <1>4 DEF Sent

\* What a task whose transfer the codec follows does to the registers.
LEMMA BegunKept ==
    ASSUME BusTyped, Clean, NEW t \in Tasks, InCall(t), Wires(t), Begun(t)
    PROVE  Begun(t)'
<1>1. ~StartSent(t)
  <2>1. InTransfer(t) /\ ~LastPin(t) BY InCallIs
  <2> QED BY <2>1, Places DEF BusTyped, ByteStages, StartSent
<1>2. CASE InByte(t) BY <1>2, InByteKept DEF Begun
<1>3. CASE Sent(t) BY <1>3, SentKept DEF Begun
<1> QED BY <1>1, <1>2, <1>3 DEF Begun

LEMMA BegunEnds ==
    ASSUME BusTyped, Clean, NEW t \in Tasks, EndOfCall(t), Wires(t), Begun(t),
           stage[t] # "stop"
    PROVE  Begun(t)' /\ regs' = regs
<1>1. ~Sent(t) BY DEF Sent
<1>2. CASE StartSent(t) BY <1>2, StartSentEnds DEF Begun
<1>3. CASE InByte(t) BY <1>3, InByteEnds DEF Begun
<1> QED BY <1>1, <1>2, <1>3 DEF Begun

-----------------------------------------------------------------------------
(* A transfer whose start condition the codec overruled, while it drove the *)
(* acknowledgement of a transfer that was interrupted                       *)

OverruledStart(t) == stage[t] = "start" /\ step[t] = 5 /\ phase = "ack"

\* The codec takes a byte for the one after it or the one after that.
Ahead(t) == \/ stage[t] = "address" /\ nth \in {"control", "data"}
            \/ stage[t] = "control" /\ nth = "data"

Slipped(t) ==
    LET k == step[t] IN
    /\ stage[t] \in ByteStages /\ Ahead(t)
    /\ phase = IF k <= LastBit THEN "shift" ELSE "ack"
    /\ k <= LastBit =>
        Len(got) = Sampled(k) /\ \A j \in 1 .. Len(got) : got[j] = ByteOf(t)[j]
    /\ k = LastBit + 4 => ack[t]

Ignored(t) ==
    /\ stage[t] \in ByteStages /\ phase = "idle"
    /\ step[t] = LastBit + 4 => ~ack[t]

Failed(t) == stage[t] = "stop" /\ phase = "idle" /\ ~ack[t]

Astray(t) == OverruledStart(t) \/ Slipped(t) \/ Ignored(t) \/ Failed(t)

LEMMA IgnoredStill ==
    ASSUME BusTyped, NEW t \in Tasks, InTransfer(t), Pin(t), Wires(t), Ignored(t)
    PROVE  UNCHANGED <<phase, got, nth, control, regs>>
<1> DEFINE k == step[t]
<1>1. stage[t] \in ByteStages /\ phase = "idle" BY DEF Ignored
<1>2. k \in Nat /\ k >= 1 /\ k <= LastBit + 4
  BY <1>1, BytePins
<1>3. scl = IF Clocked(k) THEN 1 ELSE 0 BY <1>1 DEF Wires
<1>4. k = step[t] OBVIOUS
<1> HIDE DEF k
<1>5. Len(got) \in Nat BY TypesHave
<1>6. CASE k = 1 \/ BitLow(k) \/ BitData(k) \/ k = LastBit + 1
  <2>1. scl = 0 BY <1>2, <1>3, <1>6, ClockedPlaces
  <2>2. \E v, d : SetPins(0, v, d) BY <1>1, <1>4, <1>6, <2>1, BytePins
  <2> QED BY <2>1, <2>2, ClockLow
<1>7. CASE BitHigh(k) \/ k = LastBit + 2
  <2>1. scl = 0 BY <1>2, <1>3, <1>7, ClockedPlaces
  <2>2. SetPins(1, sda, dir) BY <1>1, <1>4, <1>7, BytePins
  <2> QED BY <1>1, <1>5, <2>1, <2>2, ClockRises
<1>8. CASE BitEnd(k) \/ k = LastBit \/ k = LastBit + 4
  <2>1. scl = 1 BY <1>2, <1>3, <1>8, ClockedPlaces
  <2>2. SetPins(0, sda, dir) BY <1>1, <1>4, <1>8, BytePins
  <2> QED BY <1>1, <2>1, <2>2, ClockFalls DEF CodecByte, CodecAckEnds
<1>9. CASE k = LastBit + 3 BY <1>1, <1>4, <1>9, BytePins
<1> QED BY <1>2, <1>6, <1>7, <1>8, <1>9, BitPlaces

LEMMA IgnoredKept ==
    ASSUME BusTyped, NEW t \in Tasks, InCall(t), Wires(t), Ignored(t)
    PROVE  Ignored(t)' /\ regs' = regs /\ control' = control
<1>1. /\ InTransfer(t) /\ Pin(t) /\ ~LastPin(t) /\ stage'[t] = stage[t]
      /\ step'[t] = step[t] + 1 /\ ack'[t] = Ack(t)
  BY InCallIs
<1>2. stage[t] \in ByteStages /\ phase = "idle" BY DEF Ignored
<1>3. UNCHANGED <<phase, got, nth, control, regs>> BY <1>1, IgnoredStill
<1>4. step'[t] = LastBit + 4 => ~ack'[t]
  <2> SUFFICES ASSUME step'[t] = LastBit + 4 PROVE ~ack'[t] OBVIOUS
  <2>1. step[t] = LastBit + 3 /\ LastBit + 3 > LastBit + 1
    BY <1>1, <1>2, Places, FirstStep DEF BusTyped
  <2>2. Op(t) = "getAck" BY <1>1, <1>2, <2>1, BytePins
  <2>3. dir = "in" BY <1>2, <2>1 DEF Wires
  <2>4. Wire(dir, sda, Pulls) = 1 BY <1>2, <2>3, WireNow
  <2>5. ~Ack(t) BY <2>2, <2>4, NoAck
  <2> QED BY <1>1, <2>5
<1> QED BY <1>1, <1>2, <1>3, <1>4 DEF Ignored

LEMMA IgnoredEnds ==
    ASSUME BusTyped, NEW t \in Tasks, EndOfCall(t), Wires(t), Ignored(t)
    PROVE  Failed(t)' /\ regs' = regs /\ control' = control
<1>1. /\ InTransfer(t) /\ Pin(t) /\ LastPin(t) /\ stage'[t] = NextStage(t) /\ ack' = ack
  BY EndIs
<1>2. stage[t] \in ByteStages /\ phase = "idle" BY DEF Ignored
<1>3. UNCHANGED <<phase, got, nth, control, regs>> BY <1>1, IgnoredStill
<1>4. step[t] = LastBit + 4 BY <1>1, <1>2, Places DEF BusTyped, ByteStages
<1>5. ~ack[t] BY <1>4 DEF Ignored
<1>6. stage'[t] = "stop" BY <1>1, <1>2, <1>5, NextStageIs DEF ByteStages
<1> QED BY <1>1, <1>2, <1>3, <1>5, <1>6 DEF Failed

LEMMA SlippedKept ==
    ASSUME BusTyped, Clean, NEW t \in Tasks, InCall(t), Wires(t), Slipped(t)
    PROVE  Slipped(t)'
<1> DEFINE k == step[t]
           l == k + 1
           B == ByteOf(t)
<1>1. /\ InTransfer(t) /\ Pin(t) /\ ~LastPin(t) /\ stage'[t] = stage[t] /\ step'[t] = l
      /\ B' = B /\ ack'[t] = Ack(t)
  BY InCallIs
<1>2. stage[t] \in ByteStages /\ Ahead(t) BY DEF Slipped
<1>3. k \in Nat /\ k >= 1 /\ k <= LastBit + 3 /\ LastBit \in Nat /\ LastBit >= 5
  BY <1>1, <1>2, Places, FirstStep DEF BusTyped, ByteStages
<1>4. l \in Nat /\ l >= 1 /\ l <= LastBit + 4 /\ k <= LastBit + 4 /\ l > 1 BY <1>3
<1>5. /\ scl = IF Clocked(k) THEN 1 ELSE 0
      /\ BitHigh(k) => sda = B[Sampled(k) + 1]
      /\ k > 1 /\ k <= LastBit + 1 => dir = "out"
      /\ k > LastBit + 1 => dir = "in"
  BY <1>2 DEF Wires
<1>6. /\ phase = IF k <= LastBit THEN "shift" ELSE "ack"
      /\ k <= LastBit => Len(got) = Sampled(k) /\ \A j \in 1 .. Len(got) : got[j] = B[j]
  BY DEF Slipped
<1>7. got \in Seq({0, 1}) /\ Len(got) \in Nat
  BY TypesHave DEF CodecType
<1>8. SUFFICES /\ nth' = nth /\ phase' = IF l <= LastBit THEN "shift" ELSE "ack"
               /\ l <= LastBit =>
                   Len(got') = Sampled(l) /\ \A j \in 1 .. Len(got') : got'[j] = B[j]
               /\ l = LastBit + 4 => ack'[t]
  BY <1>1, <1>2 DEF Slipped, Ahead
<1>9. k = step[t] /\ l = k + 1 OBVIOUS
<1> HIDE DEF k, l, B
<1>11. ASSUME UNCHANGED <<phase, got, nth, control, regs>>,
              (k < LastBit /\ Sampled(l) = Sampled(k)) \/ (k > LastBit /\ k < LastBit + 3)
       PROVE  /\ nth' = nth /\ phase' = IF l <= LastBit THEN "shift" ELSE "ack"
              /\ l <= LastBit =>
                  Len(got') = Sampled(l) /\ \A j \in 1 .. Len(got') : got'[j] = B[j]
              /\ l = LastBit + 4 => ack'[t]
  BY <1>3, <1>4, <1>6, <1>9, <1>11
<1>12. CASE k = 1 \/ BitLow(k) \/ BitData(k) \/ k = LastBit + 1
  <2>1. scl = 0 BY <1>3, <1>4, <1>5, <1>12, ClockedPlaces
  <2>2. \E v, d : SetPins(0, v, d)
    BY <1>1, <1>2, <1>9, <1>12, <2>1, BytePins
  <2>3. UNCHANGED <<phase, got, nth, control, regs>> BY <2>1, <2>2, ClockLow
  <2>4. (k < LastBit /\ Sampled(l) = Sampled(k)) \/ (k > LastBit /\ k < LastBit + 3)
    BY <1>3, <1>4, <1>9, <1>12, BitPlaces
  <2> QED BY <1>11, <2>3, <2>4
<1>13. CASE BitHigh(k)
  <2>1. scl = 0 /\ SetPins(1, sda, dir)
    BY <1>1, <1>2, <1>3, <1>4, <1>5, <1>9, <1>13, ClockedPlaces, BytePins
  <2>2. /\ 3 < k /\ l <= LastBit /\ Sampled(l) = Sampled(k) + 1 /\ Sampled(k) < Bits
        /\ Sampled(k) \in Nat
    BY <1>3, <1>4, <1>9, <1>13, BitPlaces
  <2>3. phase = "shift" /\ Len(got) = Sampled(k) /\ Len(got) < Bits /\ dir = "out"
    BY <1>3, <1>4, <1>5, <1>6, <1>9, <2>2
  <2>4. UNCHANGED <<phase, nth>> /\ got' = Append(got, Wire(dir, sda, FALSE))
    BY <1>7, <2>1, <2>3, ClockRises
  <2>5. Wire(dir, sda, FALSE) = sda BY <2>3 DEF Wire
  <2>6. sda = B[Sampled(k) + 1] /\ sda \in {0, 1}
    BY <1>5, <1>13, TypesHave DEF PinType
  <2>7. /\ Len(got') = Len(got) + 1 /\ got'[Len(got) + 1] = sda
        /\ \A j \in 1 .. Len(got) : got'[j] = got[j]
    <3>1. got' = Append(got, sda) BY <2>4, <2>5
    <3> QED BY <1>7, <2>6, <3>1, AppendProperties
  <2>8. \A j \in 1 .. Len(got') : got'[j] = B[j]
    <3> TAKE j \in 1 .. Len(got')
    <3>1. CASE j = Len(got) + 1 BY <2>3, <2>6, <2>7, <3>1
    <3>2. CASE j # Len(got) + 1
      <4>1. j \in 1 .. Len(got) BY <1>7, <2>7, <3>2
      <4>2. k <= LastBit BY <1>3, <1>4, <1>9, <2>2
      <4> QED BY <1>6, <2>7, <4>1, <4>2
    <3> QED BY <3>1, <3>2
  <2>9. Len(got') = Sampled(l) BY <2>2, <2>3, <2>7
  <2>10. l # LastBit + 4 BY <1>3, <2>2
  <2> QED BY <2>2, <2>3, <2>4, <2>8, <2>9, <2>10
<1>14. CASE BitEnd(k)
  <2>1. scl = 1 /\ SetPins(0, sda, dir)
    BY <1>1, <1>2, <1>3, <1>4, <1>5, <1>9, <1>14, ClockedPlaces, BytePins
  <2>2. k < LastBit /\ Sampled(l) = Sampled(k) /\ Sampled(k) < Bits /\ Sampled(k) \in Nat
    BY <1>3, <1>4, <1>9, <1>14, BitPlaces
  <2>3. phase = "shift" /\ Len(got) < Bits BY <1>3, <1>6, <2>2
  <2>4. UNCHANGED <<phase, got, nth, control, regs>>
    BY <1>7, <2>1, <2>3, ClockFalls, BusConsts DEF CodecByte, CodecAckEnds
  <2> QED BY <1>11, <2>2, <2>4
<1>15. CASE k = LastBit
  <2>1. scl = 1 /\ SetPins(0, sda, dir)
    BY <1>1, <1>2, <1>3, <1>4, <1>5, <1>9, <1>15, ClockedPlaces, BytePins
  <2>2. phase = "shift" /\ Len(got) = Bits
    BY <1>3, <1>4, <1>6, <1>15, BitPlaces
  <2>3. CodecByte(0)
    BY <1>7, <2>1, <2>2, ClockFalls, BusConsts DEF CodecAckEnds
  <2>4. ~(l <= LastBit) /\ l # LastBit + 4 BY <1>3, <1>9, <1>15
  <2>5. nth # "address" BY <1>2 DEF Ahead
  <2> QED BY <2>3, <2>4, <2>5 DEF CodecByte
<1>16. CASE k = LastBit + 2
  <2>1. scl = 0 /\ SetPins(1, sda, dir)
    BY <1>1, <1>2, <1>3, <1>4, <1>5, <1>9, <1>16, ClockedPlaces, BytePins
  <2>2. phase = "ack" BY <1>3, <1>6, <1>16
  <2>3. UNCHANGED <<phase, got, nth, control, regs>>
    BY <1>7, <2>1, <2>2, ClockRises
  <2>4. k > LastBit /\ k < LastBit + 3 BY <1>3, <1>16
  <2> QED BY <1>11, <2>3, <2>4
<1>17. CASE k = LastBit + 3
  <2>1. /\ UNCHANGED <<scl, sda, dir, phase, got, nth, control, regs>>
        /\ Op(t) = "getAck"
    BY <1>1, <1>2, <1>9, <1>17, BytePins
  <2>2. phase = "ack" /\ dir = "in" BY <1>3, <1>5, <1>6, <1>17
  <2>3. ack'[t] BY <1>1, <2>1, <2>2, AckIs, WireNow
  <2>4. ~(l <= LastBit) BY <1>3, <1>9, <1>17
  <2> QED BY <1>6, <2>1, <2>2, <2>3, <2>4
<1>18. k # LastBit + 4 BY <1>3
<1> QED BY <1>3, <1>4, <1>12, <1>13, <1>14, <1>15, <1>16, <1>17, <1>18, BitPlaces

LEMMA SlippedEnds ==
    ASSUME BusTyped, Clean, NEW t \in Tasks, EndOfCall(t), Wires(t), Slipped(t)
    PROVE  Slipped(t)' \/ Ignored(t)'
<1>1. /\ InTransfer(t) /\ Pin(t) /\ LastPin(t) /\ step'[t] = 1
      /\ stage'[t] = NextStage(t) /\ ack' = ack
  BY EndIs
<1>2. stage[t] \in ByteStages /\ Ahead(t) BY DEF Slipped
<1>3. step[t] = LastBit + 4 BY <1>1, <1>2, Places DEF BusTyped, ByteStages
<1>4. LastBit \in Nat /\ LastBit >= 5 /\ Sampled(1) = 0 BY FirstStep
<1>5. SetPins(0, sda, dir) /\ scl = 1
  <2>1. scl = IF Clocked(LastBit + 4) THEN 1 ELSE 0 BY <1>2, <1>3 DEF Wires
  <2>2. Clocked(LastBit + 4) BY <1>4, ClockedPlaces
  <2> QED BY <1>1, <1>2, <1>3, <2>1, <2>2, BytePins
<1>6. phase = "ack" /\ ack[t] BY <1>3, <1>4 DEF Slipped
<1>7. CodecAckEnds(0) BY <1>5, <1>6, ClockFalls DEF CodecByte
<1>8. got' = <<>> /\ Len(got') = 0 BY <1>6, <1>7, EmptySeq DEF CodecAckEnds, Clean
<1>9. 1 <= LastBit /\ 1 # LastBit + 4 BY <1>4
<1>10. stage'[t] \in ByteStages
  BY <1>1, <1>2, <1>6, NextStageIs DEF ByteStages, Ahead
<1>11. CASE nth = "data"
  <2>1. phase' = "idle" BY <1>7, <1>11 DEF CodecAckEnds
  <2> QED BY <1>1, <1>9, <1>10, <2>1 DEF Ignored
<1>12. CASE nth # "data"
  <2>1. stage[t] = "address" /\ nth = "control" BY <1>2, <1>12 DEF Ahead
  <2>2. stage'[t] = "control" BY <1>1, <1>6, <2>1, NextStageIs
  <2>3. phase' = "shift" /\ nth' = "data" BY <1>7, <2>1 DEF CodecAckEnds
  <2> QED BY <1>1, <1>4, <1>8, <1>9, <1>10, <2>2, <2>3 DEF Slipped, Ahead
<1> QED BY <1>11, <1>12

LEMMA OverruledEnds ==
    ASSUME BusTyped, Clean, NEW t \in Tasks, EndOfCall(t), Wires(t), OverruledStart(t)
    PROVE  /\ nth # "data" => Slipped(t)'
           /\ nth = "data" => Ignored(t)'
           /\ regs' = regs
<1>1. /\ InTransfer(t) /\ Pin(t) /\ stage'[t] = "address" /\ step'[t] = 1
  BY EndIs, NextStageIs DEF OverruledStart
<1>2. scl = 1 BY DEF Wires, OverruledStart
<1>3. SetPins(0, sda, dir) BY <1>1, StartPin DEF OverruledStart
<1>4. phase = "ack" BY DEF OverruledStart
<1>5. CodecAckEnds(0) BY <1>2, <1>3, <1>4, ClockFalls DEF CodecByte
<1>6. got' = <<>> /\ Len(got') = 0 BY <1>4, <1>5, EmptySeq DEF CodecAckEnds, Clean
<1>7. 1 <= LastBit /\ Sampled(1) = 0 /\ 1 # LastBit + 4 BY FirstStep
<1>8. nth \in {"address", "control", "data"} BY TypesHave DEF CodecType
<1>9. CASE nth = "data"
  <2>1. phase' = "idle" /\ regs' = regs BY <1>5, <1>9 DEF CodecAckEnds
  <2> QED BY <1>1, <1>7, <1>9, <2>1 DEF Ignored, ByteStages
<1>10. CASE nth # "data"
  <2>1. phase' = "shift" /\ nth' \in {"control", "data"} /\ regs' = regs
    BY <1>5, <1>8, <1>10 DEF CodecAckEnds
  <2> QED BY <1>1, <1>6, <1>7, <1>10, <2>1 DEF Slipped, Ahead, ByteStages
<1> QED BY <1>9, <1>10

LEMMA FailedKept ==
    ASSUME BusTyped, NEW t \in Tasks, InCall(t), Wires(t), Failed(t)
    PROVE  Failed(t)' /\ regs' = regs
<1>1. stage[t] = "stop" /\ phase = "idle" BY DEF Failed
<1>2. UNCHANGED <<phase, got, nth, control, regs>> BY <1>1, StopKept
<1>3. stage'[t] = "stop" /\ ack'[t] = Ack(t) /\ InTransfer(t) /\ Pin(t)
  BY <1>1, InCallIs
<1>4. ack'[t] = ack[t] BY <1>1, <1>3, StopPin, AckIs
<1> QED BY <1>2, <1>3, <1>4 DEF Failed

-----------------------------------------------------------------------------
(* A transfer that another one has broken off: the codec no longer listens, *)
(* or takes a change of the data wire for a start condition                 *)

Unheard(t) ==
    LET k == step[t] IN
    /\ phase = "idle"
    /\ \/ stage[t] = "start" /\ k = 5
       \/ /\ stage[t] \in ByteStages
          /\ k = 1 /\ scl = 1 => sda = 1
          /\ k = LastBit + 2 \/ k = LastBit + 3 => dir = "in" \/ sda = 1

Misheard(t) ==
    LET k == step[t] IN
    /\ stage[t] \in ByteStages /\ phase = "shift" /\ nth = "address" /\ k >= 4
    /\ k <= LastBit =>
        \/ BitHigh(k) /\ scl = 1 /\ got = <<>>
        \/ Len(got) < Sampled(k) /\ scl = IF Clocked(k) THEN 1 ELSE 0
    /\ k = LastBit + 1 \/ k = LastBit + 2 => scl = 0 /\ Len(got) < Bits
    /\ k > LastBit + 1 => dir = "in"
    /\ k > LastBit + 2 => scl = 1 /\ (Len(got) = Bits => got[Bits] = 1)
    /\ k = LastBit + 4 => ~ack[t]

Stopping(t) ==
    LET k == step[t] IN
    /\ stage[t] = "stop"
    /\ k > 1 => dir = "out"
    /\ k = 4 => scl = 1
    /\ k <= 2 /\ scl = 1 => sda = 1 /\ dir = "out" /\ phase = "idle"
    /\ phase # "ack"
    /\ phase = "shift" => nth = "address"
    /\ phase # "idle" /\ k > 2 => sda = 0
    /\ k <= 2 /\ phase = "shift" => ~ack[t]

Cut(t) == Unheard(t) \/ Misheard(t) \/ Stopping(t)

\* What another transfer leaves behind when it has ended.
Quiet == phase = "idle" /\ dir = "out" /\ sda = 1 /\ scl = 1

\* An idle codec does not heed the clock alone.
LEMMA IdleClock ==
    ASSUME BusTyped, phase = "idle", NEW c \in {0, 1}, SetPins(c, sda, dir)
    PROVE  UNCHANGED <<phase, got, nth, control, regs>>
<1>1. scl \in {0, 1} /\ Len(got) \in Nat BY TypesHave DEF PinType
<1>2. CASE scl = 0 /\ c = 0 BY <1>2, ClockLow
<1>3. CASE scl = 0 /\ c = 1 BY <1>1, <1>3, ClockRises
<1>4. CASE scl = 1 /\ c = 0 BY <1>4, ClockFalls DEF CodecByte, CodecAckEnds
<1>5. CASE scl = 1 /\ c = 1
  <2>1. \/ /\ Wire(dir, sda, Pulls) = 1 /\ Wire(dir, sda, Pulls) = 0
        \/ /\ Wire(dir, sda, Pulls) = 0 /\ Wire(dir, sda, Pulls) = 1
        \/ UNCHANGED <<phase, got, nth, control, regs>>
    BY <1>5, ClockHigh
  <2> QED BY <2>1
<1> QED BY <1>1, <1>2, <1>3, <1>4, <1>5

LEMMA UnheardKept ==
    ASSUME BusTyped, NEW t \in Tasks, InCall(t), Unheard(t)
    PROVE  /\ Unheard(t)' \/ Misheard(t)'
           /\ UNCHANGED <<control, regs>>
           /\ Op(t) = "getAck" => ~ack'[t]
<1> DEFINE k == step[t]
           l == k + 1
<1>1. /\ InTransfer(t) /\ Pin(t) /\ ~LastPin(t) /\ stage'[t] = stage[t] /\ step'[t] = l
      /\ ack'[t] = Ack(t)
  BY InCallIs
<1>2. stage[t] \in ByteStages
  <2>1. ~(stage[t] = "start" /\ step[t] = 5)
    BY <1>1, Places DEF BusTyped, ByteStages
  <2> QED BY <2>1 DEF Unheard
<1>3. /\ phase = "idle" /\ (k = 1 /\ scl = 1 => sda = 1)
      /\ k = LastBit + 2 \/ k = LastBit + 3 => dir = "in" \/ sda = 1
  BY <1>2 DEF Unheard, ByteStages
<1>4. k \in Nat /\ k >= 1 /\ k <= LastBit + 3 /\ LastBit \in Nat /\ LastBit >= 5
  BY <1>1, <1>2, Places, FirstStep DEF BusTyped, ByteStages
<1>5. l \in Nat /\ l > 1 /\ l <= LastBit + 4 /\ k <= LastBit + 4 BY <1>4
<1>6. /\ scl \in {0, 1} /\ sda \in {0, 1} /\ dir \in {"in", "out"} /\ ~Pulls
      /\ stronger \in {0, 1}
  BY <1>3, TypesHave DEF PinType, Pulls
<1>7. k = step[t] /\ l = k + 1 OBVIOUS
<1> HIDE DEF k, l
<1>8. ASSUME phase' = "idle", UNCHANGED <<control, regs>>,
             l = LastBit + 2 \/ l = LastBit + 3 => dir' = "in" \/ sda' = 1,
             k # LastBit + 3
      PROVE  /\ Unheard(t)' \/ Misheard(t)'
             /\ UNCHANGED <<control, regs>>
             /\ Op(t) = "getAck" => ~ack'[t]
  <2>1. Op(t) # "getAck" BY <1>1, <1>2, <1>7, <1>8, BytePins
  <2>2. Unheard(t)' BY <1>1, <1>2, <1>5, <1>8 DEF Unheard
  <2> QED BY <1>8, <2>1, <2>2
<1>9. CASE k = 1
  <2>1. SetPins(scl, sda, "out") BY <1>1, <1>2, <1>7, <1>9, BytePins
  <2>2. UNCHANGED <<phase, control, regs>>
    <3>1. CASE scl = 0 BY <2>1, <3>1, ClockLow
    <3>2. CASE scl = 1
      <4>1. sda = 1 BY <1>3, <1>9, <3>2
      <4>2. Wire(dir, sda, Pulls) = 1 /\ Wire("out", sda, Pulls) = 1
        BY <1>6, <4>1 DEF Wire
      <4>3. SetPins(1, sda, "out") BY <2>1, <3>2
      <4> QED BY <3>2, <4>2, <4>3, ClockHigh
    <3> QED BY <1>6, <3>1, <3>2
  <2>3. l # LastBit + 2 /\ l # LastBit + 3 /\ k # LastBit + 3 BY <1>4, <1>7, <1>9
  <2> QED BY <1>3, <1>8, <2>2, <2>3
<1>10. CASE BitLow(k) \/ BitEnd(k) \/ BitHigh(k) \/ k = LastBit
  <2>1. \E c \in {0, 1} : SetPins(c, sda, dir)
    BY <1>1, <1>2, <1>7, <1>10, BytePins
  <2>2. UNCHANGED <<phase, control, regs>> BY <1>3, <2>1, IdleClock
  <2>3. k <= LastBit BY <1>4, <1>5, <1>10, BitPlaces
  <2>4. l # LastBit + 2 /\ l # LastBit + 3 /\ k # LastBit + 3 BY <1>4, <1>7, <2>3
  <2> QED BY <1>3, <1>8, <2>2, <2>4
<1>11. CASE BitData(k)
  <2> DEFINE b == ByteOf(t)[Sampled(k) + 1]
  <2>1. SetPins(scl, b, dir) BY <1>1, <1>2, <1>7, <1>11, BytePins
  <2> HIDE DEF b
  <2>2. 1 < k /\ l < LastBit /\ BitHigh(l) BY <1>4, <1>5, <1>7, <1>11, BitPlaces
  <2>3. l >= 4 /\ l # LastBit + 2 /\ l # LastBit + 3 /\ k # LastBit + 3
    <3>1. 3 < l BY <1>5, <2>2, BitPlaces
    <3> QED BY <1>4, <1>5, <1>7, <2>2, <3>1
  <2>4. CASE scl = 0
    <3>1. UNCHANGED <<phase, control, regs>> BY <2>1, <2>4, ClockLow
    <3> QED BY <1>3, <1>8, <2>3, <3>1
  <2>5. CASE scl = 1
    <3>1. SetPins(1, b, dir) BY <2>1, <2>5
    <3>2. /\ scl' = 1 /\ UNCHANGED <<control, regs>>
          /\ \/ phase' = "shift" /\ got' = <<>> /\ nth' = "address"
             \/ phase' = "idle"
             \/ phase' = phase
      BY <2>5, <3>1, ClockHigh
    <3>3. CASE phase' = "shift" /\ got' = <<>> /\ nth' = "address"
      <4>1. Op(t) # "getAck" BY <1>1, <1>2, <1>7, <2>3, BytePins
      <4>2. /\ l <= LastBit /\ l # LastBit + 1 /\ ~(l > LastBit + 1)
            /\ ~(l > LastBit + 2) /\ l # LastBit + 4
        BY <1>4, <1>5, <2>2
      <4>3. Misheard(t)' BY <1>1, <1>2, <2>2, <2>3, <3>2, <3>3, <4>2 DEF Misheard
      <4> QED BY <3>2, <4>1, <4>3
    <3>4. CASE phase' = "idle" BY <1>8, <2>3, <3>2, <3>4
    <3> QED BY <1>3, <3>2, <3>3, <3>4
  <2> QED BY <1>6, <2>4, <2>5
<1>12. CASE k = LastBit + 1
  <2>1. SetPins(scl, sda, "in") BY <1>1, <1>2, <1>7, <1>12, BytePins
  <2>2. dir' = "in" BY <2>1, SetPinsSets
  <2>3. phase' = "idle" /\ UNCHANGED <<control, regs>>
    <3>1. CASE scl = 0 BY <1>3, <2>1, <3>1, ClockLow
    <3>2. CASE scl = 1
      <4>1. Wire("in", sda, Pulls) = 1 BY <1>6 DEF Wire
      <4>2. SetPins(1, sda, "in") BY <2>1, <3>2
      <4> QED BY <1>3, <3>2, <4>1, <4>2, ClockHigh
    <3> QED BY <1>6, <3>1, <3>2
  <2>4. k # LastBit + 3 BY <1>4, <1>12
  <2> QED BY <1>8, <2>2, <2>3, <2>4
<1>13. CASE k = LastBit + 2
  <2>1. SetPins(1, sda, dir) BY <1>1, <1>2, <1>7, <1>13, BytePins
  <2>2. sda' = sda /\ dir' = dir BY <2>1, SetPinsSets
  <2>3. UNCHANGED <<phase, control, regs>> BY <1>3, <2>1, IdleClock
  <2>4. k # LastBit + 3 BY <1>4, <1>13
  <2> QED BY <1>3, <1>8, <1>13, <2>2, <2>3, <2>4
<1>14. CASE k = LastBit + 3
  <2>1. /\ UNCHANGED <<scl, sda, dir, phase, got, nth, control, regs>>
        /\ Op(t) = "getAck"
    BY <1>1, <1>2, <1>7, <1>14, BytePins
  <2>2. dir = "in" \/ sda = 1 BY <1>3, <1>14
  <2>3. Wire(dir, sda, Pulls) = 1 BY <1>6, <2>2 DEF Wire
  <2>4. ~Ack(t) BY <2>1, <2>3, NoAck
  <2>5. ~ack'[t] BY <1>1, <2>4
  <2>6. l # LastBit + 2 /\ l # LastBit + 3 BY <1>4, <1>7, <1>14
  <2>7. Unheard(t)' BY <1>1, <1>2, <1>3, <1>5, <2>1, <2>6 DEF Unheard
  <2> QED BY <2>1, <2>5, <2>7
<1>15. k # LastBit + 4 BY <1>4
<1> QED BY <1>4, <1>5, <1>9, <1>10, <1>11, <1>12, <1>13, <1>14, <1>15, BitPlaces

LEMMA MisheardKept ==
    ASSUME BusTyped, NEW t \in Tasks, InCall(t), Misheard(t)
    PROVE  /\ Misheard(t)' /\ UNCHANGED <<control, regs>>
           /\ Op(t) = "getAck" => ~ack'[t]
<1> DEFINE k == step[t]
           l == k + 1
<1>1. /\ InTransfer(t) /\ Pin(t) /\ ~LastPin(t) /\ stage'[t] = stage[t] /\ step'[t] = l
      /\ ack'[t] = Ack(t)
  BY InCallIs
<1>2. stage[t] \in ByteStages /\ phase = "shift" /\ nth = "address" /\ k >= 4
  BY DEF Misheard
<1>3. /\ k <= LastBit =>
          \/ BitHigh(k) /\ scl = 1 /\ got = <<>>
          \/ Len(got) < Sampled(k) /\ scl = IF Clocked(k) THEN 1 ELSE 0
      /\ k = LastBit + 1 \/ k = LastBit + 2 => scl = 0 /\ Len(got) < Bits
      /\ k > LastBit + 1 => dir = "in"
      /\ k > LastBit + 2 => scl = 1 /\ (Len(got) = Bits => got[Bits] = 1)
  BY DEF Misheard
<1>4. k \in Nat /\ k >= 1 /\ k <= LastBit + 3 /\ LastBit \in Nat /\ LastBit >= 5
  BY <1>1, <1>2, Places, FirstStep DEF BusTyped, ByteStages
<1>5. l \in Nat /\ l >= 4 /\ l >= 1 /\ l <= LastBit + 4 /\ k <= LastBit + 4 BY <1>2, <1>4
<1>6. /\ got \in Seq({0, 1}) /\ Len(got) \in Nat /\ sda \in {0, 1} /\ stronger \in {0, 1}
      /\ Bits \in Nat /\ Bits > 0
  BY TypesHave, BusConsts DEF CodecType, PinType
<1>7. k = step[t] /\ l = k + 1 OBVIOUS
<1> HIDE DEF k, l
<1>8. SUFFICES /\ phase' = "shift" /\ UNCHANGED <<nth, control, regs>>
               /\ l <= LastBit =>
                   \/ BitHigh(l) /\ scl' = 1 /\ got' = <<>>
                   \/ Len(got') < Sampled(l) /\ scl' = IF Clocked(l) THEN 1 ELSE 0
               /\ l = LastBit + 1 \/ l = LastBit + 2 => scl' = 0 /\ Len(got') < Bits
               /\ l > LastBit + 1 => dir' = "in"
               /\ l > LastBit + 2 => scl' = 1 /\ (Len(got') = Bits => got'[Bits] = 1)
               /\ k = LastBit + 3 => ~ack'[t]
  <2>1. l = LastBit + 4 <=> k = LastBit + 3 BY <1>4, <1>7
  <2>2. Op(t) = "getAck" => k = LastBit + 3 BY <1>1, <1>2, <1>7, BytePins
  <2> QED BY <1>1, <1>2, <1>5, <2>1, <2>2 DEF Misheard
<1>9. CASE BitLow(k) \/ BitData(k)
  <2>1. /\ l <= LastBit /\ k <= LastBit /\ Sampled(l) = Sampled(k)
        /\ BitData(l) \/ BitHigh(l)
    BY <1>4, <1>5, <1>7, <1>9, BitPlaces
  <2>2. ~Clocked(k) /\ ~BitHigh(k) /\ ~Clocked(l)
    BY <1>4, <1>5, <1>9, <2>1, ClockedPlaces
  <2>3. Len(got) < Sampled(k) /\ scl = 0 BY <1>3, <2>1, <2>2
  <2>4. \E v, d : SetPins(0, v, d) BY <1>1, <1>2, <1>7, <1>9, <2>3, BytePins
  <2>5. scl' = 0 /\ UNCHANGED <<phase, got, nth, control, regs>>
    BY <2>3, <2>4, ClockLow
  <2>6. ~(l > LastBit + 1) /\ ~(l > LastBit + 2) /\ l # LastBit + 1 /\ l # LastBit + 2
        /\ k # LastBit + 3
    BY <1>4, <1>5, <2>1
  <2> QED BY <1>2, <2>1, <2>2, <2>3, <2>5, <2>6
<1>10. CASE BitHigh(k)
  <2>1. /\ l <= LastBit /\ k <= LastBit /\ Sampled(l) = Sampled(k) + 1
        /\ Sampled(k) \in Nat /\ Sampled(k) < Bits
        /\ BitEnd(l) \/ l = LastBit
    BY <1>4, <1>5, <1>7, <1>10, BitPlaces
  <2>2. ~Clocked(k) /\ Clocked(l) BY <1>4, <1>5, <1>10, <2>1, ClockedPlaces
  <2>3. SetPins(1, sda, dir) BY <1>1, <1>2, <1>7, <1>10, BytePins
  <2>4. ~(l > LastBit + 1) /\ ~(l > LastBit + 2) /\ l # LastBit + 1 /\ l # LastBit + 2
        /\ k # LastBit + 3
    BY <1>4, <1>5, <2>1
  <2>5. CASE scl = 1 /\ got = <<>>
    <3>1. scl' = 1 /\ UNCHANGED <<phase, got, nth, control, regs>>
      <4>1. /\ scl' = 1
            /\ \/ /\ Wire(dir, sda, Pulls) = 1 /\ Wire(dir, sda, Pulls) = 0
               \/ /\ Wire(dir, sda, Pulls) = 0 /\ Wire(dir, sda, Pulls) = 1
               \/ UNCHANGED <<phase, got, nth, control, regs>>
        BY <2>3, <2>5, ClockHigh
      <4> QED BY <4>1
    <3>2. Len(got') < Sampled(l) BY <1>6, <2>1, <2>5, <3>1, EmptySeq
    <3> QED BY <1>2, <2>2, <2>4, <3>1, <3>2
  <2>6. CASE Len(got) < Sampled(k) /\ scl = 0
    <3> DEFINE x == Wire(dir, sda, FALSE)
    <3>1. Len(got) < Bits BY <1>6, <2>1, <2>6
    <3>2. scl' = 1 /\ UNCHANGED <<phase, nth, control, regs>> /\ got' = Append(got, x)
      BY <1>2, <1>6, <2>3, <2>6, <3>1, ClockRises
    <3>3. x \in {0, 1} BY <1>6, WireType
    <3> HIDE DEF x
    <3>4. Len(got') = Len(got) + 1 BY <1>6, <3>2, <3>3, AppendProperties
    <3>5. Len(got') < Sampled(l) BY <1>6, <2>1, <2>6, <3>4
    <3> QED BY <1>2, <2>2, <2>4, <3>2, <3>5
  <2> QED BY <1>3, <2>1, <2>2, <2>5, <2>6
<1>11. CASE BitEnd(k) \/ k = LastBit
  <2>1. /\ k <= LastBit /\ Sampled(k) \in Nat /\ Sampled(k) <= Bits
        /\ BitEnd(k) => BitLow(l) /\ l <= LastBit /\ Sampled(l) = Sampled(k)
    <3>1. CASE BitEnd(k)
      <4>1. /\ k < LastBit /\ k + 1 <= LastBit /\ BitLow(k + 1)
            /\ Sampled(k + 1) = Sampled(k) /\ Sampled(k) < Bits
        BY <1>4, <1>5, <3>1, BitPlaces
      <4>2. k <= LastBit BY <1>4, <4>1
      <4>3. Sampled(k) \in Nat BY <1>4, <1>5, <4>2, BitPlaces
      <4>4. Sampled(k) <= Bits BY <1>6, <4>1, <4>3
      <4> QED BY <1>7, <4>1, <4>2, <4>3, <4>4
    <3>2. CASE k = LastBit
      <4>1. k <= LastBit /\ Sampled(k) = Bits /\ ~BitEnd(k)
        BY <1>4, <1>5, <3>2, BitPlaces
      <4> QED BY <1>6, <4>1
    <3> QED BY <1>11, <3>1, <3>2
  <2>2. Clocked(k) /\ ~BitHigh(k) /\ (BitLow(l) => ~Clocked(l))
    BY <1>4, <1>5, <1>11, ClockedPlaces
  <2>3. Len(got) < Sampled(k) /\ scl = 1 BY <1>3, <2>1, <2>2
  <2>4. Len(got) < Bits BY <1>6, <2>1, <2>3
  <2>5. SetPins(0, sda, dir) BY <1>1, <1>2, <1>7, <1>11, BytePins
  <2>6. scl' = 0 /\ UNCHANGED <<phase, got, nth, control, regs>>
    BY <1>2, <1>6, <2>3, <2>4, <2>5, ClockFalls DEF CodecByte, CodecAckEnds
  <2>7. ~(l > LastBit + 1) /\ ~(l > LastBit + 2) /\ l # LastBit + 2 /\ k # LastBit + 3
    BY <1>4, <1>7, <2>1
  <2>8. k = LastBit => ~(l <= LastBit) BY <1>4, <1>7
  <2> QED BY <1>2, <1>11, <2>1, <2>2, <2>3, <2>4, <2>6, <2>7, <2>8
<1>12. CASE k = LastBit + 1
  <2>1. scl = 0 /\ Len(got) < Bits /\ SetPins(0, sda, "in")
    BY <1>1, <1>2, <1>3, <1>7, <1>12, BytePins
  <2>2. scl' = 0 /\ dir' = "in" /\ UNCHANGED <<phase, got, nth, control, regs>>
    BY <2>1, ClockLow
  <2>3. ~(l <= LastBit) /\ ~(l > LastBit + 2) /\ k # LastBit + 3
    BY <1>4, <1>7, <1>12
  <2> QED BY <1>2, <2>1, <2>2, <2>3
<1>13. CASE k = LastBit + 2
  <2>1. scl = 0 /\ dir = "in" BY <1>3, <1>4, <1>13
  <2>2. /\ scl' = 1 /\ dir' = "in" /\ UNCHANGED <<phase, nth, control, regs>>
        /\ got' = Append(got, 1)
    <3>1. Len(got) < Bits BY <1>3, <1>13
    <3>2. Wire(dir, sda, FALSE) = 1 BY <2>1 DEF Wire
    <3>3. SetPins(1, sda, dir) BY <1>1, <1>2, <1>7, <1>13, BytePins
    <3>4. scl = 0 /\ Len(got) \in Nat /\ phase = "shift" BY <1>2, <1>6, <2>1
    <3>5. scl' = 1 /\ dir' = dir BY <3>3, SetPinsSets
    <3>6. UNCHANGED <<phase, nth, control, regs>> BY <3>3, <3>4, ClockRises
    <3>7. got' = Append(got, Wire(dir, sda, FALSE))
      BY <3>1, <3>3, <3>4, ClockRises
    <3> QED BY <2>1, <3>2, <3>5, <3>6, <3>7
  <2>3. ~(l <= LastBit) /\ l # LastBit + 1 /\ l # LastBit + 2 /\ k # LastBit + 3
    BY <1>4, <1>7, <1>13
  <2>4. Len(got') = Len(got) + 1 /\ got'[Len(got) + 1] = 1
    BY <1>6, <2>2, AppendProperties
  <2>5. Len(got') = Bits => got'[Bits] = 1
    <3> SUFFICES ASSUME Len(got') = Bits PROVE got'[Bits] = 1 OBVIOUS
    <3>1. Len(got) + 1 = Bits BY <2>4
    <3> QED BY <2>4, <3>1
  <2> QED BY <1>2, <2>2, <2>3, <2>5
<1>14. CASE k = LastBit + 3
  <2>1. /\ UNCHANGED <<scl, sda, dir, phase, got, nth, control, regs>>
        /\ Op(t) = "getAck"
    BY <1>1, <1>2, <1>7, <1>14, BytePins
  <2>2. dir = "in" /\ scl = 1 /\ (Len(got) = Bits => got[Bits] = 1)
    BY <1>3, <1>4, <1>14
  <2>3. Wire(dir, sda, Pulls) = 1 BY <1>2, <2>2, WireNow
  <2>4. ~Ack(t) BY <2>1, <2>3, NoAck
  <2>5. ~ack'[t] BY <1>1, <2>4
  <2>6. ~(l <= LastBit) /\ l # LastBit + 1 /\ l # LastBit + 2
    BY <1>4, <1>7, <1>14
  <2> QED BY <1>2, <2>1, <2>2, <2>5, <2>6
<1>15. k # LastBit + 4 BY <1>4
<1>16. k # 1 BY <1>2, <1>4
<1> QED BY <1>4, <1>5, <1>9, <1>10, <1>11, <1>12, <1>13, <1>14, <1>15, <1>16, BitPlaces

LEMMA StoppingKept ==
    ASSUME BusTyped, NEW t \in Tasks, InCall(t), Stopping(t)
    PROVE  Stopping(t)' /\ UNCHANGED <<control, regs>>
<1>1. /\ InTransfer(t) /\ Pin(t) /\ ~LastPin(t) /\ stage'[t] = stage[t]
      /\ step'[t] = step[t] + 1 /\ ack'[t] = Ack(t) /\ stage[t] = "stop"
  BY InCallIs DEF Stopping
<1>2. ack'[t] = ack[t] BY <1>1, StopPin, AckIs
<1>3. step[t] \in {1, 2, 3} BY <1>1, StopPin, Places DEF BusTyped, ByteStages
<1>4. /\ scl \in {0, 1} /\ sda \in {0, 1} /\ dir \in {"in", "out"}
      /\ phase \in {"idle", "shift", "ack"} /\ Len(got) \in Nat
  BY TypesHave DEF PinType, CodecType
<1>5. CASE step[t] = 1
  <2>1. SetPins(scl, sda, "out") BY <1>1, <1>5, StopPin
  <2>2. scl' = scl /\ sda' = sda /\ dir' = "out" BY <2>1, SetPinsSets
  <2>3. UNCHANGED <<phase, nth, control, regs>>
    <3>1. CASE scl = 0 BY <2>1, <3>1, ClockLow
    <3>2. CASE scl = 1
      <4>1. dir = "out" /\ phase = "idle" BY <1>5, <3>2 DEF Stopping
      <4>2. SetPins(scl, sda, dir) BY <2>1, <4>1
      <4> QED BY <1>4, <4>1, <4>2, IdleClock
    <3> QED BY <1>4, <3>1, <3>2
  <2> QED BY <1>1, <1>2, <1>5, <2>2, <2>3 DEF Stopping
<1>6. CASE step[t] = 2
  <2>1. SetPins(scl, 0, dir) BY <1>1, <1>6, StopPin
  <2>2. scl' = scl /\ sda' = 0 /\ dir' = dir BY <2>1, SetPinsSets
  <2>3. dir = "out" BY <1>6 DEF Stopping
  <2>4. CASE scl = 0
    <3>1. UNCHANGED <<phase, nth, control, regs>> BY <2>1, <2>4, ClockLow
    <3> QED BY <1>1, <1>2, <1>6, <2>2, <2>3, <3>1 DEF Stopping
  <2>5. CASE scl = 1
    <3>1. sda = 1 /\ phase = "idle" BY <1>6, <2>5 DEF Stopping
    <3>2. SetPins(1, 0, dir) BY <2>1, <2>5
    <3>3. Wire(dir, 0, Pulls) = 0 /\ Wire(dir, sda, Pulls) = 1
      BY <1>4, <2>3, <3>1, WireIs, WireNow DEF Wire
    <3>4. phase' = "shift" /\ nth' = "address" /\ UNCHANGED <<control, regs>>
      BY <2>5, <3>2, <3>3, ClockHigh
    <3> QED BY <1>1, <1>6, <2>2, <2>3, <3>4 DEF Stopping
  <2> QED BY <1>4, <2>4, <2>5
<1>7. CASE step[t] = 3
  <2>1. SetPins(1, sda, dir) BY <1>1, <1>7, StopPin
  <2>2. scl' = 1 /\ sda' = sda /\ dir' = dir BY <2>1, SetPinsSets
  <2>3. dir = "out" BY <1>7 DEF Stopping
  <2>4. UNCHANGED <<phase, nth, control, regs>>
    <3>1. CASE scl = 0 BY <1>4, <2>1, <3>1, ClockRises
    <3>2. CASE scl = 1
      <4>1. \/ /\ Wire(dir, sda, Pulls) = 1 /\ Wire(dir, sda, Pulls) = 0
            \/ /\ Wire(dir, sda, Pulls) = 0 /\ Wire(dir, sda, Pulls) = 1
            \/ UNCHANGED <<phase, got, nth, control, regs>>
        BY <2>1, <3>2, ClockHigh
      <4> QED BY <4>1
    <3> QED BY <1>4, <3>1, <3>2
  <2> QED BY <1>1, <1>2, <1>7, <2>2, <2>3, <2>4 DEF Stopping
<1> QED BY <1>3, <1>5, <1>6, <1>7

LEMMA CutKept ==
    ASSUME BusTyped, NEW t \in Tasks, InCall(t), Cut(t)
    PROVE  /\ Cut(t)' /\ UNCHANGED <<control, regs>>
           /\ Op(t) = "getAck" => ~ack'[t]
<1>1. CASE Unheard(t) BY <1>1, UnheardKept DEF Cut
<1>2. CASE Misheard(t) BY <1>2, MisheardKept DEF Cut
<1>3. CASE Stopping(t)
  <2>1. InTransfer(t) /\ Pin(t) /\ stage[t] = "stop"
    BY <1>3, InCallIs DEF Stopping
  <2>2. Op(t) # "getAck" BY <2>1, StopPin
  <2> QED BY <1>3, <2>2, StoppingKept DEF Cut
<1> QED BY <1>1, <1>2, <1>3 DEF Cut

LEMMA CutEnds ==
    ASSUME BusTyped, NEW t \in Tasks, EndOfCall(t), Cut(t), stage[t] # "stop"
    PROVE  Cut(t)' /\ UNCHANGED <<control, regs>>
<1>1. /\ InTransfer(t) /\ Pin(t) /\ LastPin(t) /\ step'[t] = 1
      /\ stage'[t] = NextStage(t) /\ ack' = ack
  BY EndIs
<1>2. scl' = 0 BY WiresNext
<1>3. LastBit \in Nat /\ LastBit >= 5 BY FirstStep
<1>4. stage[t] = "start" \/ stage[t] \in ByteStages BY <1>1, Places DEF BusTyped
<1>5. SetPins(0, sda, dir)
  <2>1. CASE stage[t] = "start"
    <3>1. step[t] = 5 BY <1>1, <2>1, Places DEF BusTyped, ByteStages
    <3> QED BY <1>1, <2>1, <3>1, StartPin
  <2>2. CASE stage[t] \in ByteStages
    <3>1. step[t] = LastBit + 4 BY <1>1, <2>2, Places DEF BusTyped, ByteStages
    <3> QED BY <1>1, <2>2, <3>1, BytePins
  <2> QED BY <1>4, <2>1, <2>2
<1>6. stage'[t] \in ByteStages \/ stage'[t] = "stop"
  BY <1>1, <1>4, NextStageIs DEF ByteStages
<1>7. CASE Unheard(t)
  <2>1. UNCHANGED <<phase, got, nth, control, regs>> /\ phase = "idle"
    BY <1>5, <1>7, IdleClock DEF Unheard
  <2>2. 1 # LastBit + 2 /\ 1 # LastBit + 3 BY <1>3
  <2>3. CASE stage'[t] \in ByteStages
    BY <1>1, <1>2, <2>1, <2>2, <2>3 DEF Unheard, Cut
  <2>4. CASE stage'[t] = "stop"
    BY <1>1, <1>2, <2>1, <2>4 DEF Stopping, Cut
  <2> QED BY <1>6, <2>1, <2>3, <2>4
<1>8. CASE Misheard(t)
  <2>1. stage[t] \in ByteStages /\ phase = "shift" /\ nth = "address" BY <1>8 DEF Misheard
  <2>2. step[t] = LastBit + 4 BY <1>1, <2>1, Places DEF BusTyped, ByteStages
  <2>3. scl = 1 /\ ~ack[t] /\ (Len(got) = Bits => got[Bits] = 1)
    BY <1>3, <1>8, <2>2 DEF Misheard
  <2>4. stage'[t] = "stop" BY <1>1, <2>1, <2>3, NextStageIs DEF ByteStages
  <2>5. nth' = "address" /\ phase' # "ack" /\ UNCHANGED <<control, regs>>
    <3>1. Len(got) = Bits => got # Device BY <2>3, BusConsts
    <3> QED BY <1>5, <2>1, <2>3, <3>1, ClockFalls DEF CodecByte, CodecAckEnds
  <2>6. Stopping(t)' BY <1>1, <1>2, <2>3, <2>4, <2>5 DEF Stopping
  <2> QED BY <2>5, <2>6 DEF Cut
<1>9. ~Stopping(t) BY DEF Stopping
<1> QED BY <1>7, <1>8, <1>9 DEF Cut

-----------------------------------------------------------------------------
(* The task that has the processor is in step with the codec, or has been   *)
(* broken off                                                               *)

Aligned(t) ==
    Wires(t) /\ (Entering(t) \/ Begun(t) \/ Astray(t))

Follows(t) == Aligned(t) \/ Cut(t)

LEMMA AlignedKept ==
    ASSUME BusTyped, Clean, NEW t \in Tasks, InCall(t), Aligned(t)
    PROVE  Aligned(t)'
<1>1. Wires(t)' BY WiresKept DEF Aligned
<1>2. CASE Entering(t)
  <2>1. \/ Entering(t)' \/ StartSent(t)'
        \/ stage'[t] = "start" /\ step'[t] = 5 /\ phase' = "ack"
    BY <1>2, EnteringKept DEF Aligned
  <2> QED BY <1>1, <2>1 DEF Aligned, Begun, Astray, OverruledStart
<1>3. CASE Begun(t) BY <1>1, <1>3, BegunKept DEF Aligned
<1>4. CASE Astray(t)
  <2>1. ~OverruledStart(t)
    <3>1. InTransfer(t) /\ ~LastPin(t) BY InCallIs
    <3> QED BY <3>1, Places DEF BusTyped, ByteStages, OverruledStart
  <2>2. CASE Slipped(t) BY <1>1, <1>4, <2>2, SlippedKept DEF Aligned, Astray
  <2>3. CASE Ignored(t) BY <1>1, <1>4, <2>3, IgnoredKept DEF Aligned, Astray
  <2>4. CASE Failed(t) BY <1>1, <1>4, <2>4, FailedKept DEF Aligned, Astray
  <2> QED BY <1>4, <2>1, <2>2, <2>3, <2>4 DEF Astray
<1> QED BY <1>2, <1>3, <1>4 DEF Aligned

LEMMA AlignedEnds ==
    ASSUME BusTyped, Clean, NEW t \in Tasks, EndOfCall(t), Aligned(t), stage[t] # "stop"
    PROVE  Aligned(t)'
<1>1. Wires(t)' BY WiresNext
<1>2. ~Entering(t)
  <2>1. InTransfer(t) /\ LastPin(t) BY EndIs
  <2> QED BY <2>1, Places DEF BusTyped, ByteStages, Entering
<1>3. CASE Begun(t) BY <1>1, <1>3, BegunEnds DEF Aligned
<1>4. CASE Astray(t)
  <2>1. CASE OverruledStart(t)
    BY <1>1, <1>4, <2>1, OverruledEnds DEF Aligned, Astray
  <2>2. CASE Slipped(t) BY <1>1, <1>4, <2>2, SlippedEnds DEF Aligned, Astray
  <2>3. CASE Ignored(t) BY <1>1, <1>4, <2>3, IgnoredEnds DEF Aligned, Astray
  <2>4. ~Failed(t) BY DEF Failed
  <2> QED BY <1>4, <2>1, <2>2, <2>3, <2>4 DEF Astray
<1> QED BY <1>2, <1>3, <1>4 DEF Aligned

LEMMA AlignedAtStop ==
    ASSUME NEW t, Aligned(t), stage[t] = "stop"
    PROVE  /\ phase = "idle"
           /\ Sent(t) \/ ~ack[t]
BY DEF Aligned, Entering, Begun, StartSent, InByte, Sent, Astray, OverruledStart,
       Slipped, Ignored, Failed, ByteStages

\* A transfer that was in step leaves the wires and the codec at rest.
LEMMA AlignedDone ==
    ASSUME BusTyped, NEW t \in Tasks, EndOfCall(t), Aligned(t), stage[t] = "stop"
    PROVE  Quiet'
BY AlignedAtStop, WiresDone, StopDone DEF Aligned, Quiet

\* The last pin of a function changes no register.
LEMMA EndKeepsRegs ==
    ASSUME BusTyped, Clean, NEW t \in Tasks, EndOfCall(t), Follows(t)
    PROVE  regs' = regs
<1>1. InTransfer(t) /\ Pin(t) /\ LastPin(t) BY EndIs
<1>2. CASE stage[t] = "stop"
  <2>1. step[t] = 4 BY <1>1, <1>2, Places DEF BusTyped, ByteStages
  <2>2. SetPins(scl, 1, dir) BY <1>1, <1>2, <2>1, StopPin
  <2>3. scl = 0 \/ scl = 1 BY TypesHave DEF PinType
  <2> QED BY <2>2, <2>3, NoFall
<1>3. CASE stage[t] # "stop" /\ Cut(t) BY <1>3, CutEnds
<1>4. CASE stage[t] # "stop" /\ Aligned(t)
  <2>1. ~Entering(t) BY <1>1, Places DEF BusTyped, ByteStages, Entering
  <2>2. CASE Begun(t) BY <1>4, <2>2, BegunEnds DEF Aligned
  <2>3. CASE OverruledStart(t) BY <1>4, <2>3, OverruledEnds DEF Aligned
  <2>4. CASE Ignored(t) BY <1>4, <2>4, IgnoredEnds DEF Aligned
  <2>5. CASE Slipped(t)
    <3>1. stage[t] \in ByteStages BY <2>5 DEF Slipped
    <3>2. step[t] = LastBit + 4 BY <1>1, <3>1, Places DEF BusTyped, ByteStages
    <3>3. SetPins(0, sda, dir) BY <1>1, <3>1, <3>2, BytePins
    <3>4. phase = "ack"
      <4>1. ~(LastBit + 4 <= LastBit) BY FirstStep
      <4> QED BY <2>5, <3>2, <4>1 DEF Slipped
    <3>5. scl = 1
      <4>1. Clocked(LastBit + 4) BY FirstStep, ClockedPlaces
      <4> QED BY <1>4, <3>1, <3>2, <4>1 DEF Aligned, Wires
    <3> QED BY <3>3, <3>4, <3>5, ClockFalls DEF CodecByte, CodecAckEnds
  <2>6. ~Failed(t) BY <1>4 DEF Failed
  <2> QED BY <1>4, <2>1, <2>2, <2>3, <2>4, <2>5, <2>6 DEF Aligned, Astray
<1> QED BY <1>2, <1>3, <1>4 DEF Follows

LEMMA FollowsKept ==
    ASSUME BusTyped, Clean, NEW t \in Tasks, InCall(t), Follows(t)
    PROVE  Follows(t)'
BY AlignedKept, CutKept DEF Follows

LEMMA FollowsEnds ==
    ASSUME BusTyped, Clean, NEW t \in Tasks, EndOfCall(t), Follows(t), stage[t] # "stop"
    PROVE  Follows(t)'
BY AlignedEnds, CutEnds DEF Follows


\* i2c_stop ends a transfer that was broken off, too: all the codec can have
\* heard of it is a start condition, and it is not answering.
LEMMA CutDone ==
    ASSUME BusTyped, NEW t \in Tasks, EndOfCall(t), Cut(t), stage[t] = "stop"
    PROVE  Quiet'
<1>1. InTransfer(t) /\ Pin(t) /\ LastPin(t) BY EndIs
<1>2. step[t] = 4 BY <1>1, Places DEF BusTyped, ByteStages
<1>3. Stopping(t) BY DEF Cut, Unheard, Misheard, ByteStages
<1>4. scl = 1 /\ dir = "out" /\ phase # "ack" /\ (phase # "idle" => sda = 0)
  BY <1>2, <1>3 DEF Stopping
<1>5. SetPins(1, 1, "out") BY <1>1, <1>2, <1>4, StopPin
<1>6. Wire("out", 1, Pulls) = 1 BY <1>4 DEF Wire, Pulls
<1>7. phase # "idle" => Wire(dir, sda, Pulls) = 0 BY <1>4, WireNow
<1>8. phase' = "idle" BY <1>4, <1>5, <1>6, <1>7, ClockHigh
<1> QED BY <1>5, <1>8, SetPinsSets DEF Quiet

\* Every transfer leaves the wires and the codec at rest.
LEMMA FollowsDone ==
    ASSUME BusTyped, NEW t \in Tasks, EndOfCall(t), Follows(t), stage[t] = "stop"
    PROVE  Quiet'
BY AlignedDone, CutDone DEF Follows

\* The task that was interrupted finds the wires and the codec at rest.
LEMMA QuietFollows ==
    ASSUME BusTyped, NEW t \in Tasks, InTransfer(t), Quiet',
           stage'[t] = stage[t], step'[t] = step[t]
    PROVE  Follows(t)'
<1>1. step[t] \in Nat /\ step[t] >= 1 BY Places DEF BusTyped
<1>2. CASE stage[t] = "start"
  <2>1. step[t] \in {1, 2, 3, 4, 5}
    <3>1. step[t] <= 5 BY <1>2, Places DEF BusTyped, ByteStages
    <3> QED BY <1>1, <3>1
  <2>2. "start" \notin ByteStages BY DEF ByteStages
  <2>3. CASE step[t] = 5
    BY <1>2, <2>3 DEF Follows, Cut, Unheard, Quiet
  <2>4. CASE step[t] \in {1, 2, 3, 4}
    <3>1. Wires(t)' BY <1>2, <2>2, <2>4 DEF Wires, Quiet
    <3>2. Entering(t)' BY <1>2, <2>4 DEF Entering
    <3> QED BY <3>1, <3>2 DEF Follows, Aligned
  <2> QED BY <2>1, <2>3, <2>4
<1>3. CASE stage[t] \in ByteStages
  <2>1. Unheard(t)' BY <1>3 DEF Unheard, Quiet
  <2> QED BY <2>1 DEF Follows, Cut
<1>4. CASE stage[t] = "stop"
  <2>1. Stopping(t)' BY <1>4 DEF Stopping, Quiet
  <2> QED BY <2>1 DEF Follows, Cut
<1> QED BY <1>2, <1>3, <1>4, Places DEF BusTyped

-----------------------------------------------------------------------------
(* The register the codec has been told *)

\* The next byte that is complete goes into the register control.
Loaded == \/ nth = "control" /\ phase = "ack"
          \/ nth = "data" /\ phase = "shift"

\* A pin changes no register but the one the codec has been told, and that
\* one is told by the falling clock behind the last bit of a byte.
LEMMA SetPinsMove ==
    ASSUME CodecType, NEW c, NEW v, NEW d, SetPins(c, v, d)
    PROVE  /\ regs' # regs => Loaded /\ regs' = [regs EXCEPT ![control] = got]
           /\ Loaded' => \/ Loaded /\ control' = control
                         \/ /\ nth = "control" /\ phase = "shift" /\ Len(got) = Bits
                            /\ scl = 1 /\ c = 0 /\ control' = got
<1> DEFINE w == Wire(dir, sda, Pulls)
           x == Wire(d, v, Pulls)
<1>1. \/ CodecStart(c, w, x) \/ CodecStop(c, w, x) \/ CodecSamples(c, x)
      \/ CodecByte(c) \/ CodecAckEnds(c) \/ CodecIgnores(c, w, x)
  BY DEF SetPins
<1> HIDE DEF w, x
<1>2. CASE CodecStart(c, w, x) BY <1>2 DEF CodecStart, Loaded
<1>3. CASE CodecStop(c, w, x) BY <1>3 DEF CodecStop, Loaded
<1>4. CASE CodecSamples(c, x) BY <1>4 DEF CodecSamples, Loaded
<1>5. CASE CodecByte(c) BY <1>5 DEF CodecByte, Loaded
<1>6. CASE CodecAckEnds(c) BY <1>6 DEF CodecAckEnds, Loaded, CodecType
<1>7. CASE CodecIgnores(c, w, x) BY <1>7 DEF CodecIgnores, Loaded, codecVars
<1> QED BY <1>1, <1>2, <1>3, <1>4, <1>5, <1>6, <1>7

LEMMA PinMoves ==
    ASSUME BusTyped, NEW t \in Tasks, Pin(t)
    PROVE  /\ regs' # regs => Loaded /\ regs' = [regs EXCEPT ![control] = got]
           /\ Loaded' => \/ Loaded /\ control' = control
                         \/ /\ nth = "control" /\ phase = "shift" /\ Len(got) = Bits
                            /\ scl = 1 /\ scl' = 0 /\ control' = got
<1>1. CASE UNCHANGED <<pinVars, codecVars>> BY <1>1 DEF Loaded, codecVars
<1>2. ASSUME NEW c, NEW v, NEW d, SetPins(c, v, d)
      PROVE  /\ regs' # regs => Loaded /\ regs' = [regs EXCEPT ![control] = got]
             /\ Loaded' => \/ Loaded /\ control' = control
                           \/ /\ nth = "control" /\ phase = "shift" /\ Len(got) = Bits
                              /\ scl = 1 /\ scl' = 0 /\ control' = got
  <2>1. CodecType BY TypesHave
  <2>2. scl' = c BY <1>2, SetPinsSets
  <2> QED BY <1>2, <2>1, <2>2, SetPinsMove
<1> QED BY <1>1, <1>2 DEF Pin

\* What a transfer tells the codec is the register it is for, or, when the
\* codec takes the address for it, the device.
LEMMA LoadedNow ==
    ASSUME BusTyped, NEW t \in Tasks, InTransfer(t), Pin(t), Follows(t),
           nth = "control", phase = "shift", Len(got) = Bits, scl = 1, scl' = 0
    PROVE  /\ stage[t] \in ByteStages /\ step[t] <= LastBit
           /\ got = Device \/ (stage[t] = "control" /\ got = Target(t))
<1>1. ~Cut(t) BY DEF Cut, Unheard, Misheard, Stopping
<1>2. ~(Wires(t) /\ Entering(t))
  <2> SUFFICES ASSUME Wires(t), Entering(t) PROVE FALSE OBVIOUS
  <2>1. stage[t] = "start" /\ step[t] < 5 BY DEF Entering
  <2>2. step[t] \in {1, 2, 3, 4} BY <2>1, StartPin
  <2>3. \E v, d : SetPins(1, v, d) BY <2>1, <2>2, StartPin
  <2> QED BY <2>3, SetPinsSets
<1>3. InByte(t) \/ Slipped(t)
  <2>1. ~StartSent(t) BY DEF StartSent
  <2>2. ~Sent(t) /\ ~OverruledStart(t) /\ ~Ignored(t) /\ ~Failed(t)
    BY DEF Sent, OverruledStart, Ignored, Failed
  <2> QED BY <1>1, <1>2, <2>1, <2>2 DEF Follows, Aligned, Begun, Astray
<1>4. /\ stage[t] \in ByteStages /\ step[t] <= LastBit
      /\ \A j \in 1 .. Bits : got[j] = ByteOf(t)[j]
      /\ stage[t] = "control" \/ stage[t] = "address"
  BY <1>3 DEF InByte, Slipped, Ahead
<1>5. got \in Byte
  <2>1. got \in Seq({0, 1}) BY TypesHave DEF CodecType
  <2> QED BY <2>1, GotByte
<1>6. ByteOf(t) \in Byte BY JobTypes
<1>7. got = ByteOf(t) BY <1>4, <1>5, <1>6, SameByte
<1> QED BY <1>4, <1>7 DEF ByteOf

-----------------------------------------------------------------------------
(* The invariant *)

\* t's write is acknowledged and only has to be ended.
Won(t) ==
    ack[t] /\ (stage[t] = "stop" \/ (stage[t] = "data" /\ step[t] = LastBit + 4))

IdleQuiet == Idle => Quiet

InStep == \A t \in Tasks : Running(t) => Follows(t)

AloneCopied ==
    \A t \in Tasks : Running(t) /\ alone[t] =>
        /\ Wires(t) /\ ((Entering(t) /\ phase # "ack") \/ Begun(t))
        /\ reg_file[Target(t)] = Data(t)

Rivals ==
    \A t, u \in Tasks :
        InTransfer(t) /\ InTransfer(u) /\ u < t /\ Target(u) = Target(t) => rival[t]

\* The task that told the codec a register is more urgent than any whose write
\* is acknowledged: of the two it began later.
LoadedBy ==
    Loaded => \/ control = Device
              \/ \E u \in Tasks : /\ InTransfer(u) /\ ~Won(u) /\ control = Target(u)
                                  /\ \A t \in Tasks : Won(t) => u < t

WonKept == \A t \in Tasks : Won(t) /\ ~rival[t] => regs[Target(t)] = Data(t)

BusInv ==
    /\ BusTyped /\ Clean /\ IdleQuiet /\ InStep /\ AloneCopied /\ Rivals
    /\ LoadedBy /\ WonKept /\ CopyIsTrue

LEMMA RegWriteIs ==
    ASSUME BusTyped, NEW t \in Tasks, RegWrite(t)
    PROVE  /\ ~InTransfer(t) /\ \A u \in Tasks : InTransfer(u) => t < u
           /\ stage'[t] = "start" /\ step'[t] = 1
           /\ Target(t)' \in Byte /\ Data(t)' \in Byte
           /\ reg_file' = [reg_file EXCEPT ![Target(t)'] = Data(t)']
           /\ reg_file'[Target(t)'] = Data(t)' /\ alone'[t] = Idle
           /\ \A u \in Tasks \ {t} :
                /\ stage'[u] = stage[u] /\ step'[u] = step[u] /\ ack'[u] = ack[u]
                /\ Target(u)' = Target(u) /\ Data(u)' = Data(u)
                /\ rival[u] => rival'[u]
                /\ InTransfer(u) /\ Target(u) = Target(t)' => rival'[u]
           /\ UNCHANGED <<stronger, phase, got, nth, control, regs, spoilt>>
<1>1. PICK j \in IF job[t].writes = <<>> THEN Calls[t] ELSE {job[t]} :
        /\ job' = [job EXCEPT ![t] = j]
        /\ reg_file' = [reg_file EXCEPT ![Head(j.writes).control] = Head(j.writes).data]
  BY DEF RegWrite
<1>2. /\ ~InTransfer(t) /\ \A u \in Tasks : InTransfer(u) => t < u
      /\ stage' = [stage EXCEPT ![t] = "start"] /\ step' = [step EXCEPT ![t] = 1]
      /\ ack' = [ack EXCEPT ![t] = TRUE]
      /\ UNCHANGED <<stronger, codecVars, spoilt>>
  BY DEF RegWrite
<1>3. job'[t] = j /\ \A u \in Tasks \ {t} : job'[u] = job[u]
  BY <1>1 DEF BusTyped, JobsOK
<1>4. Target(t)' = Head(j.writes).control /\ Data(t)' = Head(j.writes).data
  BY <1>3 DEF Target, Data
<1>5. stage'[t] = "start" /\ step'[t] = 1 BY <1>2 DEF BusTyped, BusTypeOK
<1>6. Target(t)' \in Byte /\ Data(t)' \in Byte
  <2>1. BusTyped' BY RegWriteTypes
  <2>2. job'[t].writes \in Seq(Write) /\ job'[t].writes # <<>>
    BY <1>5, <2>1 DEF BusTyped, BusTypeOK, JobsOK, InTransfer
  <2>3. Head(job'[t].writes) \in Write BY <2>2, EmptySeq, HeadTailProperties
  <2> QED BY <2>3 DEF Target, Data, Write
<1>7. reg_file' = [reg_file EXCEPT ![Target(t)'] = Data(t)'] BY <1>1, <1>4
<1>8. reg_file'[Target(t)'] = Data(t)' BY <1>6, <1>7 DEF BusTyped, BusTypeOK
<1>9. \A u \in Tasks \ {t} :
          /\ stage'[u] = stage[u] /\ step'[u] = step[u] /\ ack'[u] = ack[u]
          /\ Target(u)' = Target(u) /\ Data(u)' = Data(u)
  BY <1>2, <1>3 DEF BusTyped, BusTypeOK, Target, Data
<1>10. alone'[t] = Idle
  <2>1. alone' = [alone EXCEPT ![t] = Idle] BY DEF RegWrite
  <2> QED BY <2>1 DEF BusTyped, BusTypeOK
<1>11. \A u \in Tasks \ {t} :
           /\ rival[u] => rival'[u]
           /\ InTransfer(u) /\ Target(u) = Target(t)' => rival'[u]
  <2>1. rival' = [u \in Tasks |-> /\ u # t
                                  /\ \/ rival[u]
                                     \/ InTransfer(u) /\ Target(u) = Target(t)']
    BY DEF RegWrite
  <2> QED BY <2>1
<1> QED BY <1>2, <1>5, <1>6, <1>7, <1>8, <1>9, <1>10, <1>11 DEF codecVars

LEMMA OneRuns ==
    ASSUME NEW t \in Tasks, NEW u \in Tasks, Running(t), Running(u)
    PROVE  t = u
<1>1. t <= u /\ u <= t BY DEF Running
<1> QED BY <1>1, BusConsts

LEMMA RunningInCall ==
    ASSUME BusTyped, NEW t \in Tasks, InCall(t)
    PROVE  \A u \in Tasks : (InTransfer(u)' <=> InTransfer(u))
                            /\ (Running(u)' <=> Running(u)) /\ (Running(u) => u = t)
<1>1. stage' = stage /\ Running(t) BY InCallIs
<1>2. \A u \in Tasks : InTransfer(u)' <=> InTransfer(u) BY <1>1 DEF InTransfer
<1>3. \A u \in Tasks : Running(u)' <=> Running(u) BY <1>2 DEF Running
<1> QED BY <1>1, <1>2, <1>3, OneRuns

\* Who is in a transfer, and who has the processor, when a function ends.
LEMMA RunningEnd ==
    ASSUME BusTyped, NEW t \in Tasks, EndOfCall(t)
    PROVE  /\ \A u \in Tasks \ {t} : InTransfer(u)' <=> InTransfer(u)
           /\ stage[t] = "stop" <=> ~InTransfer(t)'
           /\ stage[t] = "stop" => stage'[t] = "idle"
           /\ stage[t] # "stop" => \A u \in Tasks : Running(u)' => u = t
<1>1. Running(t) /\ InTransfer(t) /\ stage'[t] = NextStage(t)
      /\ \A u \in Tasks \ {t} : stage'[u] = stage[u]
  BY EndIs
<1>2. \A u \in Tasks \ {t} : InTransfer(u)' <=> InTransfer(u) BY <1>1 DEF InTransfer
<1>3. stage[t] \in ByteStages \/ stage[t] = "start" \/ stage[t] = "stop"
  BY <1>1, Places DEF BusTyped
<1>4. stage[t] = "stop" <=> ~InTransfer(t)'
  BY <1>1, <1>3, NextStageIs DEF InTransfer, ByteStages
<1>5. ASSUME stage[t] # "stop", NEW u \in Tasks, Running(u)' PROVE u = t
  <2>1. InTransfer(t)' BY <1>4, <1>5
  <2>2. InTransfer(u)' /\ u <= t BY <1>5, <2>1 DEF Running
  <2>3. CASE u # t
    <3>1. t <= u BY <1>1, <1>2, <2>2, <2>3 DEF Running
    <3> QED BY <2>2, <3>1, BusConsts
  <2> QED BY <2>3
<1>6. stage[t] = "stop" => stage'[t] = "idle" BY <1>1, NextStageIs
<1> QED BY <1>2, <1>4, <1>5, <1>6

\* A task that begins a transfer has the processor alone.
LEMMA RunningWrite ==
    ASSUME BusTyped, NEW t \in Tasks, RegWrite(t)
    PROVE  /\ \A u \in Tasks \ {t} : InTransfer(u)' <=> InTransfer(u)
           /\ InTransfer(t)' /\ \A u \in Tasks : Running(u)' => u = t
<1>1. /\ ~InTransfer(t) /\ \A u \in Tasks : InTransfer(u) => t < u
      /\ stage'[t] = "start" /\ \A u \in Tasks \ {t} : stage'[u] = stage[u]
  BY RegWriteIs
<1>2. \A u \in Tasks \ {t} : InTransfer(u)' <=> InTransfer(u) BY <1>1 DEF InTransfer
<1>3. InTransfer(t)' BY <1>1 DEF InTransfer
<1>4. ASSUME NEW u \in Tasks, Running(u)', u # t PROVE FALSE
  <2>1. InTransfer(u)' /\ u <= t BY <1>3, <1>4 DEF Running
  <2>2. t < u BY <1>1, <1>2, <1>4, <2>1
  <2> QED BY <2>1, <2>2, BusConsts
<1> QED BY <1>2, <1>3, <1>4

\* A pin acknowledges a write when the write is in its register.
LEMMA WonComes ==
    ASSUME BusTyped, Clean, NEW t \in Tasks, InCall(t), Follows(t), ~Won(t), Won(t)'
    PROVE  regs'[Target(t)] = Data(t) /\ ~Loaded'
<1>1. /\ InTransfer(t) /\ Pin(t) /\ ~LastPin(t) /\ stage'[t] = stage[t]
      /\ step'[t] = step[t] + 1 /\ ack'[t] = Ack(t)
      /\ Target(t)' = Target(t) /\ Data(t)' = Data(t)
  BY InCallIs
<1>2. stage[t] # "stop"
  <2> SUFFICES ASSUME stage[t] = "stop" PROVE FALSE OBVIOUS
  <2>1. ack'[t] = ack[t] BY <1>1, StopPin, AckIs
  <2>2. ack'[t] BY DEF Won
  <2> QED BY <2>1, <2>2 DEF Won
<1>3. stage[t] = "data" /\ step'[t] = LastBit + 4 /\ ack'[t]
  BY <1>1, <1>2 DEF Won
<1>4. step[t] = LastBit + 3
  BY <1>1, <1>3, Places, FirstStep DEF BusTyped
<1>5. Op(t) = "getAck" BY <1>1, <1>3, <1>4, BytePins DEF ByteStages
<1>6. ~Cut(t) BY <1>3, <1>5, CutKept
<1>7. Wires(t) BY <1>6 DEF Follows, Aligned
<1>8. ~Ignored(t)
  <2> SUFFICES ASSUME Ignored(t) PROVE FALSE OBVIOUS
  <2>1. Ignored(t)' BY <1>7, IgnoredKept
  <2> QED BY <1>3, <2>1 DEF Ignored
<1>9. InByte(t)
  BY <1>3, <1>6, <1>8 DEF Follows, Aligned, Begun, Entering, StartSent, Sent, Astray,
                          OverruledStart, Slipped, Ahead, Failed
<1>10. InByte(t)' BY <1>7, <1>9, InByteKept
<1>11. LastBit + 4 > LastBit /\ ~(LastBit + 4 <= LastBit) BY FirstStep
<1>12. nth' = "data" /\ phase' = "ack" BY <1>1, <1>3, <1>10, <1>11 DEF InByte
<1> QED BY <1>1, <1>3, <1>10, <1>11, <1>12 DEF InByte, Loaded

\* No end of a function acknowledges a write.
LEMMA WonEnds ==
    ASSUME BusTyped, NEW t \in Tasks, EndOfCall(t), NEW u \in Tasks, Won(u)'
    PROVE  Won(u) /\ Target(u)' = Target(u) /\ Data(u)' = Data(u)
<1>1. /\ InTransfer(t) /\ LastPin(t) /\ ack' = ack /\ step'[t] = 1
      /\ stage'[t] = NextStage(t)
  BY EndIs
<1>2. CASE u # t BY <1>1, <1>2, EndIs DEF Won
<1>3. CASE u = t
  <2>1. ack[t] /\ stage'[t] = "stop"
    <3>1. 1 # LastBit + 4 BY FirstStep
    <3> QED BY <1>1, <1>3, <3>1 DEF Won
  <2>2. stage[t] = "data"
    BY <1>1, <2>1, Places, NextStageIs DEF BusTyped, ByteStages
  <2>3. Won(t) BY <1>1, <2>1, <2>2, Places DEF BusTyped, ByteStages, Won
  <2> QED BY <1>3, <2>2, <2>3, EndIs
<1> QED BY <1>2, <1>3

LEMMA WonInTransfer ==
    ASSUME NEW t, Won(t)
    PROVE  InTransfer(t)
BY DEF Won, InTransfer

LEMMA IdleQuietKept == BusInv /\ BusNext => IdleQuiet'
<1> SUFFICES ASSUME BusInv, BusNext PROVE IdleQuiet' OBVIOUS
<1> USE DEF BusInv
<1>1. ASSUME NEW t \in Tasks, RegWrite(t) PROVE IdleQuiet'
  BY <1>1, RunningWrite DEF IdleQuiet, Idle
<1>2. ASSUME NEW t \in Tasks, InCall(t) PROVE IdleQuiet'
  BY <1>2, InCallIs, RunningInCall DEF IdleQuiet, Idle
<1>3. ASSUME NEW t \in Tasks, EndOfCall(t) PROVE IdleQuiet'
  <2>1. CASE stage[t] = "stop"
    <3>1. Follows(t) BY <1>3, EndIs DEF InStep
    <3> QED BY <1>3, <2>1, <3>1, FollowsDone DEF IdleQuiet
  <2>2. CASE stage[t] # "stop"
    BY <1>3, <2>2, RunningEnd DEF IdleQuiet, Idle
  <2> QED BY <2>1, <2>2
<1> QED BY <1>1, <1>2, <1>3 DEF BusNext

LEMMA InStepKept == BusInv /\ BusNext => InStep'
<1> SUFFICES ASSUME BusInv, BusNext PROVE InStep' OBVIOUS
<1> USE DEF BusInv
<1>1. ASSUME NEW t \in Tasks, RegWrite(t) PROVE InStep'
  <2>1. stage'[t] = "start" /\ step'[t] = 1 BY <1>1, RegWriteIs
  <2>2. Wires(t)' /\ Entering(t)' BY <2>1 DEF Wires, Entering, ByteStages
  <2>3. Follows(t)' BY <2>2 DEF Follows, Aligned
  <2> QED BY <1>1, <2>3, RunningWrite DEF InStep
<1>2. ASSUME NEW t \in Tasks, InCall(t) PROVE InStep'
  <2>1. Follows(t) BY <1>2, InCallIs DEF InStep
  <2>2. Follows(t)' BY <1>2, <2>1, FollowsKept
  <2> QED BY <1>2, <2>2, RunningInCall DEF InStep
<1>3. ASSUME NEW t \in Tasks, EndOfCall(t) PROVE InStep'
  <2>1. Follows(t) BY <1>3, EndIs DEF InStep
  <2>2. CASE stage[t] # "stop"
    <3>1. Follows(t)' BY <1>3, <2>1, <2>2, FollowsEnds
    <3> QED BY <1>3, <2>2, <3>1, RunningEnd DEF InStep
  <2>3. CASE stage[t] = "stop"
    <3> SUFFICES ASSUME NEW u \in Tasks, Running(u)' PROVE Follows(u)'
      BY DEF InStep
    <3>1. InTransfer(u)' BY DEF Running
    <3>2. u # t /\ InTransfer(u) BY <1>3, <2>3, <3>1, RunningEnd
    <3>3. Quiet' BY <1>3, <2>1, <2>3, FollowsDone
    <3>4. stage'[u] = stage[u] /\ step'[u] = step[u] BY <1>3, <3>2, EndIs
    <3> QED BY <3>2, <3>3, <3>4, QuietFollows
  <2> QED BY <2>2, <2>3
<1> QED BY <1>1, <1>2, <1>3 DEF BusNext

LEMMA AloneCopiedKept == BusInv /\ BusNext => AloneCopied'
<1> SUFFICES ASSUME BusInv, BusNext, NEW v \in Tasks, Running(v)', alone'[v]
             PROVE  /\ Wires(v)' /\ ((Entering(v)' /\ phase' # "ack") \/ Begun(v)')
                    /\ reg_file'[Target(v)'] = Data(v)'
  BY DEF AloneCopied
<1> USE DEF BusInv
<1>1. ASSUME NEW t \in Tasks, RegWrite(t)
      PROVE  /\ Wires(v)' /\ ((Entering(v)' /\ phase' # "ack") \/ Begun(v)')
             /\ reg_file'[Target(v)'] = Data(v)'
  <2>1. v = t BY <1>1, RunningWrite
  <2>2. /\ stage'[t] = "start" /\ step'[t] = 1 /\ reg_file'[Target(t)'] = Data(t)'
        /\ alone'[t] = Idle /\ phase' = phase
    BY <1>1, RegWriteIs
  <2>3. Wires(t)' /\ Entering(t)' BY <2>2 DEF Wires, Entering, ByteStages
  <2>4. phase = "idle" BY <2>1, <2>2 DEF IdleQuiet, Quiet
  <2> QED BY <2>1, <2>2, <2>3, <2>4
<1>2. ASSUME NEW t \in Tasks, InCall(t)
      PROVE  /\ Wires(v)' /\ ((Entering(v)' /\ phase' # "ack") \/ Begun(v)')
             /\ reg_file'[Target(v)'] = Data(v)'
  <2>1. v = t /\ Running(t) BY <1>2, RunningInCall
  <2>2. alone[t] BY <1>2, <2>1, InCallIs
  <2>3. /\ Wires(t) /\ ((Entering(t) /\ phase # "ack") \/ Begun(t))
        /\ reg_file[Target(t)] = Data(t)
    BY <2>1, <2>2 DEF AloneCopied
  <2>4. Wires(t)' BY <1>2, <2>3, WiresKept
  <2>5. CASE Entering(t) /\ phase # "ack"
    <3>1. phase' # "ack" /\ (Entering(t)' \/ StartSent(t)')
      BY <1>2, <2>3, <2>5, EnteringKept
    <3> QED BY <1>2, <2>1, <2>3, <2>4, <3>1, InCallIs DEF Begun
  <2>6. CASE Begun(t)
    <3>1. Begun(t)' BY <1>2, <2>3, <2>6, BegunKept
    <3> QED BY <1>2, <2>1, <2>3, <2>4, <3>1, InCallIs
  <2> QED BY <2>3, <2>5, <2>6
<1>3. ASSUME NEW t \in Tasks, EndOfCall(t)
      PROVE  /\ Wires(v)' /\ ((Entering(v)' /\ phase' # "ack") \/ Begun(v)')
             /\ reg_file'[Target(v)'] = Data(v)'
  <2>1. CASE stage[t] = "stop"
    <3>1. InTransfer(v)' BY DEF Running
    <3>2. v # t /\ InTransfer(v) BY <1>3, <2>1, <3>1, RunningEnd
    <3> QED BY <1>3, <3>2, EndIs
  <2>2. CASE stage[t] # "stop"
    <3>1. v = t BY <1>3, <2>2, RunningEnd
    <3>2. alone[t] /\ Running(t) /\ InTransfer(t) /\ LastPin(t) BY <1>3, <3>1, EndIs
    <3>3. ~Entering(t) BY <3>2, Places DEF BusTyped, ByteStages, Entering
    <3>4. Wires(t) /\ Begun(t) /\ reg_file[Target(t)] = Data(t)
      BY <3>2, <3>3 DEF AloneCopied
    <3>5. Wires(t)' /\ Begun(t)' BY <1>3, <2>2, <3>4, WiresNext, BegunEnds
    <3> QED BY <1>3, <2>2, <3>1, <3>4, <3>5, EndIs
  <2> QED BY <2>1, <2>2
<1> QED BY <1>1, <1>2, <1>3 DEF BusNext

LEMMA RivalsKept == BusInv /\ BusNext => Rivals'
<1> SUFFICES ASSUME BusInv, BusNext, NEW t \in Tasks, NEW u \in Tasks,
                    InTransfer(t)', InTransfer(u)', u < t, Target(u)' = Target(t)'
             PROVE  rival'[t]
  BY DEF Rivals
<1> USE DEF BusInv
<1>1. ASSUME NEW v \in Tasks, RegWrite(v) PROVE rival'[t]
  <2>1. CASE v = t
    <3>1. u # t /\ ~(t < u) BY BusConsts
    <3>2. InTransfer(u) BY <1>1, <2>1, <3>1, RunningWrite
    <3> QED BY <1>1, <2>1, <3>1, <3>2, RegWriteIs
  <2>2. CASE v = u
    <3>1. t # u BY BusConsts
    <3>2. InTransfer(t) /\ Target(t)' = Target(t)
      BY <1>1, <2>2, <3>1, RunningWrite, RegWriteIs
    <3> QED BY <1>1, <2>2, <3>1, <3>2, RegWriteIs
  <2>3. CASE v # t /\ v # u
    <3>1. /\ InTransfer(t) /\ InTransfer(u)
          /\ Target(t)' = Target(t) /\ Target(u)' = Target(u)
      BY <1>1, <2>3, RunningWrite, RegWriteIs
    <3>2. rival[t] BY <3>1 DEF Rivals
    <3> QED BY <1>1, <2>3, <3>2, RegWriteIs
  <2> QED BY <2>1, <2>2, <2>3
<1>2. ASSUME NEW v \in Tasks, InCall(v) PROVE rival'[t]
  <2>1. /\ InTransfer(t) /\ InTransfer(u)
        /\ Target(t)' = Target(t) /\ Target(u)' = Target(u) /\ rival' = rival
    BY <1>2, InCallIs, RunningInCall
  <2> QED BY <2>1 DEF Rivals
<1>3. ASSUME NEW v \in Tasks, EndOfCall(v) PROVE rival'[t]
  <2>1. InTransfer(t) /\ InTransfer(u) BY <1>3, EndIs, RunningEnd
  <2>2. Target(t)' = Target(t) /\ Target(u)' = Target(u) /\ rival' = rival
    BY <1>3, EndIs, RunningEnd
  <2> QED BY <2>1, <2>2 DEF Rivals
<1> QED BY <1>1, <1>2, <1>3 DEF BusNext

LEMMA LoadedByKept == BusInv /\ BusNext => LoadedBy'
<1> SUFFICES ASSUME BusInv, BusNext, Loaded'
             PROVE  \/ control' = Device
                    \/ \E u \in Tasks : /\ InTransfer(u)' /\ ~Won(u)'
                                        /\ control' = Target(u)'
                                        /\ \A t \in Tasks : Won(t)' => u < t
  BY DEF LoadedBy
<1> USE DEF BusInv
\* The register was told before this step.
<1>1. ASSUME Loaded, control' = control,
             \A v \in Tasks : Won(v)' => Won(v),
             \A v \in Tasks : InTransfer(v) =>
                 InTransfer(v)' /\ Target(v)' = Target(v)
      PROVE  \/ control' = Device
             \/ \E u \in Tasks : /\ InTransfer(u)' /\ ~Won(u)'
                                 /\ control' = Target(u)'
                                 /\ \A t \in Tasks : Won(t)' => u < t
  <2>1. CASE control = Device BY <1>1, <2>1
  <2>2. CASE control # Device
    <3>1. PICK u \in Tasks : /\ InTransfer(u) /\ ~Won(u) /\ control = Target(u)
                             /\ \A t \in Tasks : Won(t) => u < t
      BY <1>1, <2>2 DEF LoadedBy
    <3> QED BY <1>1, <3>1
  <2> QED BY <2>1, <2>2
<1>2. ASSUME NEW t \in Tasks, RegWrite(t)
      PROVE  \/ control' = Device
             \/ \E u \in Tasks : /\ InTransfer(u)' /\ ~Won(u)'
                                 /\ control' = Target(u)'
                                 /\ \A v \in Tasks : Won(v)' => u < v
  <2>1. Loaded /\ control' = control BY <1>2, RegWriteIs DEF Loaded
  <2>2. ASSUME NEW v \in Tasks, Won(v)' PROVE Won(v)
    BY <1>2, <2>2, RegWriteIs DEF Won
  <2>3. ASSUME NEW v \in Tasks, InTransfer(v)
        PROVE  InTransfer(v)' /\ Target(v)' = Target(v)
    BY <1>2, <2>3, RegWriteIs, RunningWrite
  <2> QED BY <1>1, <2>1, <2>2, <2>3
<1>3. ASSUME NEW t \in Tasks, InCall(t)
      PROVE  \/ control' = Device
             \/ \E u \in Tasks : /\ InTransfer(u)' /\ ~Won(u)'
                                 /\ control' = Target(u)'
                                 /\ \A v \in Tasks : Won(v)' => u < v
  <2>1. /\ Running(t) /\ InTransfer(t) /\ Pin(t) /\ stage' = stage
        /\ \A v \in Tasks : Target(v)' = Target(v)
        /\ \A v \in Tasks : InTransfer(v)' <=> InTransfer(v)
    BY <1>3, InCallIs, RunningInCall
  <2>2. Follows(t) BY <2>1 DEF InStep
  <2>3. CASE Loaded /\ control' = control
    <3>1. ASSUME NEW v \in Tasks, Won(v)' PROVE Won(v)
      <4>1. CASE v = t BY <1>3, <2>2, <3>1, <4>1, WonComes
      <4>2. CASE v # t BY <1>3, <3>1, <4>2, InCallIs DEF Won
      <4> QED BY <4>1, <4>2
    <3> QED BY <1>1, <2>1, <2>3, <3>1
  <2>4. CASE /\ nth = "control" /\ phase = "shift" /\ Len(got) = Bits
             /\ scl = 1 /\ scl' = 0 /\ control' = got
    <3>1. got = Device \/ (stage[t] = "control" /\ got = Target(t))
      BY <2>1, <2>2, <2>4, LoadedNow
    <3>2. CASE got = Device BY <2>4, <3>2
    <3>3. CASE stage[t] = "control" /\ got = Target(t)
      <4>1. InTransfer(t)' /\ ~Won(t)' /\ control' = Target(t)'
        BY <2>1, <2>4, <3>3 DEF Won
      <4>2. ASSUME NEW v \in Tasks, Won(v)' PROVE t < v
        <5>1. v # t BY <4>1, <4>2
        <5>2. InTransfer(v) BY <2>1, <4>2 DEF Won, InTransfer
        <5>3. t <= v BY <2>1, <5>2 DEF Running
        <5> QED BY <5>1, <5>3, BusConsts
      <4> QED BY <4>1, <4>2
    <3> QED BY <3>1, <3>2, <3>3
  <2> QED BY <2>1, <2>3, <2>4, PinMoves
<1>4. ASSUME NEW t \in Tasks, EndOfCall(t)
      PROVE  \/ control' = Device
             \/ \E u \in Tasks : /\ InTransfer(u)' /\ ~Won(u)'
                                 /\ control' = Target(u)'
                                 /\ \A v \in Tasks : Won(v)' => u < v
  <2>1. Running(t) /\ InTransfer(t) /\ Pin(t) /\ LastPin(t) BY <1>4, EndIs
  <2>2. Follows(t) BY <2>1 DEF InStep
  <2>3. stage[t] # "stop" BY <1>4, <2>2, FollowsDone DEF Quiet, Loaded
  <2>4. CASE Loaded /\ control' = control
    <3>1. \A v \in Tasks : Won(v)' => Won(v) BY <1>4, WonEnds
    <3>2. ASSUME NEW v \in Tasks, InTransfer(v)
          PROVE  InTransfer(v)' /\ Target(v)' = Target(v)
      BY <1>4, <2>3, <3>2, EndIs, RunningEnd
    <3> QED BY <1>1, <2>4, <3>1, <3>2
  <2>5. CASE /\ nth = "control" /\ phase = "shift" /\ Len(got) = Bits
             /\ scl = 1 /\ scl' = 0 /\ control' = got
    <3>1. stage[t] \in ByteStages /\ step[t] <= LastBit
      BY <2>1, <2>2, <2>5, LoadedNow
    <3>2. step[t] = LastBit + 4 BY <2>1, <3>1, Places DEF BusTyped, ByteStages
    <3> QED BY <3>1, <3>2, FirstStep
  <2> QED BY <2>1, <2>4, <2>5, PinMoves
<1> QED BY <1>2, <1>3, <1>4 DEF BusNext

\* A register changes under a pin only if a transfer that goes on is for it,
\* one more urgent than any whose write is acknowledged.
LEMMA RegChanges ==
    ASSUME BusInv, NEW t \in Tasks, InCall(t), NEW b \in Byte \ {Device},
           regs'[b] # regs[b]
    PROVE  \E u \in Tasks : /\ InTransfer(u) /\ Target(u) = b
                            /\ \A v \in Tasks : Won(v) => u < v
<1> USE DEF BusInv
<1>1. Pin(t) BY InCallIs
<1>2. Loaded /\ regs' = [regs EXCEPT ![control] = got] BY <1>1, PinMoves
<1>3. control = b BY <1>2 DEF BusTyped, BusTypeOK
<1> QED BY <1>2, <1>3 DEF LoadedBy

LEMMA WonKeptKept == BusInv /\ BusNext => WonKept'
<1> SUFFICES ASSUME BusInv, BusNext, NEW t \in Tasks, Won(t)', ~rival'[t]
             PROVE  regs'[Target(t)'] = Data(t)'
  BY DEF WonKept
<1> USE DEF BusInv
<1>1. ASSUME NEW v \in Tasks, RegWrite(v) PROVE regs'[Target(t)'] = Data(t)'
  <2>1. v # t BY <1>1, RegWriteIs DEF Won
  <2>2. Won(t) /\ ~rival[t] BY <1>1, <2>1, RegWriteIs DEF Won
  <2>3. regs[Target(t)] = Data(t) BY <2>2 DEF WonKept
  <2> QED BY <1>1, <2>1, <2>3, RegWriteIs
<1>2. ASSUME NEW v \in Tasks, InCall(v) PROVE regs'[Target(t)'] = Data(t)'
  <2>1. /\ Running(v) /\ rival' = rival /\ Target(t)' = Target(t) /\ Data(t)' = Data(t)
    BY <1>2, InCallIs
  <2>2. CASE Won(t)
    <3>1. InTransfer(t) BY <2>2, WonInTransfer
    <3>2. Target(t) \in Byte \ {Device} BY <3>1, JobTypes
    <3>3. regs[Target(t)] = Data(t) BY <2>1, <2>2 DEF WonKept
    <3>4. regs'[Target(t)] = regs[Target(t)]
      <4> SUFFICES ASSUME regs'[Target(t)] # regs[Target(t)] PROVE FALSE OBVIOUS
      <4>1. PICK u \in Tasks : InTransfer(u) /\ Target(u) = Target(t) /\ u < t
        BY <1>2, <2>2, <3>2, RegChanges
      <4> QED BY <2>1, <3>1, <4>1 DEF Rivals
    <3> QED BY <2>1, <3>3, <3>4
  <2>3. CASE ~Won(t)
    <3>1. v = t BY <1>2, <2>3, InCallIs DEF Won
    <3>2. Follows(t) BY <2>1, <3>1 DEF InStep
    <3> QED BY <1>2, <2>1, <2>3, <3>1, <3>2, WonComes
  <2> QED BY <2>2, <2>3
<1>3. ASSUME NEW v \in Tasks, EndOfCall(v) PROVE regs'[Target(t)'] = Data(t)'
  <2>1. Won(t) /\ Target(t)' = Target(t) /\ Data(t)' = Data(t) BY <1>3, WonEnds
  <2>2. Running(v) /\ rival' = rival BY <1>3, EndIs
  <2>3. regs' = regs BY <1>3, <2>2, EndKeepsRegs DEF InStep
  <2> QED BY <2>1, <2>2, <2>3 DEF WonKept
<1> QED BY <1>1, <1>2, <1>3 DEF BusNext

LEMMA CopyKept == BusInv /\ BusNext => CopyIsTrue'
<1> SUFFICES ASSUME BusInv, BusNext, NEW b \in Byte \ (spoilt' \cup {Device}),
                    \A t \in Tasks : InTransfer(t)' => Target(t)' # b
             PROVE  regs'[b] = reg_file'[b]
  BY DEF CopyIsTrue
<1> USE DEF BusInv
<1>1. ASSUME NEW t \in Tasks, RegWrite(t) PROVE regs'[b] = reg_file'[b]
  <2>1. /\ b \notin spoilt /\ regs' = regs
        /\ reg_file' = [reg_file EXCEPT ![Target(t)'] = Data(t)']
        /\ \A u \in Tasks \ {t} : Target(u)' = Target(u)
    BY <1>1, RegWriteIs
  <2>2. b # Target(t)' BY <1>1, RunningWrite
  <2>3. \A u \in Tasks : InTransfer(u) => Target(u) # b
    BY <1>1, <2>1, RegWriteIs, RunningWrite
  <2>4. regs[b] = reg_file[b] BY <2>1, <2>3 DEF CopyIsTrue
  <2>5. reg_file'[b] = reg_file[b] BY <2>1, <2>2 DEF BusTyped, BusTypeOK
  <2> QED BY <2>1, <2>4, <2>5
<1>2. ASSUME NEW t \in Tasks, InCall(t) PROVE regs'[b] = reg_file'[b]
  <2>1. /\ spoilt' = spoilt /\ reg_file' = reg_file
        /\ \A u \in Tasks : Target(u)' = Target(u)
    BY <1>2, InCallIs
  <2>2. \A u \in Tasks : InTransfer(u) => Target(u) # b
    BY <1>2, <2>1, RunningInCall
  <2>3. regs[b] = reg_file[b] BY <2>1, <2>2 DEF CopyIsTrue
  <2>4. regs'[b] = regs[b] BY <1>2, <2>2, RegChanges
  <2> QED BY <2>1, <2>3, <2>4
<1>3. ASSUME NEW t \in Tasks, EndOfCall(t) PROVE regs'[b] = reg_file'[b]
  <2>1. reg_file' = reg_file /\ Running(t) /\ InTransfer(t)
    BY <1>3, EndIs
  <2>2. regs' = regs BY <1>3, <2>1, EndKeepsRegs DEF InStep
  <2>3. \A u \in Tasks \ {t} : InTransfer(u) => Target(u) # b
    BY <1>3, EndIs, RunningEnd
  <2>4. CASE stage[t] # "stop"
    <3>1. Target(t) # b /\ spoilt' = spoilt BY <1>3, <2>4, EndIs, RunningEnd
    <3>2. regs[b] = reg_file[b] BY <2>3, <3>1 DEF CopyIsTrue
    <3> QED BY <2>1, <2>2, <3>2
  <2>5. CASE stage[t] = "stop"
    <3>1. spoilt' = IF alone[t] THEN spoilt \ {Target(t)} ELSE spoilt \cup {Target(t)}
      BY <1>3, <2>5, EndIs
    <3>2. CASE b # Target(t)
      <4>1. b \notin spoilt BY <3>1, <3>2
      <4>2. regs[b] = reg_file[b] BY <2>3, <3>2, <4>1 DEF CopyIsTrue
      <4> QED BY <2>1, <2>2, <4>2
    <3>3. CASE b = Target(t)
      <4>1. alone[t] BY <3>1, <3>3
      <4>2. Begun(t) /\ reg_file[b] = Data(t)
        BY <2>1, <2>5, <3>3, <4>1 DEF AloneCopied, Entering
      <4>3. Sent(t) BY <2>5, <4>2 DEF Begun, StartSent, InByte, ByteStages
      <4>4. regs[b] = Data(t) BY <3>3, <4>3 DEF Sent
      <4> QED BY <2>1, <2>2, <4>2, <4>4
    <3> QED BY <3>2, <3>3
  <2> QED BY <2>4, <2>5
<1> QED BY <1>1, <1>2, <1>3 DEF BusNext

LEMMA BusInvInit == BusInit => BusInv
<1> SUFFICES ASSUME BusInit PROVE BusInv OBVIOUS
<1>1. BusTyped BY BusInitTypes
<1>2. \A t \in Tasks : stage[t] = "idle" BY DEF BusInit
<1>3. \A t \in Tasks : ~InTransfer(t) /\ ~Running(t) /\ ~Won(t)
  BY <1>2 DEF InTransfer, Running, Won
<1>4. Clean /\ IdleQuiet BY DEF BusInit, Clean, IdleQuiet, Quiet
<1>5. ~Loaded BY DEF BusInit, Loaded
<1>6. CopyIsTrue BY DEF BusInit, CopyIsTrue
<1> QED BY <1>1, <1>3, <1>4, <1>5, <1>6
        DEF BusInv, InStep, AloneCopied, Rivals, LoadedBy, WonKept

LEMMA BusInvKept == BusInv /\ [BusNext]_busVars => BusInv'
<1> SUFFICES ASSUME BusInv, [BusNext]_busVars PROVE BusInv' OBVIOUS
<1>1. CASE UNCHANGED busVars
  <2>1. UNCHANGED <<scl, sda, dir, stronger, stage, step, ack, job, reg_file, phase,
                    got, nth, control, regs, alone, rival, spoilt>>
    BY <1>1 DEF busVars, pinVars, taskVars, codecVars, observers
  <2>2. \A t \in Tasks :
            /\ InTransfer(t)' = InTransfer(t) /\ Running(t)' = Running(t)
            /\ Target(t)' = Target(t) /\ Data(t)' = Data(t) /\ ByteOf(t)' = ByteOf(t)
    BY <2>1 DEF InTransfer, Running, Target, Data, ByteOf
  <2>3. \A t \in Tasks : Wires(t)' = Wires(t) /\ Entering(t)' = Entering(t)
    BY <2>1, <2>2 DEF Wires, Entering
  <2>4. \A t \in Tasks : Begun(t)' = Begun(t)
    BY <2>1, <2>2 DEF Begun, StartSent, InByte, Sent
  <2>5. \A t \in Tasks : Astray(t)' = Astray(t)
    BY <2>1, <2>2 DEF Astray, OverruledStart, Slipped, Ahead, Ignored, Failed
  <2>6. \A t \in Tasks : Cut(t)' = Cut(t)
    BY <2>1 DEF Cut, Unheard, Misheard, Stopping
  <2>7. \A t \in Tasks : Follows(t)' = Follows(t)
    BY <2>3, <2>4, <2>5, <2>6 DEF Aligned, Follows
  <2>8. Loaded' = Loaded /\ \A t \in Tasks : Won(t)' = Won(t)
    BY <2>1 DEF Loaded, Won
  <2>9. BusTyped' BY <2>1, <2>2 DEF BusInv, BusTyped, BusTypeOK, JobsOK
  <2>10. Clean' BY <2>1 DEF BusInv, Clean
  <2>11. IdleQuiet' BY <2>1, <2>2 DEF BusInv, IdleQuiet, Idle, Quiet
  <2>12. InStep' BY <2>2, <2>7 DEF BusInv, InStep
  <2>13. AloneCopied' BY <2>1, <2>2, <2>3, <2>4 DEF BusInv, AloneCopied
  <2>14. Rivals' BY <2>1, <2>2 DEF BusInv, Rivals
  <2>15. LoadedBy' BY <2>1, <2>2, <2>8 DEF BusInv, LoadedBy
  <2>16. WonKept' BY <2>1, <2>2, <2>8 DEF BusInv, WonKept
  <2>17. CopyIsTrue' BY <2>1, <2>2 DEF BusInv, CopyIsTrue
  <2> QED BY <2>9, <2>10, <2>11, <2>12, <2>13, <2>14, <2>15, <2>16, <2>17 DEF BusInv
<1>2. CASE BusNext
  <2>1. BusTyped' BY <1>2, RegWriteTypes, InCallTypes, EndOfCallTypes DEF BusNext, BusInv
  <2>2. Clean'
    <3>1. ASSUME NEW t \in Tasks, RegWrite(t) PROVE Clean'
      BY <3>1, RegWriteIs DEF BusInv, Clean
    <3>2. ASSUME NEW t \in Tasks, InCall(t) \/ EndOfCall(t) PROVE Clean'
      BY <3>2, InCallIs, EndIs, PinClean DEF BusInv
    <3> QED BY <1>2, <3>1, <3>2 DEF BusNext
  <2> QED BY <1>2, <2>1, <2>2, IdleQuietKept, InStepKept, AloneCopiedKept, RivalsKept,
             LoadedByKept, WonKeptKept, CopyKept DEF BusInv
<1> QED BY <1>1, <1>2

LEMMA BusInvariant == BusSpec => []BusInv
BY BusInvInit, BusInvKept, PTL DEF BusSpec

\* AUDIO.c's copy of a register is what the codec holds unless the last
\* transfer for it met another one: for any number of tasks, any calls, bytes
\* of any length, and whichever side wins when both drive the data wire.
THEOREM CopyStaysTrue == BusSpec => []CopyIsTrue
<1>1. BusInv => CopyIsTrue BY DEF BusInv
<1> QED BY <1>1, BusInvariant, PTL

\* A write that reports success has reached its register, wherever and however
\* often it was interrupted, unless another write of the same register began
\* meanwhile (I2C.c:67-94).
THEOREM SuccessIsReal == BusSpec => SuccessMeansWritten
<1>1. ASSUME BusInv, [BusNext]_busVars, NEW t \in Tasks,
             stage[t] = "stop", stage'[t] = "idle", ack[t], ~rival[t]
      PROVE  regs'[Target(t)] = Data(t)
  <2>1. EndOfCall(t)
    <3>1. stage' # stage BY <1>1
    <3>2. PICK v \in Tasks : RegWrite(v) \/ InCall(v) \/ EndOfCall(v)
      BY <1>1, <3>1 DEF BusNext, busVars, taskVars
    <3>3. ~InCall(v) BY <3>1, <1>1, InCallIs DEF BusInv
    <3>4. v = t
      <4>1. v # t => stage'[t] = stage[t]
        BY <1>1, <3>2, <3>3, RegWriteIs, EndIs DEF BusInv
      <4> QED BY <1>1, <4>1
    <3>5. ~RegWrite(t)
      <4>1. RegWrite(t) => stage'[t] = "start" BY <1>1, RegWriteIs DEF BusInv
      <4> QED BY <1>1, <4>1
    <3> QED BY <3>2, <3>3, <3>4, <3>5
  <2>2. Running(t) BY <1>1, <2>1, EndIs DEF BusInv
  <2>3. regs' = regs BY <1>1, <2>1, <2>2, EndKeepsRegs DEF BusInv, InStep
  <2>4. Won(t) BY <1>1 DEF Won
  <2> QED BY <1>1, <2>3, <2>4 DEF BusInv, WonKept
<1>2. BusInv /\ [BusNext]_busVars =>
        [\A t \in Tasks :
            stage[t] = "stop" /\ stage'[t] = "idle" /\ ack[t] /\ ~rival[t] =>
                regs'[Target(t)] = Data(t)]_busVars
  BY <1>1
<1> QED BY <1>2, BusInvariant, PTL DEF BusSpec, SuccessMeansWritten
==============================================================================
