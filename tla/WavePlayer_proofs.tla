-------------------------- MODULE WavePlayer_proofs --------------------------
(***************************************************************************)
(* Proofs about WavePlayer for every buffer, frame and cluster size and    *)
(* every set of songs.  The inductive invariant says where the three       *)
(* positions lie relative to the sectors of the file; with it, that an     *)
(* unbroken stream has the right bytes in the buffer and the handle where  *)
(* the next sector begins.                                                 *)
(***************************************************************************)
EXTENDS WaveSongs, WellFoundedInduction, TLAPS

\* The parts of the assumption on the constants.
LEMMA Sizes ==
    /\ Buf \in Nat \ {0} /\ Frame \in Nat \ {0}
    /\ NoFile \notin Songs /\ Foreign \notin Songs /\ NoFile # Foreign
    /\ \A s \in Songs : offset[s] \in 0 .. Buf /\ End(s) \in Nat
BY PlayerAssumption DEF PlayerAssumption, End

-----------------------------------------------------------------------------
\* Arithmetic of sectors and frames.

\* A product grows with its factor.
LEMMA Product ==
    ASSUME NEW b \in Nat, NEW d \in Int, d >= 1
    PROVE  d * b >= b
<1>1. d - 1 \in Nat OBVIOUS
<1>2. \A e \in Nat : e * b >= 0 OBVIOUS
<1>3. (d - 1) * b >= 0 BY <1>1, <1>2
<1>4. (d - 1) * b = d * b - b OBVIOUS
<1> QED BY <1>3, <1>4

\* The place in the buffer of a position within the k-th sector.
LEMMA BlockPosition ==
    ASSUME NEW b \in Nat \ {0}, NEW k \in Nat, NEW p \in Nat,
           k * b <= p, p < (k + 1) * b
    PROVE  p % b = p - k * b
<1> DEFINE q == p \div b
           m == p % b
<1>1. q \in Int /\ m \in 0 .. b - 1 /\ p = b * q + m OBVIOUS
<1>2. (k + 1) * b = k * b + b OBVIOUS
<1> HIDE DEF q, m
<1>3. CASE q >= k + 1
  <2>1. (q - k) * b >= b BY <1>1, <1>3, Product
  <2>2. (q - k) * b = b * q - k * b BY <1>1
  <2> QED BY <2>1, <2>2, <1>1, <1>2
<1>4. CASE q <= k - 1
  <2>1. (k - q) * b >= b BY <1>1, <1>4, Product
  <2>2. (k - q) * b = k * b - b * q BY <1>1
  <2> QED BY <2>1, <2>2, <1>1, <1>2
<1>5. CASE q = k BY <1>1, <1>5 DEF m
<1> QED BY <1>1, <1>3, <1>4, <1>5

\* Rounding down to whole frames.
LEMMA Frames ==
    ASSUME NEW n \in Nat
    PROVE  WholeFrames(n) \in 0 .. n
<1> USE Sizes
<1>1. /\ n \div Frame \in Nat /\ n % Frame \in Nat
      /\ n = Frame * (n \div Frame) + (n % Frame)
  <2>1. /\ n \div Frame \in Int /\ n % Frame \in 0 .. Frame - 1
        /\ n = Frame * (n \div Frame) + (n % Frame)
        BY Sizes
  <2> DEFINE q == n \div Frame
  <2> HIDE DEF q
  <2>2. CASE q <= -1
    <3>1. (-q) * Frame >= Frame BY <2>1, <2>2, Product DEF q
    <3>2. (-q) * Frame = -(Frame * q) BY <2>1 DEF q
    <3> QED BY <3>1, <3>2, <2>1 DEF q
  <2> QED BY <2>1, <2>2 DEF q
<1>2. \A a, c \in Nat : a * c \in Nat /\ a * c = c * a OBVIOUS
<1>3. WholeFrames(n) = Frame * (n \div Frame)
      BY <1>1, <1>2 DEF WholeFrames
<1>4. Frame * (n \div Frame) \in Nat BY <1>1, <1>2
<1> QED BY <1>1, <1>3, <1>4

-----------------------------------------------------------------------------
\* Where the positions are: the play position lies within one sector, and the
\* read position at its end, or at the end of the song if that comes first.
Sector(k, play, read, max) ==
    /\ k * Buf <= play /\ play <= read
    /\ \/ read = (k + 1) * Buf
       \/ read = max /\ read <= (k + 1) * Buf

Positions ==
    \E k \in Nat : Sector(k, uWavePlayPos, uWaveReadPos, uWaveMaxPlayPos)

\* As long as the stream is unbroken, what is still to be played is in the
\* buffer, and the handle, if there is one, is where the next sector begins.
Coherent ==
    intact =>
        /\ playing \in Songs
        /\ hFile # NoFile => hFile = playing /\ seek = uWaveReadPos
        /\ \A p \in Nat : uWavePlayPos <= p /\ p < uWaveReadPos =>
               szBuf[p % Buf] = <<playing, p>>

\* The next position to be played, seen from the beginning of its sector.
LEMMA InSector ==
    ASSUME TypeOK, NEW k \in Nat,
           Sector(k, uWavePlayPos, uWaveReadPos, uWaveMaxPlayPos)
    PROVE  /\ \A p \in Nat : uWavePlayPos <= p /\ p < uWaveReadPos =>
                  p % Buf = p - k * Buf /\ p - k * Buf \in 0 .. Buf - 1
           /\ uWaveReadPos <= k * Buf + Buf
<1>1. (k + 1) * Buf = k * Buf + Buf /\ k * Buf \in Nat BY Sizes
<1>2. uWaveReadPos <= k * Buf + Buf BY <1>1, Sizes DEF Sector, TypeOK
<1>3. ASSUME NEW p \in Nat, uWavePlayPos <= p, p < uWaveReadPos
      PROVE  p % Buf = p - k * Buf /\ p - k * Buf \in 0 .. Buf - 1
  <2>1. k * Buf <= p /\ p < (k + 1) * Buf
        BY <1>1, <1>2, <1>3, Sizes DEF Sector, TypeOK
  <2>2. p % Buf = p - k * Buf BY <2>1, BlockPosition, Sizes
  <2> QED BY <2>1, <2>2, <1>1, Sizes
<1> QED BY <1>2, <1>3

\* The samples still to be played never leave the buffer.
LEMMA PositionsBuffer == TypeOK /\ Positions => InBuffer
<1> SUFFICES ASSUME TypeOK, NEW k \in Nat,
                    Sector(k, uWavePlayPos, uWaveReadPos, uWaveMaxPlayPos),
                    uWavePlayPos < uWaveReadPos
             PROVE  (uWavePlayPos % Buf) + (uWaveReadPos - uWavePlayPos) <= Buf
    BY DEF Positions, InBuffer
<1>1. uWavePlayPos % Buf = uWavePlayPos - k * Buf BY InSector DEF TypeOK
<1>2. uWaveReadPos <= k * Buf + Buf BY InSector
<1>3. k * Buf \in Nat BY Sizes
<1> QED BY <1>1, <1>2, <1>3, Sizes DEF TypeOK

-----------------------------------------------------------------------------
\* What the calls do to the positions and the buffer.

LEMMA FilledType ==
    ASSUME TypeOK, NEW f \in Songs \cup {NoFile, Foreign}, NEW from \in Nat,
           NEW n \in Nat
    PROVE  Filled(f, from, n) \in [Indices -> Bytes]
BY Sizes DEF TypeOK, Filled, Indices, Bytes

\* After the positions were taken from a header.
LEMMA SetPositionsType ==
    ASSUME NEW s \in Songs, SetPositions(s)
    PROVE  /\ uWavePlayPos' \in Nat /\ uWaveReadPos' \in Nat
           /\ uWaveMaxPlayPos' \in Nat /\ playing' \in Songs
           /\ Positions'
           /\ uWavePlayPos' <= Buf
<1>1. /\ uWavePlayPos' \in Nat /\ uWaveReadPos' \in Nat
      /\ uWaveMaxPlayPos' \in Nat /\ playing' \in Songs
      /\ uWavePlayPos' <= Buf
      BY Sizes DEF SetPositions
<1>2. 0 * Buf = 0 /\ (0 + 1) * Buf = Buf BY Sizes
<1>3. Sector(0, uWavePlayPos', uWaveReadPos', uWaveMaxPlayPos')
      BY <1>2, Sizes DEF SetPositions, Sector
<1> QED BY <1>1, <1>3 DEF Positions

\* The sequence that is sent, in terms of the position within the sector.
LEMMA SendSector ==
    ASSUME TypeOK, NEW k \in Nat, NEW b \in [Indices -> Bytes],
           NEW readPos \in Nat,
           k * Buf <= uWavePlayPos, uWavePlayPos < readPos,
           readPos <= k * Buf + Buf,
           Send(b, readPos)
    PROVE  LET n == WholeFrames(readPos - uWavePlayPos) IN
           /\ n \in 0 .. readPos - uWavePlayPos
           /\ uWavePlayPos' = uWavePlayPos + n
           /\ uWavePlayPos' \in Nat /\ uWavePlayPos' <= readPos
           /\ dac' \in Seq(Bytes)
           /\ dac' = [x \in 1 .. n |-> b[uWavePlayPos - k * Buf + (x - 1)]]
           /\ \A x \in 1 .. n : uWavePlayPos - k * Buf + (x - 1) \in Indices
<1> DEFINE n == WholeFrames(readPos - uWavePlayPos)
<1>1. readPos - uWavePlayPos \in Nat BY DEF TypeOK
<1>2. n \in 0 .. readPos - uWavePlayPos BY <1>1, Frames
<1>3. k * Buf \in Nat /\ (k + 1) * Buf = k * Buf + Buf BY Sizes
<1>4. uWavePlayPos % Buf = uWavePlayPos - k * Buf
  <2>1. uWavePlayPos \in Nat /\ k * Buf <= uWavePlayPos
        /\ uWavePlayPos < (k + 1) * Buf
        BY <1>3, Sizes DEF TypeOK
  <2> QED BY <2>1, BlockPosition, Sizes
<1>5. uWavePlayPos' = uWavePlayPos + n
      /\ dac' = [x \in 1 .. n |-> b[(uWavePlayPos % Buf) + (x - 1)]]
      BY DEF Send
<1> HIDE DEF n
<1>6. \A x \in 1 .. n : uWavePlayPos - k * Buf + (x - 1) \in Indices
  <2> DEFINE p == uWavePlayPos
             from == k * Buf
  <2>1. /\ p \in Nat /\ from \in Nat /\ from <= p
        /\ readPos <= from + Buf /\ n \in 0 .. readPos - p
        BY <1>2, <1>3 DEF TypeOK
  <2> HIDE DEF p, from
  <2>2. \A x \in 1 .. n : p - from + (x - 1) \in 0 .. Buf - 1 BY <2>1, Sizes
  <2> QED BY <2>2 DEF p, from, Indices
<1>7. dac' = [x \in 1 .. n |-> b[uWavePlayPos - k * Buf + (x - 1)]]
      BY <1>4, <1>5
<1>8. \A x \in 1 .. n : b[uWavePlayPos - k * Buf + (x - 1)] \in Bytes
      BY <1>6
<1>9. n \in Nat BY <1>1, <1>2
<1>10. dac' \in [1 .. n -> Bytes] BY <1>7, <1>8
<1>11. dac' \in Seq(Bytes)
  <2> DEFINE m == n
             d == dac'
  <2> HIDE DEF m, d
  <2>1. m \in Nat /\ d \in [1 .. m -> Bytes] BY <1>9, <1>10 DEF m, d
  <2> QED BY <2>1 DEF d
<1>12. uWavePlayPos' \in Nat /\ uWavePlayPos' <= readPos
       BY <1>2, <1>5, <1>9 DEF TypeOK
<1> QED BY <1>2, <1>5, <1>6, <1>7, <1>11, <1>12 DEF n

\* The positions after samples were sent.
LEMMA SendPositions ==
    ASSUME TypeOK, NEW k \in Nat, NEW b \in [Indices -> Bytes],
           NEW readPos \in Nat,
           k * Buf <= uWavePlayPos, uWavePlayPos < readPos,
           readPos <= k * Buf + Buf,
           readPos = k * Buf + Buf \/ readPos = uWaveMaxPlayPos,
           Send(b, readPos), uWaveReadPos' = readPos,
           UNCHANGED uWaveMaxPlayPos
    PROVE  Positions'
<1>1. uWavePlayPos' \in Nat /\ uWavePlayPos <= uWavePlayPos'
      /\ uWavePlayPos' <= readPos
      BY SendSector DEF TypeOK
<1>2. k * Buf \in Nat /\ (k + 1) * Buf = k * Buf + Buf BY Sizes
<1>3. Sector(k, uWavePlayPos', uWaveReadPos', uWaveMaxPlayPos')
      BY <1>1, <1>2, Sizes DEF TypeOK, Sector
<1> QED BY <1>3 DEF Positions

\* A refill is only asked for at the end of a sector.
LEMMA RefillAt ==
    ASSUME TypeOK, Positions, uWavePlayPos < uWaveMaxPlayPos,
           uWavePlayPos >= uWaveReadPos
    PROVE  /\ uWavePlayPos = uWaveReadPos
           /\ \E k \in Nat : uWavePlayPos = k * Buf
           /\ ReadSize \in 1 .. Buf
           /\ ReadSize = Buf \/ uWaveReadPos + ReadSize = uWaveMaxPlayPos
<1>1. PICK k \in Nat :
          Sector(k, uWavePlayPos, uWaveReadPos, uWaveMaxPlayPos)
      BY DEF Positions
<1>2. uWavePlayPos = uWaveReadPos BY <1>1 DEF Sector, TypeOK
<1>3. uWaveReadPos = (k + 1) * Buf BY <1>1, <1>2 DEF Sector, TypeOK
<1>4. k + 1 \in Nat OBVIOUS
<1>5. ReadSize \in 1 .. Buf
      /\ (ReadSize = Buf \/ uWaveReadPos + ReadSize = uWaveMaxPlayPos)
      BY <1>2, Sizes DEF ReadSize, TypeOK
<1> QED BY <1>2, <1>3, <1>4, <1>5

LEMMA InitInv == Init => TypeOK /\ Positions /\ Coherent
<1> SUFFICES ASSUME Init PROVE TypeOK /\ Positions /\ Coherent OBVIOUS
<1>1. TypeOK
  <2>1. dac \in Seq(Bytes) BY DEF Init
  <2>2. szBuf \in [Indices -> Bytes] BY DEF Init, Bytes
  <2> QED BY <2>1, <2>2 DEF Init, TypeOK
<1>2. 0 * Buf = 0 /\ (0 + 1) * Buf = Buf BY Sizes
<1>3. Sector(0, uWavePlayPos, uWaveReadPos, uWaveMaxPlayPos)
      BY <1>2, Sizes DEF Init, Sector
<1> QED BY <1>1, <1>3 DEF Init, Positions, Coherent

\* waveplay_start, whoever calls it.
LEMMA StartInv ==
    ASSUME TypeOK, Positions, Coherent,
           NEW s \in Songs, NEW ok \in BOOLEAN, waveplay_start(s, ok)
    PROVE  /\ hFile' \in Songs \cup {NoFile, Foreign} /\ seek' \in Nat
           /\ szBuf' \in [Indices -> Bytes]
           /\ uWavePlayPos' \in Nat /\ uWaveReadPos' \in Nat
           /\ uWaveMaxPlayPos' \in Nat
           /\ playing' \in Songs \cup {NoFile}
           /\ fault' \in BOOLEAN /\ intact' \in BOOLEAN
           /\ dac' \in Seq(Bytes)
           /\ Positions' /\ Coherent'
<1>0. dac' \in Seq(Bytes) BY DEF waveplay_start
<1>a. ASSUME NEW t \in Songs, SetPositions(t), szBuf' = Filled(t, 0, Buf),
             hFile' # NoFile => hFile' = t /\ seek' = Buf
      PROVE  Coherent'
  <2>1. uWaveReadPos' = Buf /\ playing' = t BY <1>a DEF SetPositions
  <2>2. ASSUME NEW p \in Nat, p < Buf
        PROVE  szBuf'[p % Buf] = <<t, p>>
    <3>1. 0 * Buf = 0 /\ (0 + 1) * Buf = Buf BY Sizes
    <3>2. p % Buf = p BY <2>2, <3>1, BlockPosition, Sizes
    <3>3. p \in Indices /\ 0 + p = p BY <2>2, Sizes DEF Indices
    <3>4. szBuf'[p] = IF p < Buf THEN <<t, 0 + p>> ELSE szBuf[p]
          BY <1>a, <3>3 DEF Filled
    <3>5. szBuf'[p] = <<t, p>> BY <2>2, <3>3, <3>4
    <3> QED BY <3>2, <3>5
  <2> QED BY <1>a, <2>1, <2>2 DEF Coherent
<1>1. CASE /\ hFile' = s /\ seek' = Buf
           /\ szBuf' = Filled(s, 0, Buf)
           /\ SetPositions(s)
           /\ ok /\ intact' = TRUE /\ fault' = FALSE
  <2>1. szBuf' \in [Indices -> Bytes] BY <1>1, FilledType, Sizes
  <2>2. Coherent' BY <1>1, <1>a
  <2> QED BY <1>0, <1>1, <2>1, <2>2, SetPositionsType, Sizes
<1>2. CASE /\ hFile' = Foreign /\ seek' = 0
           /\ UNCHANGED <<szBuf, posVars>>
           /\ ~ok /\ intact' = FALSE /\ fault' = TRUE
  <2>1. Coherent' BY <1>2 DEF Coherent
  <2>2. Positions' BY <1>2 DEF Positions, posVars
  <2> QED BY <1>0, <1>2, <2>1, <2>2 DEF TypeOK, posVars
<1>3. CASE /\ hFile' = NoFile /\ seek' = 0
           /\ fault' = TRUE
           /\ UNCHANGED szBuf
           /\ ~ok /\ UNCHANGED <<posVars, intact>>
  <2>1. Coherent' BY <1>3 DEF Coherent, posVars
  <2>2. Positions' BY <1>3 DEF Positions, posVars
  <2> QED BY <1>0, <1>3, <2>1, <2>2 DEF TypeOK, posVars
<1>4. ASSUME hFile' = NoFile, seek' = 0, fault' = TRUE, UNCHANGED szBuf,
             NEW t \in Songs, SetPositions(t), ok,
             intact' = (szBuf = Filled(t, 0, Buf))
      PROVE  /\ hFile' \in Songs \cup {NoFile, Foreign} /\ seek' \in Nat
             /\ szBuf' \in [Indices -> Bytes]
             /\ uWavePlayPos' \in Nat /\ uWaveReadPos' \in Nat
             /\ uWaveMaxPlayPos' \in Nat
             /\ playing' \in Songs \cup {NoFile}
             /\ fault' \in BOOLEAN /\ intact' \in BOOLEAN
             /\ dac' \in Seq(Bytes)
             /\ Positions' /\ Coherent'
  <2>1. Coherent'
    <3>1. CASE intact'
      <4>1. szBuf' = Filled(t, 0, Buf) BY <1>4, <3>1
      <4> QED BY <1>4, <4>1, <1>a
    <3>2. CASE ~intact' BY <3>2 DEF Coherent
    <3> QED BY <3>1, <3>2
  <2> QED BY <1>0, <1>4, <2>1, SetPositionsType DEF TypeOK
<1> QED BY <1>1, <1>2, <1>3, <1>4 DEF waveplay_start

\* What is buffered is sent.
LEMMA BufferedInv ==
    TypeOK /\ Positions /\ Coherent /\ ExecuteBuffered =>
        TypeOK' /\ Positions' /\ Coherent'
<1> SUFFICES ASSUME TypeOK, Positions, Coherent, ExecuteBuffered
             PROVE  TypeOK' /\ Positions' /\ Coherent'
    OBVIOUS
<1>1. PICK k \in Nat :
          Sector(k, uWavePlayPos, uWaveReadPos, uWaveMaxPlayPos)
      BY DEF Positions
<1>2. /\ k * Buf <= uWavePlayPos /\ uWavePlayPos < uWaveReadPos
      /\ uWaveReadPos <= k * Buf + Buf
      /\ uWaveReadPos = k * Buf + Buf \/ uWaveReadPos = uWaveMaxPlayPos
      /\ szBuf \in [Indices -> Bytes] /\ uWaveReadPos \in Nat
      BY <1>1, Sizes DEF Sector, TypeOK, ExecuteBuffered
<1>3. Send(szBuf, uWaveReadPos) /\ UNCHANGED <<uWaveReadPos, uWaveMaxPlayPos>>
      BY DEF ExecuteBuffered
<1>4. uWavePlayPos' \in Nat /\ uWavePlayPos <= uWavePlayPos'
      /\ dac' \in Seq(Bytes)
      BY <1>2, <1>3, SendSector DEF TypeOK
<1>5. TypeOK' BY <1>4 DEF TypeOK, ExecuteBuffered, ExecuteFrame, fileVars
<1>6. Positions' BY <1>2, <1>3, SendPositions
<1>7. Coherent'
      BY <1>4 DEF Coherent, ExecuteBuffered, fileVars, TypeOK
<1> QED BY <1>5, <1>6, <1>7

\* The buffer is refilled and sent.
LEMMA RefillInv ==
    TypeOK /\ Positions /\ Coherent /\ ExecuteRefill =>
        TypeOK' /\ Positions' /\ Coherent'
<1> SUFFICES ASSUME TypeOK, Positions, Coherent, ExecuteRefill
             PROVE  TypeOK' /\ Positions' /\ Coherent'
    OBVIOUS
<1> DEFINE readPos == uWaveReadPos + ReadSize
<1>1. PICK k \in Nat : uWavePlayPos = k * Buf
      BY RefillAt DEF ExecuteRefill
<1>2. /\ uWavePlayPos = uWaveReadPos
      /\ ReadSize \in 1 .. Buf
      /\ ReadSize = Buf \/ readPos = uWaveMaxPlayPos
      BY RefillAt DEF ExecuteRefill
<1>3. /\ hFile # NoFile /\ hFile' \in Songs \cup {NoFile, Foreign}
      /\ seek' = seek + ReadSize /\ szBuf' = Filled(hFile', seek, ReadSize)
      /\ fault' = (hFile' # hFile)
      BY DEF ExecuteRefill, Fat_FileRead, TypeOK
<1>4. Send(szBuf', readPos) /\ uWaveReadPos' = readPos
      /\ UNCHANGED <<uWaveMaxPlayPos, playing>>
      /\ intact' = (intact /\ ~fault')
      BY DEF ExecuteRefill
<1>5. szBuf' \in [Indices -> Bytes]
  <2>1. ReadSize \in Nat /\ seek \in Nat BY <1>2, Sizes DEF TypeOK
  <2> QED BY <1>3, <2>1, FilledType
<1>6. /\ readPos \in Nat /\ k * Buf <= uWavePlayPos
      /\ uWavePlayPos < readPos /\ readPos <= k * Buf + Buf
      /\ readPos = k * Buf + Buf \/ readPos = uWaveMaxPlayPos
      BY <1>1, <1>2, Sizes DEF TypeOK
<1> HIDE DEF readPos
<1>7. uWavePlayPos' \in Nat /\ uWavePlayPos <= uWavePlayPos'
      /\ dac' \in Seq(Bytes)
      BY <1>4, <1>5, <1>6, SendSector DEF TypeOK
<1>8. TypeOK'
  <2>1. seek' \in Nat BY <1>2, <1>3 DEF TypeOK
  <2>2. fault' \in BOOLEAN /\ intact' \in BOOLEAN BY <1>3, <1>4
  <2> QED BY <1>3, <1>4, <1>5, <1>6, <1>7, <2>1, <2>2
          DEF TypeOK, ExecuteRefill, ExecuteFrame
<1>9. Positions' BY <1>4, <1>5, <1>6, SendPositions
<1>10. ASSUME intact'
       PROVE  /\ playing' \in Songs
              /\ hFile' # NoFile => hFile' = playing' /\ seek' = uWaveReadPos'
              /\ \A p \in Nat : uWavePlayPos' <= p /\ p < uWaveReadPos' =>
                     szBuf'[p % Buf] = <<playing', p>>
  <2>1. intact /\ hFile' = hFile BY <1>3, <1>4, <1>10
  <2>2. playing \in Songs /\ hFile = playing /\ seek = uWaveReadPos
        BY <1>3, <2>1 DEF Coherent
  <2>3. ASSUME NEW p \in Nat, uWavePlayPos' <= p, p < readPos
        PROVE  szBuf'[p % Buf] = <<playing, p>>
    <3>1. k * Buf <= p /\ p < (k + 1) * Buf
      <4>1. k * Buf \in Nat /\ (k + 1) * Buf = k * Buf + Buf BY Sizes
      <4> QED BY <1>6, <1>7, <2>3, <4>1, Sizes DEF TypeOK
    <3>2. p % Buf = p - k * Buf BY <3>1, BlockPosition, Sizes
    <3>3. seek = k * Buf /\ p - seek \in Indices /\ p - seek < ReadSize
      <4>1. seek = k * Buf /\ seek = uWavePlayPos /\ seek \in Nat
            BY <1>1, <1>2, <2>2 DEF TypeOK
      <4>2. seek <= p /\ p < seek + ReadSize
            BY <1>2, <1>7, <2>2, <2>3, <4>1 DEF readPos, TypeOK
      <4> QED BY <1>2, <4>1, <4>2, Sizes DEF Indices
    <3>4. szBuf'[p - seek] = <<playing, seek + (p - seek)>>
          BY <1>3, <2>1, <2>2, <3>3 DEF Filled
    <3>5. seek + (p - seek) = p BY DEF TypeOK
    <3> QED BY <3>2, <3>3, <3>4, <3>5
  <2> QED BY <1>3, <1>4, <2>1, <2>2, <2>3 DEF readPos
<1> QED BY <1>8, <1>9, <1>10 DEF Coherent

\* The refill fails.
LEMMA FailInv ==
    TypeOK /\ Positions /\ Coherent /\ ExecuteFail =>
        TypeOK' /\ Positions' /\ Coherent'
<1> SUFFICES ASSUME TypeOK, Positions, Coherent, ExecuteFail
             PROVE  TypeOK' /\ Positions' /\ Coherent'
    OBVIOUS
<1>1. /\ hFile' \in {hFile, Foreign} /\ seek' = seek /\ szBuf' = szBuf
      /\ fault' = TRUE /\ intact' = (intact /\ hFile' = hFile)
      /\ UNCHANGED posVars /\ dac' = << >>
      BY DEF ExecuteFail, Fat_FileRead
<1>2. dac' \in Seq(Bytes) BY <1>1
<1>3. TypeOK'
      BY <1>1, <1>2 DEF TypeOK, ExecuteFail, ExecuteFrame, posVars
<1>4. Positions' BY <1>1 DEF Positions, posVars
<1>5. Coherent' BY <1>1 DEF Coherent, posVars
<1> QED BY <1>3, <1>4, <1>5

\* Every step keeps the invariant.
LEMMA StepInv ==
    TypeOK /\ Positions /\ Coherent /\ [Next]_vars =>
        TypeOK' /\ Positions' /\ Coherent'
<1> SUFFICES ASSUME TypeOK, Positions, Coherent, [Next]_vars
             PROVE  TypeOK' /\ Positions' /\ Coherent'
    OBVIOUS
<1>1. CASE Start
  <2>1. PICK ok \in BOOLEAN : waveplay_start(song, ok) /\ result' = ok
        BY <1>1 DEF Start
  <2>2. call' = "start" /\ song' = song /\ song \in Songs
        BY <1>1 DEF Start, TypeOK
  <2> QED BY <2>1, <2>2, StartInv DEF TypeOK
<1>2. CASE Relist
  <2>1. PICK s \in Songs, ok \in BOOLEAN :
            waveplay_start(s, ok) /\ song' = s /\ result' = ok
        BY <1>2 DEF Relist
  <2>2. call' = "start" BY <1>2 DEF Relist
  <2> QED BY <2>1, <2>2, StartInv DEF TypeOK
<1>3. CASE ExecuteRestart
  <2>1. PICK ok \in BOOLEAN : waveplay_start(song, ok)
        BY <1>3 DEF ExecuteRestart
  <2>2. call' = "execute" /\ song' = song /\ song \in Songs /\ result' = TRUE
        BY <1>3 DEF ExecuteRestart, ExecuteFrame, TypeOK
  <2> QED BY <2>1, <2>2, StartInv DEF TypeOK
<1>4. CASE ExecuteBuffered BY <1>4, BufferedInv
<1>5. CASE ExecuteRefill BY <1>5, RefillInv
<1>6. CASE ExecuteFail BY <1>6, FailInv
<1>7. CASE UNCHANGED vars
      BY <1>7 DEF vars, fileVars, posVars, TypeOK, Positions, Coherent
<1> QED BY <1>1, <1>2, <1>3, <1>4, <1>5, <1>6, <1>7
        DEF Next, waveplay_execute

LEMMA Invariant == Spec => [](TypeOK /\ Positions /\ Coherent)
BY InitInv, StepInv, PTL DEF Spec

-----------------------------------------------------------------------------
\* Every variable keeps its type.
THEOREM TypeCorrect == Spec => []TypeOK
BY Invariant, PTL

\* The sample pointer of waveplay_execute never leaves the buffer, whatever the
\* header says and whichever reads and restarts fail.
THEOREM StaysInBuffer == Spec => []InBuffer
BY Invariant, PositionsBuffer, PTL

\* The read position only passes the end of a song that ends within the first
\* sector.
ReadWithin == uWaveReadPos <= uWaveMaxPlayPos \/ uWaveReadPos <= Buf

LEMMA ReadWithinStep ==
    TypeOK /\ Positions /\ ReadWithin /\ [Next]_vars => ReadWithin'
<1> SUFFICES ASSUME TypeOK, Positions, ReadWithin, [Next]_vars
             PROVE  ReadWithin'
    OBVIOUS
<1>1. ASSUME NEW s \in Songs, NEW ok \in BOOLEAN, waveplay_start(s, ok)
      PROVE  ReadWithin'
  <2>1. CASE uWaveReadPos' = Buf BY <2>1, Sizes DEF ReadWithin
  <2>2. CASE UNCHANGED posVars BY <2>2 DEF ReadWithin, posVars
  <2> QED BY <1>1, <2>1, <2>2 DEF waveplay_start, SetPositions
<1>2. CASE Start BY <1>1, <1>2 DEF Start, TypeOK
<1>3. CASE Relist BY <1>1, <1>3 DEF Relist
<1>4. CASE ExecuteRestart BY <1>1, <1>4 DEF ExecuteRestart, TypeOK
<1>5. CASE ExecuteBuffered BY <1>5 DEF ExecuteBuffered, ReadWithin
<1>6. CASE ExecuteRefill
  <2>1. uWavePlayPos = uWaveReadPos /\ ReadSize \in 1 .. Buf
        BY <1>6, RefillAt DEF ExecuteRefill
  <2>2. uWaveReadPos + ReadSize <= uWaveMaxPlayPos
        BY <1>6, <2>1, Sizes DEF ExecuteRefill, ReadSize, TypeOK
  <2> QED BY <1>6, <2>2 DEF ExecuteRefill, ReadWithin
<1>7. CASE ExecuteFail BY <1>7 DEF ExecuteFail, ReadWithin, posVars
<1>8. CASE UNCHANGED vars BY <1>8 DEF vars, posVars, ReadWithin
<1> QED BY <1>2, <1>3, <1>4, <1>5, <1>6, <1>7, <1>8
        DEF Next, waveplay_execute

\* Nothing behind the samples of a song is played, but within its first sector.
THEOREM StopsAtEnd == Spec => []NothingPastEnd
<1>1. Init => ReadWithin BY Sizes DEF Init, ReadWithin
<1>2. TypeOK /\ Positions /\ ReadWithin => NothingPastEnd
      BY Sizes DEF TypeOK, Positions, Sector, ReadWithin, NothingPastEnd
<1> QED BY <1>1, <1>2, ReadWithinStep, Invariant, PTL DEF Spec

-----------------------------------------------------------------------------
\* The slot implements SongStream.

\* The next samples in order, of which there may be none.
LEMMA SilentPlay ==
    ASSUME TypeOK, intact, intact', dac' = << >>, UNCHANGED posVars
    PROVE  Heard!Play
<1>1. uWavePlayPos' = uWavePlayPos /\ playing' = playing BY DEF posVars
<1>2. uWavePlayPos' - uWavePlayPos = 0 /\ uWavePlayPos' >= uWavePlayPos
      BY <1>1 DEF TypeOK
<1>3. [k \in 1 .. 0 |-> <<playing, uWavePlayPos + k - 1>>] = << >> OBVIOUS
<1> QED BY <1>1, <1>2, <1>3 DEF Heard!Play

LEMMA StartStep ==
    ASSUME TypeOK, NEW s \in Songs, NEW ok \in BOOLEAN, waveplay_start(s, ok)
    PROVE  Heard!StreamNext
<1>0. dac' = << >> BY DEF waveplay_start
<1>1. CASE \E t \in Songs : SetPositions(t) /\ intact'
      BY <1>0, <1>1 DEF SetPositions, Heard!StreamNext, Heard!Restart
<1>2. CASE fault' /\ ~intact' BY <1>2 DEF Heard!StreamNext, Heard!Break
<1>3. CASE fault' /\ UNCHANGED <<posVars, intact>>
  <2>1. CASE intact
    <3>1. intact' /\ UNCHANGED posVars BY <1>3, <2>1
    <3> QED BY <1>0, <2>1, <3>1, SilentPlay DEF Heard!StreamNext
  <2>2. CASE ~intact BY <1>3, <2>2 DEF Heard!StreamNext, Heard!Noise
  <2> QED BY <2>1, <2>2
<1> QED BY <1>1, <1>2, <1>3 DEF waveplay_start

\* Sending from a coherent buffer.
LEMMA SendStep ==
    ASSUME TypeOK, NEW k \in Nat, NEW b \in [Indices -> Bytes],
           NEW readPos \in Nat,
           k * Buf <= uWavePlayPos, uWavePlayPos < readPos,
           readPos <= k * Buf + Buf,
           Send(b, readPos), intact, intact', playing' = playing,
           \A p \in Nat : uWavePlayPos <= p /\ p < readPos =>
               b[p - k * Buf] = <<playing, p>>
    PROVE  Heard!Play
<1> DEFINE n == WholeFrames(readPos - uWavePlayPos)
<1>1. /\ n \in 0 .. readPos - uWavePlayPos
      /\ uWavePlayPos' = uWavePlayPos + n
      /\ dac' = [x \in 1 .. n |-> b[uWavePlayPos - k * Buf + (x - 1)]]
      BY SendSector
<1>2. k * Buf \in Nat BY Sizes
<1> HIDE DEF n
<1>3. ASSUME NEW x \in 1 .. n
      PROVE  b[uWavePlayPos - k * Buf + (x - 1)]
                 = <<playing, uWavePlayPos + x - 1>>
  <2>1. uWavePlayPos + x - 1 \in Nat
        /\ uWavePlayPos <= uWavePlayPos + x - 1
        /\ uWavePlayPos + x - 1 < readPos
        BY <1>1, <1>3 DEF TypeOK
  <2>2. b[(uWavePlayPos + x - 1) - k * Buf]
            = <<playing, uWavePlayPos + x - 1>>
        BY <2>1
  <2>3. (uWavePlayPos + x - 1) - k * Buf = uWavePlayPos - k * Buf + (x - 1)
        BY <1>2 DEF TypeOK
  <2> QED BY <2>2, <2>3
<1>4. uWavePlayPos' - uWavePlayPos = n /\ uWavePlayPos' >= uWavePlayPos
      BY <1>1 DEF TypeOK
<1>5. dac' = [x \in 1 .. n |-> <<playing, uWavePlayPos + x - 1>>]
      BY <1>1, <1>3
<1> QED BY <1>4, <1>5 DEF Heard!Play

LEMMA BufferedStep ==
    TypeOK /\ Positions /\ Coherent /\ ExecuteBuffered => Heard!StreamNext
<1> SUFFICES ASSUME TypeOK, Positions, Coherent, ExecuteBuffered
             PROVE  Heard!StreamNext
    OBVIOUS
<1>1. CASE ~intact
      BY <1>1 DEF ExecuteBuffered, Heard!StreamNext, Heard!Noise
<1>2. CASE intact
  <2>1. PICK k \in Nat :
            Sector(k, uWavePlayPos, uWaveReadPos, uWaveMaxPlayPos)
        BY DEF Positions
  <2>2. /\ k * Buf <= uWavePlayPos /\ uWavePlayPos < uWaveReadPos
        /\ uWaveReadPos <= k * Buf + Buf
        /\ szBuf \in [Indices -> Bytes] /\ uWaveReadPos \in Nat
        BY <2>1, Sizes DEF Sector, TypeOK, ExecuteBuffered
  <2>3. \A p \in Nat : uWavePlayPos <= p /\ p < uWaveReadPos =>
            szBuf[p - k * Buf] = <<playing, p>>
        BY <1>2, <2>1, InSector DEF Coherent
  <2>4. Send(szBuf, uWaveReadPos) /\ intact' /\ playing' = playing
        BY <1>2 DEF ExecuteBuffered
  <2>5. Heard!Play BY <1>2, <2>2, <2>3, <2>4, SendStep
  <2> QED BY <2>5 DEF Heard!StreamNext
<1> QED BY <1>1, <1>2

LEMMA RefillStep ==
    TypeOK /\ Positions /\ Coherent /\ ExecuteRefill => Heard!StreamNext
<1> SUFFICES ASSUME TypeOK, Positions, Coherent, ExecuteRefill
             PROVE  Heard!StreamNext
    OBVIOUS
<1>0. intact' = (intact /\ ~fault') /\ playing' = playing
      BY DEF ExecuteRefill
<1>1. CASE ~intact BY <1>0, <1>1 DEF Heard!StreamNext, Heard!Noise
<1>2. CASE fault' BY <1>0, <1>2 DEF Heard!StreamNext, Heard!Break
<1>3. CASE intact /\ ~fault'
  <2> DEFINE readPos == uWaveReadPos + ReadSize
  <2>1. PICK k \in Nat : uWavePlayPos = k * Buf
        BY RefillAt DEF ExecuteRefill
  <2>2. /\ uWavePlayPos = uWaveReadPos
        /\ ReadSize \in 1 .. Buf
        BY RefillAt DEF ExecuteRefill
  <2>3. /\ hFile # NoFile /\ hFile' = hFile
        /\ szBuf' = Filled(hFile, seek, ReadSize)
        BY <1>3 DEF ExecuteRefill, Fat_FileRead
  <2>4. hFile = playing /\ seek = uWavePlayPos
        BY <1>3, <2>2, <2>3 DEF Coherent
  <2>5. szBuf' \in [Indices -> Bytes]
    <3>1. ReadSize \in Nat /\ seek \in Nat BY <2>2, Sizes DEF TypeOK
    <3> QED BY <2>3, <3>1, FilledType DEF TypeOK
  <2>6. /\ readPos \in Nat /\ k * Buf <= uWavePlayPos
        /\ uWavePlayPos < readPos /\ readPos <= k * Buf + Buf
        BY <2>1, <2>2, Sizes DEF TypeOK
  <2>7. ASSUME NEW p \in Nat, uWavePlayPos <= p, p < readPos
        PROVE  szBuf'[p - k * Buf] = <<playing, p>>
    <3>1. p - k * Buf = p - seek BY <2>1, <2>4
    <3>2. p - seek \in Indices /\ p - seek < ReadSize
          BY <2>2, <2>4, <2>7, Sizes DEF TypeOK, Indices
    <3>3. szBuf'[p - seek] = <<playing, seek + (p - seek)>>
          BY <2>3, <2>4, <3>2 DEF Filled
    <3>4. seek + (p - seek) = p BY DEF TypeOK
    <3> QED BY <3>1, <3>3, <3>4
  <2>8. Send(szBuf', readPos) BY DEF ExecuteRefill
  <2> HIDE DEF readPos
  <2>9. Heard!Play BY <1>0, <1>3, <2>5, <2>6, <2>7, <2>8, SendStep
  <2> QED BY <2>9 DEF Heard!StreamNext
<1> QED BY <1>1, <1>2, <1>3

LEMMA FailStep ==
    TypeOK /\ ExecuteFail => Heard!StreamNext
<1> SUFFICES ASSUME TypeOK, ExecuteFail PROVE Heard!StreamNext OBVIOUS
<1>1. fault' /\ dac' = << >> /\ UNCHANGED posVars
      /\ intact' = (intact /\ hFile' = hFile)
      BY DEF ExecuteFail, Fat_FileRead
<1>2. CASE ~intact' BY <1>1, <1>2 DEF Heard!StreamNext, Heard!Break
<1>3. CASE intact'
  <2>1. intact BY <1>1, <1>3
  <2> QED BY <1>1, <1>3, <2>1, SilentPlay DEF Heard!StreamNext
<1> QED BY <1>2, <1>3

LEMMA StreamStep ==
    TypeOK /\ Positions /\ Coherent /\ [Next]_vars
        => [Heard!StreamNext]_Heard!streamVars
<1> SUFFICES ASSUME TypeOK, Positions, Coherent, [Next]_vars
             PROVE  [Heard!StreamNext]_Heard!streamVars
    OBVIOUS
<1>1. CASE Start BY <1>1, StartStep DEF Start, TypeOK
<1>2. CASE Relist BY <1>2, StartStep DEF Relist
<1>3. CASE ExecuteRestart BY <1>3, StartStep DEF ExecuteRestart, TypeOK
<1>4. CASE ExecuteBuffered BY <1>4, BufferedStep
<1>5. CASE ExecuteRefill BY <1>5, RefillStep
<1>6. CASE ExecuteFail BY <1>6, FailStep
<1>7. CASE UNCHANGED vars BY <1>7 DEF vars, posVars, Heard!streamVars
<1> QED BY <1>1, <1>2, <1>3, <1>4, <1>5, <1>6, <1>7
        DEF Next, waveplay_execute

\* The samples sent by one call after another are those of one song in order,
\* until a fault of the card breaks the stream (audio_f.c:152-255).
THEOREM PlayerImplementsStream == Spec => PlaysStream
<1>1. Init => Heard!StreamInit BY DEF Init, Heard!StreamInit
<1> QED BY <1>1, StreamStep, Invariant, PTL DEF Spec, PlaysStream, Heard!Stream

\* What is sent of an unbroken stream lies behind the header.
BehindHeader ==
    intact =>
        /\ uWavePlayPos >= offset[playing]
        /\ \A x \in 1 .. Len(dac) :
               dac[x][1] = playing /\ dac[x][2] >= offset[playing]

LEMMA Difference ==
    ASSUME NEW x \in Int, NEW y \in Int, y >= x
    PROVE  y - x \in Nat
OBVIOUS

LEMMA BehindHeaderStep ==
    ASSUME TypeOK, TypeOK', Coherent, Coherent', BehindHeader,
           [Heard!StreamNext]_Heard!streamVars
    PROVE  BehindHeader'
<1> SUFFICES ASSUME intact'
             PROVE  /\ uWavePlayPos' >= offset[playing']
                    /\ \A x \in 1 .. Len(dac') :
                           dac'[x][1] = playing' /\ dac'[x][2] >= offset[playing']
    BY DEF BehindHeader
<1>1. playing' \in Songs /\ offset[playing'] \in Nat /\ uWavePlayPos \in Nat
      /\ uWavePlayPos' \in Nat
      BY Sizes DEF Coherent, TypeOK
<1>2. CASE Heard!Restart
  <2>1. uWavePlayPos' = offset[playing'] /\ Len(dac') = 0 BY <1>2 DEF Heard!Restart
  <2> QED BY <1>1, <2>1
<1>3. CASE Heard!Play
  <2> DEFINE n == uWavePlayPos' - uWavePlayPos
  <2>1. /\ intact /\ playing' = playing /\ uWavePlayPos' >= uWavePlayPos
        /\ dac' = [x \in 1 .. n |-> <<playing, uWavePlayPos + x - 1>>]
        BY <1>3 DEF Heard!Play
  <2>2. uWavePlayPos >= offset[playing] BY <2>1 DEF BehindHeader
  <2>3. n \in Nat
    <3>1. uWavePlayPos' >= uWavePlayPos BY <2>1
    <3>2. uWavePlayPos \in Int /\ uWavePlayPos' \in Int BY <1>1
    <3> QED BY <3>1, <3>2, Difference
  <2> HIDE DEF n
  <2>4. Len(dac') = n BY <2>1, <2>3
  <2>5. \A x \in 1 .. n : dac'[x] = <<playing, uWavePlayPos + x - 1>> BY <2>1
  <2>6. \A x \in 1 .. n : uWavePlayPos + x - 1 >= offset[playing]
    <3>1. offset[playing] \in Nat BY <1>1, <2>1
    <3> QED BY <1>1, <2>2, <2>3, <3>1
  <2>7. uWavePlayPos' >= offset[playing']
    <3>1. uWavePlayPos' >= uWavePlayPos /\ playing' = playing BY <2>1
    <3>2. offset[playing] \in Nat BY <1>1, <3>1
    <3> QED BY <1>1, <2>2, <3>1, <3>2
  <2>8. ASSUME NEW x \in 1 .. n
        PROVE  dac'[x][1] = playing' /\ dac'[x][2] >= offset[playing']
    <3>1. dac'[x] = <<playing, uWavePlayPos + x - 1>> BY <2>5
    <3>2. playing' = playing BY <2>1
    <3>3. uWavePlayPos + x - 1 >= offset[playing] BY <2>6
    <3>4. dac'[x][1] = playing /\ dac'[x][2] = uWavePlayPos + x - 1 BY <3>1
    <3> QED BY <3>2, <3>3, <3>4
  <2> QED BY <2>4, <2>7, <2>8
<1>4. CASE Heard!Break BY <1>4 DEF Heard!Break
<1>5. CASE Heard!Noise BY <1>5 DEF Heard!Noise
<1>6. CASE UNCHANGED Heard!streamVars BY <1>6 DEF Heard!streamVars, BehindHeader
<1> QED BY <1>2, <1>3, <1>4, <1>5, <1>6 DEF Heard!StreamNext

\* Of an unbroken stream nothing is heard but bytes of the song whose header was
\* read, from the place on that Wave_GetWaveOffset names (audio_f.c:172-178,
\* 237-250).  It rests on the stream alone, so on any player of one.
THEOREM OnlySamples == Spec => []BehindHeader
<1>1. Init => BehindHeader BY DEF Init, BehindHeader
<1>2. TypeOK /\ Positions /\ Coherent /\ BehindHeader /\ [Next]_vars
          => BehindHeader'
      BY StepInv, StreamStep, BehindHeaderStep
<1> QED BY <1>1, <1>2, Invariant, PTL DEF Spec

-----------------------------------------------------------------------------
(* There is a frame to send *)

Multiple(x) == \E k \in Nat : x = k * Frame

\* The positions of a song of whole frames lie between frames.
OnFrames ==
    \/ playing = NoFile /\ uWaveMaxPlayPos = 0
    \/ /\ playing \in Songs
       /\ InWholeFrames(playing) =>
              /\ Multiple(uWavePlayPos) /\ Multiple(uWaveReadPos)
              /\ Multiple(uWaveMaxPlayPos)

LEMMA MultipleSum ==
    ASSUME NEW x, NEW y, Multiple(x), Multiple(y)
    PROVE  Multiple(x + y)
<1>1. PICK j \in Nat, k \in Nat : x = j * Frame /\ y = k * Frame BY DEF Multiple
<1>2. x + y = (j + k) * Frame /\ j + k \in Nat BY <1>1, Sizes
<1> QED BY <1>2 DEF Multiple

LEMMA MultipleDifference ==
    ASSUME NEW x \in Nat, NEW y \in Nat, Multiple(x), Multiple(y), x <= y
    PROVE  Multiple(y - x)
<1>1. PICK j \in Nat, k \in Nat : x = j * Frame /\ y = k * Frame BY DEF Multiple
<1>2. CASE j <= k
  <2>1. y - x = (k - j) * Frame /\ k - j \in Nat BY <1>1, <1>2, Sizes
  <2> QED BY <2>1 DEF Multiple
<1>3. CASE j > k
  <2>1. (j - k) * Frame >= Frame BY <1>3, Product, Sizes
  <2>2. (j - k) * Frame = x - y BY <1>1, Sizes
  <2> QED BY <2>1, <2>2, Sizes
<1> QED BY <1>2, <1>3

\* A remainder of zero and a multiple are the same.
LEMMA MultipleOf ==
    ASSUME NEW x \in Nat
    PROVE  x % Frame = 0 => Multiple(x)
<1>1. /\ x \div Frame \in Int /\ x = Frame * (x \div Frame) + (x % Frame)
      BY Sizes
<1> DEFINE q == x \div Frame
<1> HIDE DEF q
<1>2. q \in Int /\ x = Frame * q + (x % Frame) BY <1>1 DEF q
<1>3. ASSUME x % Frame = 0, q <= -1 PROVE FALSE
  <2>1. (-q) * Frame >= Frame BY <1>2, <1>3, Product, Sizes
  <2>2. (-q) * Frame = -(Frame * q) BY <1>2, Sizes
  <2> QED BY <2>1, <2>2, <1>2, <1>3, Sizes
<1>4. ASSUME x % Frame = 0 PROVE q \in Nat /\ x = q * Frame
      BY <1>2, <1>3, <1>4, Sizes
<1> QED BY <1>4 DEF Multiple

\* Nothing is lost by rounding a multiple down.
LEMMA MultipleIsWhole ==
    ASSUME NEW x \in Nat, Multiple(x)
    PROVE  WholeFrames(x) = x
<1>1. PICK k \in Nat : x = k * Frame BY DEF Multiple
<1>2. (k + 1) * Frame = k * Frame + Frame BY Sizes
<1>3. x % Frame = 0 BY <1>1, <1>2, BlockPosition, Sizes
<1> DEFINE q == x \div Frame
<1>4. q \in Int /\ x = Frame * q + (x % Frame) BY Sizes
<1>5. WholeFrames(x) = q * Frame BY DEF WholeFrames
<1> HIDE DEF q
<1>6. Frame * q = q * Frame /\ Frame * q \in Int BY <1>4, Sizes
<1> QED BY <1>3, <1>4, <1>5, <1>6

\* What the header says of a song of whole frames.
LEMMA SongOnFrames ==
    ASSUME NEW t \in Songs, InWholeFrames(t)
    PROVE  Multiple(offset[t]) /\ Multiple(End(t)) /\ Multiple(Buf)
<1>1. offset[t] \in Nat /\ size[t] \in Nat /\ Buf \in Nat /\ Buf % Frame = 0
      BY PlayerAssumption
<1>2. Multiple(offset[t]) /\ Multiple(size[t]) /\ Multiple(Buf)
      BY <1>1, MultipleOf DEF InWholeFrames
<1> QED BY <1>2, MultipleSum DEF End

\* What the next call sends ends on a frame.
LEMMA RefillOnFrames ==
    ASSUME TypeOK, playing \in Songs, InWholeFrames(playing), OnFrames,
           uWavePlayPos < uWaveMaxPlayPos
    PROVE  Multiple(ReadSize) /\ ReadSize \in Nat
<1>1. /\ playing # NoFile BY Sizes
<1>2. Multiple(uWaveMaxPlayPos - uWavePlayPos)
      BY <1>1, MultipleDifference DEF OnFrames, TypeOK
<1>3. Multiple(Buf) BY SongOnFrames
<1> QED BY <1>2, <1>3, Sizes DEF ReadSize, TypeOK

LEMMA SendOnFrames ==
    ASSUME TypeOK, NEW b, NEW readPos \in Nat, Multiple(readPos),
           Multiple(uWavePlayPos), uWavePlayPos <= readPos, Send(b, readPos)
    PROVE  uWavePlayPos' = readPos
<1>1. readPos - uWavePlayPos \in Nat /\ uWavePlayPos \in Nat BY DEF TypeOK
<1>2. Multiple(readPos - uWavePlayPos) BY <1>1, MultipleDifference
<1>3. WholeFrames(readPos - uWavePlayPos) = readPos - uWavePlayPos
      BY <1>1, <1>2, MultipleIsWhole
<1>4. uWavePlayPos' = uWavePlayPos + (readPos - uWavePlayPos) BY <1>3 DEF Send
<1> QED BY <1>1, <1>4

LEMMA StartOnFrames ==
    ASSUME OnFrames, NEW s \in Songs, NEW ok \in BOOLEAN, waveplay_start(s, ok)
    PROVE  OnFrames'
<1>1. ASSUME NEW t \in Songs, SetPositions(t) PROVE OnFrames'
  <2>1. InWholeFrames(t) =>
            /\ Multiple(uWavePlayPos') /\ Multiple(uWaveReadPos')
            /\ Multiple(uWaveMaxPlayPos')
        BY <1>1, SongOnFrames DEF SetPositions
  <2>2. playing' = t BY <1>1 DEF SetPositions
  <2> QED BY <2>1, <2>2 DEF OnFrames, Multiple, InWholeFrames
<1>2. CASE UNCHANGED posVars BY <1>2 DEF OnFrames, posVars, Multiple, InWholeFrames
<1> QED BY <1>1, <1>2 DEF waveplay_start

LEMMA StepOnFrames ==
    TypeOK /\ Positions /\ OnFrames /\ [Next]_vars => OnFrames'
<1> SUFFICES ASSUME TypeOK, Positions, OnFrames, [Next]_vars PROVE OnFrames'
    OBVIOUS
<1>1. CASE Start BY <1>1, StartOnFrames DEF Start, TypeOK
<1>2. CASE Relist BY <1>2, StartOnFrames DEF Relist
<1>3. CASE ExecuteRestart BY <1>3, StartOnFrames DEF ExecuteRestart, TypeOK
<1>4. CASE ExecuteBuffered
  <2>1. /\ UNCHANGED <<uWaveReadPos, uWaveMaxPlayPos, playing>>
        /\ Send(szBuf, uWaveReadPos) /\ uWavePlayPos < uWaveReadPos
        /\ uWavePlayPos < uWaveMaxPlayPos
        BY <1>4 DEF ExecuteBuffered
  <2>2. playing \in Songs BY <2>1 DEF OnFrames, TypeOK
  <2>3. ASSUME InWholeFrames(playing)
        PROVE  Multiple(uWavePlayPos') /\ Multiple(uWaveReadPos')
               /\ Multiple(uWaveMaxPlayPos')
    <3>1. Multiple(uWavePlayPos) /\ Multiple(uWaveReadPos)
          /\ Multiple(uWaveMaxPlayPos)
          BY <2>2, <2>3, Sizes DEF OnFrames
    <3>2. uWavePlayPos' = uWaveReadPos BY <2>1, <3>1, SendOnFrames DEF TypeOK
    <3> QED BY <2>1, <3>1, <3>2
  <2> QED BY <2>1, <2>2, <2>3 DEF OnFrames, Multiple, InWholeFrames
<1>5. CASE ExecuteRefill
  <2> DEFINE readPos == uWaveReadPos + ReadSize
  <2>1. /\ uWaveReadPos' = readPos /\ UNCHANGED <<uWaveMaxPlayPos, playing>>
        /\ Send(szBuf', readPos) /\ uWavePlayPos < uWaveMaxPlayPos
        BY <1>5 DEF ExecuteRefill
  <2>2. uWavePlayPos = uWaveReadPos BY <1>5, RefillAt DEF ExecuteRefill
  <2>3. playing \in Songs BY <2>1 DEF OnFrames, TypeOK
  <2>4. ASSUME InWholeFrames(playing)
        PROVE  Multiple(uWavePlayPos') /\ Multiple(uWaveReadPos')
               /\ Multiple(uWaveMaxPlayPos')
    <3>1. Multiple(uWavePlayPos) /\ Multiple(uWaveReadPos)
          /\ Multiple(uWaveMaxPlayPos)
          BY <2>3, <2>4, Sizes DEF OnFrames
    <3>2. Multiple(ReadSize) /\ ReadSize \in Nat
          BY <2>1, <2>3, <2>4, RefillOnFrames
    <3>3. Multiple(readPos) /\ readPos \in Nat /\ uWavePlayPos <= readPos
      <4>1. Multiple(readPos) BY <3>1, <3>2, MultipleSum
      <4>2. uWaveReadPos \in Nat BY DEF TypeOK
      <4> QED BY <2>2, <3>2, <4>1, <4>2
    <3>4. uWavePlayPos' = readPos BY <2>1, <3>1, <3>3, SendOnFrames
    <3> QED BY <2>1, <3>1, <3>3, <3>4
  <2> QED BY <2>1, <2>3, <2>4 DEF OnFrames, Multiple, InWholeFrames
<1>6. CASE ExecuteFail
      BY <1>6 DEF ExecuteFail, OnFrames, posVars, Multiple, InWholeFrames
<1>7. CASE UNCHANGED vars
      BY <1>7 DEF vars, posVars, OnFrames, Multiple, InWholeFrames
<1> QED BY <1>1, <1>2, <1>3, <1>4, <1>5, <1>6, <1>7 DEF Next, waveplay_execute

\* Before its end a song of whole frames always has a frame left to send, for
\* every size of sector, frame, header and song: of SongEnds, that a call which
\* succeeds gets on (audio_f.c:219-252).
THEOREM AlwaysAFrame == Spec => []FrameToSend
<1>1. Init => OnFrames BY DEF Init, OnFrames
<1>2. TypeOK /\ Positions /\ OnFrames => FrameToSend
  <2> SUFFICES ASSUME TypeOK, Positions, OnFrames, InWholeFrames(playing),
                      uWavePlayPos < uWaveMaxPlayPos
               PROVE  WholeFrames(NextReadPos - uWavePlayPos) > 0
      BY DEF FrameToSend
  <2> DEFINE n == NextReadPos - uWavePlayPos
  <2>1. playing \in Songs BY DEF OnFrames, TypeOK
  <2>2. Multiple(uWavePlayPos) /\ Multiple(uWaveReadPos)
        BY <2>1, Sizes DEF OnFrames
  <2>3. Multiple(ReadSize) BY <2>1, RefillOnFrames
  <2>4. CASE uWavePlayPos < uWaveReadPos
    <3>1. n = uWaveReadPos - uWavePlayPos /\ n \in Nat /\ n > 0
          BY <2>4 DEF NextReadPos, TypeOK
    <3>2. Multiple(n) BY <2>2, <2>4, <3>1, MultipleDifference DEF TypeOK
    <3> QED BY <3>1, <3>2, MultipleIsWhole
  <2>5. CASE uWavePlayPos >= uWaveReadPos
    <3>1. uWavePlayPos = uWaveReadPos /\ ReadSize \in 1 .. Buf
          BY <2>5, RefillAt
    <3>2. n = ReadSize /\ n \in Nat /\ n > 0
          BY <2>5, <3>1, Sizes DEF NextReadPos, TypeOK
    <3> QED BY <2>3, <3>2, MultipleIsWhole
  <2> QED BY <2>4, <2>5 DEF TypeOK
<1> QED BY <1>1, <1>2, StepOnFrames, Invariant, PTL DEF Spec

-----------------------------------------------------------------------------
(* What is sent are the samples of the data chunk *)

\* A set of natural numbers has a least one.
LEMMA LeastOf ==
    ASSUME NEW S, S \subseteq Nat, S # {}
    PROVE  \E t \in S : \A u \in S : t <= u
<1> DEFINE R == {ss \in Nat \X Nat : ss[1] < ss[2]}
<1>1. IsWellFoundedOn(R, Nat) BY NatLessThanWellFounded DEF OpToRel
<1> HIDE DEF R
<1>2. \E t \in S : \A u \in S : ~ (<<u, t>> \in R) BY <1>1, WFMin
<1>3. \A u, t \in S : ~ (<<u, t>> \in R) => t <= u BY DEF R
<1> QED BY <1>2, <1>3

\* A chunk the walk returns has the ID it looked for and lies where it says.
LEMMA ChunkFound ==
    ASSUME NEW file, Len(file) \in Nat, NEW behind, NEW nSize, NEW ID,
           behind # ID, ~(ChunkOffset(file, Len(file) + 1) < nSize),
           waveGetChunkOffset(file, behind, nSize, ID) # 0
    PROVE  \E k \in 1 .. Len(file) :
               /\ file[k].ID = ID
               /\ waveGetChunkOffset(file, behind, nSize, ID)
                      = ChunkOffset(file, k)
<1> DEFINE nOffset(k) == ChunkOffset(file, k)
           IDat(k) == IF nOffset(k) < nSize THEN file[k].ID ELSE behind
           Stops(k) == IDat(k) = ID \/ ~(nOffset(k) < nSize)
           First(k) == Stops(k) /\ \A j \in 1 .. k - 1 : ~Stops(j)
           stop == CHOOSE k \in 1 .. Len(file) + 1 : First(k)
<1>1. \E k \in 1 .. Len(file) + 1 : First(k)
  <2> DEFINE S == {k \in 1 .. Len(file) + 1 : Stops(k)}
  <2>1. Len(file) + 1 \in S OBVIOUS
  <2>2. S \subseteq Nat OBVIOUS
  <2> HIDE DEF Stops
  <2>3. PICK t \in S : \A u \in S : t <= u BY <2>1, <2>2, LeastOf
  <2>4. \A j \in 1 .. t - 1 : ~Stops(j) BY <2>3
  <2> QED BY <2>3, <2>4
<1>2. stop \in 1 .. Len(file) + 1
  <2> HIDE DEF First
  <2> QED BY <1>1
<1>3. waveGetChunkOffset(file, behind, nSize, ID)
          = IF IDat(stop) = ID THEN nOffset(stop) ELSE 0
      BY DEF waveGetChunkOffset
<1> HIDE DEF stop
<1>4. IDat(stop) = ID BY <1>3
<1>5. nOffset(stop) < nSize /\ file[stop].ID = ID BY <1>4
<1>6. stop # Len(file) + 1 BY <1>5
<1>7. stop \in 1 .. Len(file) BY <1>2, <1>6
<1> QED BY <1>3, <1>4, <1>5, <1>7

\* The head of the chunk from which the samples of a song are taken.
LEMMA SamplesIn ==
    ASSUME SongsAssumption, NEW t \in Songs, size[t] # 0
    PROVE  \E k \in 1 .. Len(File[t]) :
               /\ File[t][k].ID = "data"
               /\ offset[t] = ChunkOffset(File[t], k) + ChunkBytes
<1> DEFINE nOffset == waveGetChunkOffset(File[t], Behind, Buf, "data")
<1>1. size[t] = Wave_GetDataByteSize(File[t], Behind, Buf)
      /\ offset[t] = Wave_GetWaveOffset(File[t], Behind, Buf)
      BY DEF SongsAssumption
<1>2. nOffset # 0 BY <1>1 DEF Wave_GetDataByteSize
<1>3. offset[t] = nOffset + ChunkBytes BY <1>1, <1>2 DEF Wave_GetWaveOffset
<1>4. Len(File[t]) \in Nat BY DEF SongsAssumption
<1>5. \E k \in 1 .. Len(File[t]) :
          File[t][k].ID = "data" /\ nOffset = ChunkOffset(File[t], k)
      BY <1>2, <1>4, ChunkFound DEF SongsAssumption
<1> QED BY <1>3, <1>5

\* The end of the stream is that of the song whose header was read.
MaxIsEnd == playing \in Songs => uWaveMaxPlayPos = End(playing)

\* Of a song in which no samples were found nothing is sent.
Sized == intact /\ dac # << >> => size[playing] # 0

LEMMA SizedStep ==
    TypeOK /\ Coherent /\ Coherent' /\ BehindHeader /\ MaxIsEnd /\ Sized
        /\ [Next]_vars => MaxIsEnd' /\ Sized'
<1> SUFFICES ASSUME TypeOK, Coherent, Coherent', BehindHeader, MaxIsEnd, Sized,
                    [Next]_vars
             PROVE  MaxIsEnd' /\ Sized'
    OBVIOUS
<1>1. ASSUME NEW t \in Songs, NEW ok \in BOOLEAN, waveplay_start(t, ok)
      PROVE  MaxIsEnd' /\ Sized'
  <2>1. Sized' BY <1>1 DEF waveplay_start, Sized
  <2>2. ASSUME NEW u \in Songs, SetPositions(u) PROVE MaxIsEnd'
    <3>1. uWaveMaxPlayPos' = End(u) /\ playing' = u BY <2>2 DEF SetPositions
    <3> QED BY <3>1 DEF MaxIsEnd, End
  <2>3. ASSUME UNCHANGED posVars PROVE MaxIsEnd'
        BY <2>3 DEF posVars, MaxIsEnd, End
  <2> QED BY <1>1, <2>1, <2>2, <2>3 DEF waveplay_start
<1>2. CASE Start BY <1>1, <1>2 DEF Start, TypeOK
<1>3. CASE Relist BY <1>1, <1>3 DEF Relist
<1>4. CASE ExecuteRestart BY <1>1, <1>4 DEF ExecuteRestart, TypeOK
<1>5. CASE ExecuteBuffered \/ ExecuteRefill
  <2>1. /\ UNCHANGED <<uWaveMaxPlayPos, playing>>
        /\ uWavePlayPos < uWaveMaxPlayPos
        BY <1>5 DEF ExecuteBuffered, ExecuteRefill
  <2>4. ASSUME intact' PROVE intact
    <3>1. CASE ExecuteBuffered BY <2>4, <3>1 DEF ExecuteBuffered
    <3>2. CASE ExecuteRefill
      <4>1. intact' = (intact /\ ~fault') BY <3>2 DEF ExecuteRefill
      <4> QED BY <2>4, <4>1
    <3> QED BY <1>5, <3>1, <3>2
  <2>2. MaxIsEnd' BY <2>1 DEF MaxIsEnd, End
  <2>3. ASSUME intact' PROVE size[playing'] # 0
    <3>1. /\ playing \in Songs /\ uWavePlayPos >= offset[playing]
          /\ uWavePlayPos < offset[playing] + size[playing]
          BY <2>1, <2>3, <2>4 DEF Coherent, BehindHeader, MaxIsEnd, End
    <3>2. offset[playing] \in Nat /\ size[playing] \in Nat
          /\ uWavePlayPos \in Nat
          BY <3>1, PlayerAssumption DEF TypeOK
    <3> QED BY <2>1, <3>1, <3>2
  <2> QED BY <2>2, <2>3 DEF Sized
<1>6. CASE ExecuteFail
      BY <1>6 DEF ExecuteFail, posVars, MaxIsEnd, Sized, End
<1>7. CASE UNCHANGED vars BY <1>7 DEF vars, posVars, MaxIsEnd, Sized, End
<1> QED BY <1>2, <1>3, <1>4, <1>5, <1>6, <1>7 DEF Next, waveplay_execute

\* Of an unbroken stream nothing is heard but the bytes behind the head of a
\* data chunk, for all songs that begin with a sector of chunks, whatever their
\* number, order and sizes (audio_f.c:172-178, WaveLib.c:43-57).
THEOREM SamplesAreHeard == Spec => []PlaysSamples
<1>1. Init => MaxIsEnd /\ Sized
  <2>1. Init => playing \notin Songs BY Sizes DEF Init
  <2> QED BY <2>1 DEF Init, MaxIsEnd, Sized
<1>2. TypeOK /\ Coherent /\ BehindHeader /\ Sized => PlaysSamples
  <2> SUFFICES ASSUME TypeOK, Coherent, BehindHeader, Sized, intact,
                      NEW x \in 1 .. Len(dac)
               PROVE  \E k \in 1 .. Len(File[playing]) :
                          /\ File[playing][k].ID = "data"
                          /\ dac[x][2] >= ChunkOffset(File[playing], k)
                                              + ChunkBytes
      BY DEF PlaysSamples
  <2>1. dac # << >> BY DEF TypeOK
  <2>2. playing \in Songs /\ size[playing] # 0 BY <2>1 DEF Coherent, Sized
  <2>3. dac[x][2] >= offset[playing] BY DEF BehindHeader
  <2> QED BY <2>2, <2>3, SamplesIn, SongsAssumption
<1>3. TypeOK /\ Positions /\ Coherent /\ [Next]_vars => Coherent' BY StepInv
<1> QED BY <1>1, <1>2, <1>3, SizedStep, Invariant, OnlySamples, PTL DEF Spec
-----------------------------------------------------------------------------
\* What the player asks of the file.

\* The handle stands where a sector begins, unless all that will be played has
\* been read.
SeekAtSector ==
    (\E k \in Nat : seek = k * Buf) \/ uWaveReadPos >= uWaveMaxPlayPos

LEMMA SeekStep ==
    TypeOK /\ Positions /\ SeekAtSector /\ [Next]_vars => SeekAtSector'
<1> SUFFICES ASSUME TypeOK, Positions, SeekAtSector, [Next]_vars
             PROVE  SeekAtSector'
    OBVIOUS
<1>1. ASSUME NEW t \in Songs, NEW ok \in BOOLEAN, waveplay_start(t, ok)
      PROVE  SeekAtSector'
  <2>1. seek' = 0 * Buf \/ seek' = 1 * Buf BY <1>1, Sizes DEF waveplay_start
  <2> QED BY <2>1 DEF SeekAtSector
<1>2. CASE Start BY <1>1, <1>2 DEF Start, TypeOK
<1>3. CASE Relist BY <1>1, <1>3 DEF Relist
<1>4. CASE ExecuteRestart BY <1>1, <1>4 DEF ExecuteRestart, TypeOK
<1>5. CASE ExecuteBuffered
      BY <1>5 DEF ExecuteBuffered, fileVars, SeekAtSector
<1>6. CASE ExecuteRefill
  <2>1. /\ uWavePlayPos < uWaveMaxPlayPos /\ uWavePlayPos >= uWaveReadPos
        /\ seek' = seek + ReadSize /\ uWaveReadPos' = uWaveReadPos + ReadSize
        /\ uWaveMaxPlayPos' = uWaveMaxPlayPos
        BY <1>6 DEF ExecuteRefill, Fat_FileRead
  <2>2. PICK k \in Nat : seek = k * Buf
        BY <2>1 DEF SeekAtSector, TypeOK
  <2>3. ReadSize = Buf \/ uWaveReadPos + ReadSize = uWaveMaxPlayPos
        BY <2>1, RefillAt
  <2>4. CASE ReadSize = Buf
    <3>1. seek' = (k + 1) * Buf /\ k + 1 \in Nat BY <2>1, <2>2, <2>4, Sizes
    <3> QED BY <3>1 DEF SeekAtSector
  <2>5. CASE uWaveReadPos + ReadSize = uWaveMaxPlayPos
        BY <2>1, <2>5 DEF SeekAtSector, TypeOK
  <2> QED BY <2>3, <2>4, <2>5
<1>7. CASE ExecuteFail
      BY <1>7 DEF ExecuteFail, Fat_FileRead, posVars, SeekAtSector
<1>8. CASE UNCHANGED vars BY <1>8 DEF vars, fileVars, posVars, SeekAtSector
<1> QED BY <1>2, <1>3, <1>4, <1>5, <1>6, <1>7, <1>8
        DEF Next, waveplay_execute

\* A refill asks for one sector, or the beginning of one, from where a sector
\* begins: waveplay_execute reads as SectorRead of FatFile does, also after
\* failed starts, failed refills and songs of any size (audio_f.c:222-226).
RefillsBySectors ==
    uWavePlayPos < uWaveMaxPlayPos /\ uWavePlayPos >= uWaveReadPos =>
        seek % Buf = 0 /\ ReadSize \in 1 .. Buf

\* So the player never asks across the end of a sector, which is what makes a
\* read of it succeed or fail as a whole.
THEOREM ReadsBySectors == Spec => []RefillsBySectors
<1>1. Init => SeekAtSector
  <2>1. Init => seek = 0 * Buf BY Sizes DEF Init
  <2> QED BY <2>1 DEF SeekAtSector
<1>2. TypeOK /\ Positions /\ SeekAtSector => RefillsBySectors
  <2> SUFFICES ASSUME TypeOK, Positions, SeekAtSector,
                      uWavePlayPos < uWaveMaxPlayPos, uWavePlayPos >= uWaveReadPos
               PROVE  seek % Buf = 0 /\ ReadSize \in 1 .. Buf
      BY DEF RefillsBySectors
  <2>1. PICK k \in Nat : seek = k * Buf BY DEF SeekAtSector, TypeOK
  <2>2. k * Buf \in Nat /\ (k + 1) * Buf = k * Buf + Buf BY Sizes
  <2>3. seek % Buf = 0 BY <2>1, <2>2, BlockPosition, Sizes
  <2> QED BY <2>3, RefillAt
<1> QED BY <1>1, <1>2, SeekStep, Invariant, PTL DEF Spec
=============================================================================
