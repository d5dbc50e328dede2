----------------------------- MODULE WavePlayer ------------------------------
(***************************************************************************)
(* One slot of gWavePlay (audio_f.h:41-54) and the calls that play it:     *)
(* waveplay_start opens the file of the slot and reads its first sector,   *)
(* waveplay_execute sends what is buffered to the codec, refilling the     *)
(* buffer when it is used up and starting again at the end of the song.    *)
(* The buffer holds one sector; three positions in the file say what of it *)
(* is still to be played.  A byte is modelled by the place it comes from,  *)
(* so that it shows whether the samples sent are the right ones.           *)
(***************************************************************************)
EXTENDS Integers, Sequences

CONSTANTS
    Songs,          \* the songs that may be in the slot, each of a file whose
                    \* first cluster a handle knows (Promised in FatFile)
    offset,         \* Wave_GetWaveOffset of each song's first sector
    size,           \* Wave_GetDataByteSize of it
    Buf,            \* WAVE_BUF_SIZE: 512 bytes
    Frame,          \* bytes of one stereo sample: 4
    ClusterSize,    \* bytes of a cluster of the volume
    NoFile,         \* the null handle
    Foreign         \* what a handle gone astray leads to: bytes of any place

ASSUME PlayerAssumption ==
    /\ NoFile \notin Songs /\ Foreign \notin Songs /\ NoFile # Foreign
    /\ Buf \in Nat \ {0} /\ Frame \in Nat \ {0} /\ ClusterSize \in Nat \ {0}
    /\ Buf % Frame = 0
    /\ offset \in [Songs -> 0 .. Buf]
    /\ size \in [Songs -> Nat]

VARIABLES
    song,           \* the song whose file name the slot holds: szFilename
    hFile,          \* the file whose clusters the open handle walks through
    seek,           \* its SeekPos
    szBuf,          \* the place in the file of each buffered byte
    uWavePlayPos, uWaveReadPos, uWaveMaxPlayPos,
    playing,        \* the song whose header the positions were taken from
    call, result,   \* the last call and what it returned
    fault,          \* whether opening or reading failed in it
    dac,            \* the bytes it sent to the codec
    intact          \* no fault broke the stream since the last good start

fileVars == <<hFile, seek, szBuf>>
posVars == <<uWavePlayPos, uWaveReadPos, uWaveMaxPlayPos, playing>>
vars == <<song, fileVars, posVars, call, result, fault, dac, intact>>

Indices == 0 .. Buf - 1
Bytes == (Songs \cup {NoFile, Foreign}) \X Nat
End(s) == offset[s] + size[s]

TypeOK ==
    /\ song \in Songs
    /\ hFile \in Songs \cup {NoFile, Foreign} /\ seek \in Nat
    /\ szBuf \in [Indices -> Bytes]
    /\ uWavePlayPos \in Nat /\ uWaveReadPos \in Nat
    /\ uWaveMaxPlayPos \in Nat
    /\ playing \in Songs \cup {NoFile}
    /\ call \in {"none", "start", "execute"} /\ result \in BOOLEAN
    /\ fault \in BOOLEAN /\ intact \in BOOLEAN
    /\ dac \in Seq(Bytes)

-----------------------------------------------------------------------------
\* The buffer after n bytes of file f have been read from a position on.
Filled(f, from, n) ==
    [x \in Indices |-> IF x < n THEN <<f, from + x>> ELSE szBuf[x]]

\* Fat_FileRead of n bytes, which the caller never asks across the end of a
\* sector, so that it succeeds or fails as a whole.  A failure leaves the handle
\* behind its position, counted on into clusters of its own making.  To enter a
\* new cluster the next one is looked up in the allocation table; when that
\* sector cannot be read the handle may go astray and the read still succeed.
Fat_FileRead(n, ok) ==
    /\ \/ /\ ok /\ hFile # NoFile
          /\ \/ hFile' = hFile
             \/ seek > 0 /\ seek % ClusterSize = 0 /\ hFile' = Foreign
       \/ ~ok /\ hFile' = IF hFile = NoFile THEN NoFile ELSE Foreign
    /\ seek' = IF ok THEN seek + n ELSE seek
    /\ szBuf' = IF ok THEN Filled(hFile', seek, n) ELSE szBuf
    /\ fault' = (~ok \/ hFile' # hFile)

\* The header of s is in the buffer as far as the chunk walk looks at it: to
\* the beginning of the samples or, when it finds none, to the end.
Header(s) == IF offset[s] = 0 THEN Buf ELSE offset[s]
HeaderBuffered(s) == \A x \in Indices : x < Header(s) => szBuf[x] = <<s, x>>

\* Mutation: the first refill is expected a whole buffer after the header.
SetPositionsLate(s) ==
    /\ uWavePlayPos' = offset[s]
    /\ uWaveMaxPlayPos' = End(s)
    /\ uWaveReadPos' = offset[s] + Buf
    /\ playing' = s

\* The positions waveplay_start takes from the header (audio_f.c:176-178).
SetPositions(s) ==
    /\ uWavePlayPos' = offset[s]
    /\ uWaveMaxPlayPos' = End(s)
    /\ uWaveReadPos' = Buf
    /\ playing' = s

\* waveplay_start of song s.  When the file cannot be opened bSuccess was never
\* assigned: if it happens to be true, the header is looked for in what the
\* buffer still holds.
waveplay_start(s, ok) ==
    /\ dac' = << >>
    /\ \/ /\ hFile' = s /\ seek' = Buf
          /\ szBuf' = Filled(s, 0, Buf)
          /\ SetPositions(s)
          /\ ok /\ intact' = TRUE /\ fault' = FALSE
       \/ /\ hFile' = Foreign /\ seek' = 0
          /\ UNCHANGED <<szBuf, posVars>>
          /\ ~ok /\ intact' = FALSE /\ fault' = TRUE
       \/ /\ hFile' = NoFile /\ seek' = 0
          /\ fault' = TRUE
          /\ UNCHANGED szBuf
          /\ \/ ~ok /\ UNCHANGED <<posVars, intact>>
             \/ \E t \in Songs :
                  /\ HeaderBuffered(t)
                  /\ SetPositions(t)
                  /\ ok /\ intact' = (szBuf = Filled(t, 0, Buf))

\* A call by TaskKeyHandler when a button is touched.
Start ==
    /\ call' = "start"
    /\ \E ok \in BOOLEAN : waveplay_start(song, ok) /\ result' = ok
    /\ UNCHANGED song

\* build_wave_play_list gives the slot a file of the card just mounted.
Relist ==
    /\ call' = "start"
    /\ \E s \in Songs, ok \in BOOLEAN :
         waveplay_start(s, ok) /\ song' = s /\ result' = ok

-----------------------------------------------------------------------------
\* Mutation: the length of the song is forgotten.
ReadSizeFull == Buf

\* What is asked of the file when the buffer is used up.
ReadSize ==
    IF Buf > uWaveMaxPlayPos - uWavePlayPos
    THEN uWaveMaxPlayPos - uWavePlayPos ELSE Buf

\* Mutation: the last frame of the buffer is left unplayed.
WholeFramesButOne(n) == ((n - 1) \div Frame) * Frame

\* Only whole frames are sent.
WholeFrames(n) == (n \div Frame) * Frame

\* Mutation: playing begins at the head of the buffer.
SendFromHead(b, readPos) ==
    LET n == WholeFrames(readPos - uWavePlayPos) IN
    /\ dac' = [k \in 1 .. n |-> b[k - 1]]
    /\ uWavePlayPos' = uWavePlayPos + n

\* The samples of buffer b from uWavePlayPos to readPos are sent.
Send(b, readPos) ==
    LET n == WholeFrames(readPos - uWavePlayPos) IN
    /\ dac' = [k \in 1 .. n |-> b[(uWavePlayPos % Buf) + (k - 1)]]
    /\ uWavePlayPos' = uWavePlayPos + n

ExecuteFrame == call' = "execute" /\ UNCHANGED song

\* The song is at its end: whether it could be started again is not told.
ExecuteRestart ==
    /\ uWavePlayPos >= uWaveMaxPlayPos
    /\ \E ok \in BOOLEAN : waveplay_start(song, ok)
    /\ result' = TRUE
    /\ ExecuteFrame

\* Something is buffered.
ExecuteBuffered ==
    /\ uWavePlayPos < uWaveMaxPlayPos /\ uWavePlayPos < uWaveReadPos
    /\ Send(szBuf, uWaveReadPos)
    /\ result' = TRUE /\ fault' = FALSE
    /\ ExecuteFrame
    /\ UNCHANGED <<fileVars, uWaveReadPos, uWaveMaxPlayPos, playing, intact>>

\* The buffer is refilled first.
ExecuteRefill ==
    /\ uWavePlayPos < uWaveMaxPlayPos /\ uWavePlayPos >= uWaveReadPos
    /\ Fat_FileRead(ReadSize, TRUE)
    /\ uWaveReadPos' = uWaveReadPos + ReadSize
    /\ Send(szBuf', uWaveReadPos')
    /\ result' = TRUE
    /\ intact' = (intact /\ ~fault')
    /\ ExecuteFrame
    /\ UNCHANGED <<uWaveMaxPlayPos, playing>>

\* The buffer cannot be refilled.
ExecuteFail ==
    /\ uWavePlayPos < uWaveMaxPlayPos /\ uWavePlayPos >= uWaveReadPos
    /\ Fat_FileRead(ReadSize, FALSE)
    /\ dac' = << >>
    /\ result' = FALSE
    /\ intact' = (intact /\ hFile' = hFile)
    /\ ExecuteFrame
    /\ UNCHANGED posVars

waveplay_execute ==
    ExecuteRestart \/ ExecuteBuffered \/ ExecuteRefill \/ ExecuteFail

Init ==
    /\ song \in Songs
    /\ hFile = NoFile /\ seek = 0
    /\ szBuf = [x \in Indices |-> <<NoFile, 0>>]
    /\ uWavePlayPos = 0 /\ uWaveReadPos = 0 /\ uWaveMaxPlayPos = 0
    /\ playing = NoFile
    /\ call = "none" /\ result = TRUE /\ fault = FALSE
    /\ dac = << >> /\ intact = FALSE

Next == Start \/ Relist \/ waveplay_execute

Spec == Init /\ [][Next]_vars

\* The loop of TaskKeyHandler calls waveplay_execute as long as the finger
\* stays down; nothing is assumed of the card.
FairSpec == Spec /\ WF_vars(waveplay_execute)

-----------------------------------------------------------------------------
\* The samples still to be played lie within the buffer: pSample, set from
\* uWavePlayPos and advanced to uWaveReadPos (audio_f.c:237-250), never leaves
\* szBuf, though the two positions also count the header and the short last
\* sector.
InBuffer ==
    uWavePlayPos < uWaveReadPos =>
        (uWavePlayPos % Buf) + (uWaveReadPos - uWavePlayPos) <= Buf

\* Nothing behind the samples is played (audio_f.c:224-225), but for a song so
\* short that it ends within the first sector, which is played to its end.
NothingPastEnd ==
    uWavePlayPos <= uWaveMaxPlayPos \/ uWavePlayPos <= Buf

\* The sound of the slot is a stream of samples of one song that only a fault
\* of the card breaks, across refills, failed refills, restarts, failed
\* restarts and new lists.
Heard == INSTANCE SongStream WITH
    song <- playing, pos <- uWavePlayPos, sent <- dac
PlaysStream == Heard!Stream

InWholeFrames(s) ==
    s \in Songs => offset[s] % Frame = 0 /\ size[s] % Frame = 0

\* The position up to which samples will be buffered when the next call sends
\* them.
NextReadPos ==
    IF uWavePlayPos < uWaveReadPos THEN uWaveReadPos ELSE uWaveReadPos + ReadSize

\* Before its end a song of whole frames always has a frame left to send,
\* wherever sectors, header and song end, so that no call reports success and
\* sends nothing (audio_f.c:219-252): the rounding of play_size never
\* comes to zero.
FrameToSend ==
    InWholeFrames(playing) /\ uWavePlayPos < uWaveMaxPlayPos =>
        WholeFrames(NextReadPos - uWavePlayPos) > 0

\* A song of whole frames that goes on being played reaches its end again and
\* again, unless the card fails the player or the user starts it anew: it is
\* never stuck (audio_f.c:219-252).
SongEnds ==
    []<>(\/ uWavePlayPos >= uWaveMaxPlayPos
         \/ call = "start"
         \/ ~result
         \/ ~InWholeFrames(playing))
=============================================================================
