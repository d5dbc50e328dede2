------------------------------ MODULE WaveSongs ------------------------------
(***************************************************************************)
(* A slot of gWavePlay with the songs it plays: where the samples of a     *)
(* song begin and how many they are is what the walk over its chunks finds *)
(* in the first sector (waveplay_start, audio_f.c:172-178).                *)
(***************************************************************************)
EXTENDS WavePlayer, WaveChunks

CONSTANTS
    File,       \* the chunks of each song
    Behind      \* what the walk reads of memory that is not of the buffer

\* A file fills the sector that is read of it, and the memory behind the buffer
\* does not happen to read as the head of a data chunk.
ASSUME SongsAssumption ==
    /\ File \in [Songs -> Seq([ID : STRING, Size : Nat])]
    /\ \A s \in Songs : ~(ChunkOffset(File[s], Len(File[s]) + 1) < Buf)
    /\ Behind # "data"
    /\ offset = [s \in Songs |-> Wave_GetWaveOffset(File[s], Behind, Buf)]
    /\ size = [s \in Songs |-> Wave_GetDataByteSize(File[s], Behind, Buf)]

\* As long as no fault has broken the stream only samples are sent to the
\* codec, never a byte of a chunk's head or of another chunk before the
\* samples, whichever song's header the positions were taken from
\* (audio_f.c:172-178, 240-247).
PlaysSamples ==
    intact => \A x \in 1 .. Len(dac) :
        \E k \in 1 .. Len(File[playing]) :
            /\ File[playing][k].ID = "data"
            /\ dac[x][2] >= ChunkOffset(File[playing], k) + ChunkBytes
=============================================================================
