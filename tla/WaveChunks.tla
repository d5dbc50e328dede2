----------------------------- MODULE WaveChunks ------------------------------
(***************************************************************************)
(* The walk over the chunks of a wave file (WaveLib.c).  It only sees the  *)
(* first nSize bytes of the file; what lies in memory behind them is not   *)
(* of the file, but looked at once.  Files are sequences of chunks         *)
(* [ID, Size], at least as long as what is read of them.                   *)
(***************************************************************************)
EXTENDS Naturals, Sequences, SequencesExt

CONSTANTS
    HeaderBytes,    \* sizeof(WAVE_HEADER): 12
    ChunkBytes      \* sizeof(CHUNK): 8

ASSUME ChunksAssumption == HeaderBytes \in Nat \ {0} /\ ChunkBytes \in Nat \ {0}

\* Where the k-th chunk of a file begins, or the file ends.
ChunkOffset(file, k) ==
    FoldLeft(LAMBDA sum, c : sum + ChunkBytes + c.Size, HeaderBytes,
             SubSeq(file, 1, k - 1))

\* The chunk with this ID; 0 if the walk leaves the nSize bytes before it has
\* come to one.  The walk stops at the first chunk head with the ID or behind
\* the nSize bytes, where the ID is still looked at.
waveGetChunkOffset(file, behind, nSize, ID) ==
    LET nOffset(k) == ChunkOffset(file, k)
        IDat(k) == IF nOffset(k) < nSize THEN file[k].ID ELSE behind
        Stops(k) == IDat(k) = ID \/ ~(nOffset(k) < nSize)
        stop == CHOOSE k \in 1 .. Len(file) + 1 :
                    Stops(k) /\ \A j \in 1 .. k - 1 : ~Stops(j)
    IN  IF IDat(stop) = ID THEN nOffset(stop) ELSE 0

\* Mutation: the head of the chunk is taken for samples.
Wave_GetHeadOffset(file, behind, nSize) ==
    waveGetChunkOffset(file, behind, nSize, "data")

\* The samples: where they begin and how many bytes they are.
Wave_GetWaveOffset(file, behind, nSize) ==
    LET nOffset == waveGetChunkOffset(file, behind, nSize, "data")
    IN  IF nOffset = 0 THEN 0 ELSE nOffset + ChunkBytes

Wave_GetDataByteSize(file, behind, nSize) ==
    LET nOffset == waveGetChunkOffset(file, behind, nSize, "data")
        k == CHOOSE k \in 1 .. Len(file) : ChunkOffset(file, k) = nOffset
    IN  IF nOffset = 0 THEN 0 ELSE file[k].Size
=============================================================================
