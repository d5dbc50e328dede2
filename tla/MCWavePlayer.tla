---------------------------- MODULE MCWavePlayer -----------------------------
(* Songs of a few bytes for TLC. *)
EXTENDS WaveSongs

CONSTANTS Long, Partial, Tiny, Silent, Odd

C(id, n) == [ID |-> id, Size |-> n]

\* Two sectors and a whole last one, a part of a sector at the end, less than
\* one sector, no samples found in the first sector, a header that does not
\* end on a frame.
MCFile ==
    [s \in Songs |->
        CASE s = Long    -> <<C("fmt", 1), C("data", 20)>>
          [] s = Partial -> <<C("fmt", 1), C("data", 16)>>
          [] s = Tiny    -> <<C("fmt", 1), C("data", 2), C("LIST", 4)>>
          [] s = Silent  -> <<C("LIST", 5), C("fmt", 1), C("data", 20)>>
          [] s = Odd     -> <<C("fmt", 3), C("data", 12)>>]

MCOffset == [s \in Songs |-> Wave_GetWaveOffset(MCFile[s], "LIST", Buf)]
MCSize == [s \in Songs |-> Wave_GetDataByteSize(MCFile[s], "LIST", Buf)]
=============================================================================
