------------------------------ MODULE MCFatDir -------------------------------
(***************************************************************************)
(* Every directory of up to MaxLen entries, well formed or not, for TLC.   *)
(***************************************************************************)
EXTENDS FatDir

L(o, p) == [kind |-> "long", ord |-> o, piece |-> p]
S(nm, plain, wave) == [kind |-> "short", name |-> nm, plain |-> plain, wave |-> wave]

\* Pieces in any order, wave files and others with names of both kinds, the
\* label of the volume, and a deleted entry.
MCEntries ==
    {L(1, ".wav"), L(1, "a"), L(2, "a"), L(2, ".wav"),
     S("S.WAV", TRUE, TRUE), S("S.WAV", TRUE, FALSE), S("T", TRUE, TRUE),
     S("VOLUME", FALSE, FALSE), [kind |-> "skip"]}

CONSTANT MaxLen \* bound: entries of the directory
MCDirectories ==
    UNION {{d \o <<[kind |-> "last"]>> : d \in [1 .. n -> MCEntries]} : n \in 0 .. MaxLen}
=============================================================================
