----------------------------- MODULE SongStream ------------------------------
(***************************************************************************)
(* What the playback of one song promises to the ear, whatever buffers and *)
(* positions it keeps: the samples that one call after another hands to    *)
(* the codec are the samples of one song, in order, none left out and none *)
(* twice.  Only a call that meets a fault of the card may break the        *)
(* stream, and only a restart mends it.                                    *)
(***************************************************************************)
EXTENDS Naturals, Sequences

CONSTANTS
    Songs,
    offset      \* where the samples of a song begin in its file

VARIABLES
    song,       \* the song that is played
    pos,        \* the position in its file of the next sample
    sent,       \* the bytes the last call sent: <<song, position>> each
    fault,      \* the last call met a fault of the card
    intact      \* the stream is unbroken since the last restart

streamVars == <<song, pos, sent, fault, intact>>

StreamInit == ~intact /\ sent = << >>

\* A song starts from its first sample.
Restart ==
    /\ song' \in Songs
    /\ pos' = offset[song']
    /\ sent' = << >>
    /\ intact'

\* The next samples of the song are sent.
Play ==
    /\ intact /\ intact'
    /\ song' = song
    /\ pos' >= pos
    /\ sent' = [k \in 1 .. pos' - pos |-> <<song, pos + k - 1>>]

\* A call that meets a fault breaks the stream.
Break == fault' /\ ~intact'

\* What a broken stream sends is noise.
Noise == ~intact /\ ~intact'

StreamNext == Restart \/ Play \/ Break \/ Noise

Stream == StreamInit /\ [][StreamNext]_streamVars
=============================================================================
