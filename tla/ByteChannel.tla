----------------------------- MODULE ByteChannel -----------------------------
(***************************************************************************)
(* What a buffered character device promises its two ends, whichever of    *)
(* them is the interrupt handler: what is taken out is what was put in, in *)
(* that order, nothing twice and nothing left out, and never more than     *)
(* Capacity is under way.                                                  *)
(***************************************************************************)
EXTENDS Naturals, Sequences, SequencesExt

CONSTANTS Bytes, Capacity

VARIABLES put, got

chanVars == <<put, got>>

Init == put = <<>> /\ got = <<>>

Put ==
    /\ put' \in Seq(Bytes)
    /\ IsStrictPrefix(put, put')
    /\ Len(put') - Len(got) <= Capacity
    /\ UNCHANGED got

Get ==
    /\ got' \in Seq(Bytes)
    /\ IsStrictPrefix(got, got') /\ IsPrefix(got', put)
    /\ UNCHANGED put

Next == Put \/ Get

Spec == Init /\ [][Next]_chanVars
=============================================================================
