------------------------------ MODULE MCI2CBus -------------------------------
(***************************************************************************)
(* A small instance of I2CBus for TLC: bytes of two bits, and the calls of *)
(* AUDIO.c that two tasks make.  The task of priority 4 restarts the       *)
(* interface, as waveplay_start does: off and on, whatever fails.  The     *)
(* task of priority 8 does the same, or writes both volume registers and   *)
(* stops at a failure.                                                     *)
(***************************************************************************)
EXTENDS I2CBus

W(c, d) == [control |-> c, data |-> d]

MCDevice == <<1, 0>>
MCVolume == [writes |-> <<W(<<0, 0>>, <<1, 0>>), W(<<0, 1>>, <<1, 0>>)>>, strict |-> TRUE]
MCInterface == [writes |-> <<W(<<1, 1>>, <<0, 0>>), W(<<1, 1>>, <<0, 1>>)>>,
                strict |-> FALSE]
MCCalls == [t \in {4, 8} |-> IF t = 4 THEN {MCInterface} ELSE {MCVolume, MCInterface}]
=============================================================================
