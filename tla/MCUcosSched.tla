---------------------------- MODULE MCUcosSched -----------------------------
(***************************************************************************)
(* The priorities of the application and of the idle task, which lie in    *)
(* three rows of the ready table, and one control block too few.           *)
(***************************************************************************)
EXTENDS UcosSched

MCPrios == {4, 6, 8, 12, 20}
=============================================================================
