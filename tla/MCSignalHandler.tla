--------------------------- MODULE MCSignalHandler ---------------------------
(***************************************************************************)
(* SignalHandler with two threads.  A button pressed twice shows that a    *)
(* signal does not nest in its own handler and that toggles compose.       *)
(***************************************************************************)
EXTENDS SignalHandler

CONSTANTS main, worker

MCThread == {main, worker}
MCSent == [s \in Sig |-> IF s = "SIG_PROBUT" THEN 2 ELSE 1]
=============================================================================
