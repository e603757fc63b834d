------------------------------ MODULE MCRxRing ------------------------------
(***************************************************************************)
(* The receive ring with three slots and counters that wrap after six, so  *)
(* that the ring fills and both counters wrap in every run.                *)
(***************************************************************************)
EXTENDS RxRing

CONSTANTS a, b, bad, none

MCFrames == {a, b, bad}
MCInvalid == {bad}
MCFields == {"meta", "data"}
=============================================================================
