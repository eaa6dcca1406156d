---------------------------- MODULE MCReadiness ----------------------------
(***************************************************************************)
(* Readiness with one tick in the gap, and warm-ups of two sizes, both     *)
(* longer than all that is bridged.                                        *)
(***************************************************************************)
EXTENDS Readiness
=============================================================================
