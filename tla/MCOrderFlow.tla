----------------------------- MODULE MCOrderFlow -----------------------------
(***************************************************************************)
(* OrderFlow with interchangeable scans.                                   *)
(***************************************************************************)
EXTENDS OrderFlow
=============================================================================
