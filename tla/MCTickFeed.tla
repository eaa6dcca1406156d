------------------------------ MODULE MCTickFeed ------------------------------
(***************************************************************************)
(* TickFeed with a batch longer than a bar, one retry, and a bar table that *)
(* is pruned to one row at every second append.                            *)
(***************************************************************************)
EXTENDS TickFeed
=============================================================================
