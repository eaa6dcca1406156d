--------------------------- MODULE MCBarrierScans ---------------------------
(* BarrierScans on a small instance: one candidate trades EUR, the other GBP,
   so that two scans share a symbol and a candidate or neither. *)
EXTENDS BarrierScans, TLC

CONSTANTS eur, gbp, c1, c2

MCSymbolOf == c1 :> eur @@ c2 :> gbp

=============================================================================
