------------------------- MODULE MCReservationStore -------------------------
(* ReservationStore on a small instance; ids are interchangeable. *)
EXTENDS ReservationStore, TLC

IdSymmetry ==
    Permutations(Reservation) \union Permutations(Position)
        \union Permutations(Candidate)

=============================================================================
