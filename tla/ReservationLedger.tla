-------------------------- MODULE ReservationLedger --------------------------
(***************************************************************************)
(* What the reservation store promises its callers, without statements,    *)
(* audit rows, caches or failures: every reservation is created once and   *)
(* then moves one edge of the lifecycle at a time, and the broker position *)
(* bound when the reservation is promoted stays bound.                     *)
(* ReservationStore.tla implements this specification.                     *)
(***************************************************************************)
EXTENDS ReservationStates

CONSTANTS Reservation,   \* reservation ids
          Position,      \* broker position ids
          NoPosition     \* broker_pos_id IS NULL

VARIABLES status,        \* status[r]: where reservation r is in its life
          position       \* position[r]: the broker position bound to r

vars == <<status, position>>

TypeOK ==
    /\ status \in [Reservation -> RowState]
    /\ position \in [Reservation -> Position \union {NoPosition}]

Init ==
    /\ status = [r \in Reservation |-> "ABSENT"]
    /\ position = [r \in Reservation |-> NoPosition]

Create(r) ==
    /\ status[r] = "ABSENT"
    /\ \E s \in InitialStates : status' = [status EXCEPT ![r] = s]
    /\ UNCHANGED position

\* A fill promotes a pending reservation and binds the broker's position.
Promote(r, p) ==
    /\ status[r] = "PENDING"
    /\ status' = [status EXCEPT ![r] = "OPEN"]
    /\ position' = [position EXCEPT ![r] = p]

\* Every other move keeps the binding.
Move(r, t) ==
    /\ t \in ValidTargets(status[r])
    /\ status' = [status EXCEPT ![r] = t]
    /\ UNCHANGED position

Next ==
    \E r \in Reservation :
        \/ Create(r)
        \/ \E p \in Position : Promote(r, p)
        \/ \E t \in ReservationState : Move(r, t)

Spec == Init /\ [][Next]_vars

=============================================================================
