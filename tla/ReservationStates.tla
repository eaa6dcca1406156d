------------------------- MODULE ReservationStates -------------------------
(***************************************************************************)
(* The lifecycle of an account-risk reservation as constant data: the      *)
(* tables of ReservationStateMachine.  "ABSENT" stands for a reservation   *)
(* id that no row carries yet.                                             *)
(***************************************************************************)

ActiveStates == {"PENDING", "OPEN"}
TerminalStates == {"CLOSED", "RELEASED", "EXPIRED"}
ReservationState == ActiveStates \union TerminalStates
RowState == ReservationState \union {"ABSENT"}

\* Mutant of InitialStates: validate_initial does not normalise its argument.
InitialStatesRaw == {"PENDING", "OPEN", "pending"}

\* VALID_INITIAL_STATES
InitialStates == {"PENDING", "OPEN"}

\* VALID_TRANSITIONS: the targets that validate_transition accepts.
ValidTargets(s) ==
    CASE s = "PENDING" -> {"OPEN", "RELEASED", "EXPIRED"}
      [] s = "OPEN"    -> {"CLOSED", "RELEASED"}
      [] OTHER         -> {}

=============================================================================
