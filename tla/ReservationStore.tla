-------------------------- MODULE ReservationStore --------------------------
(***************************************************************************)
(* The reservation API of StateManager (runtime/state.py) and of its twin  *)
(* runtime/reservation_store.py, one SQL statement per step.               *)
(*                                                                         *)
(* A reservation lives in three places: its row in                         *)
(* account_risk_reservations, its events in the audit table, and its       *)
(* lifecycle object in the in-memory cache.  A transition writes the audit *)
(* event, then the row, then the cache; every statement commits by itself. *)
(* The handlers never await inside a call, so calls do not interleave,     *)
(* but a statement may raise (the rest of the call is abandoned) and the   *)
(* process may die (the cache is lost, the database is reopened).          *)
(*                                                                         *)
(* A call that selects no row returns at once and changes nothing: it is a *)
(* stuttering step.                                                        *)
(***************************************************************************)
EXTENDS Integers, Sequences, ReservationStates

CONSTANTS Reservation,  \* uuids
          Position,     \* broker position ids
          Candidate,    \* candidate_uid values
          Book,         \* (symbol, family) pairs, two more equality columns
          Null,         \* None, NULL, an argument left out
          MaxFaults     \* bound on failing statements and crashes

ASSUME NullIsNoValue ==
    /\ Null \notin Reservation \union Position \union Candidate \union Book
    /\ Null \notin Nat
ASSUME MaxFaultsIsNat == MaxFaults \in Nat

VARIABLES
    row,      \* account_risk_reservations, by reservation_id
    audit,    \* account_risk_reservation_audit, by reservation_id
    cache,    \* _lifecycle_cache: current_state, "ABSENT" when not cached
    call,     \* the API call in progress
    now,      \* the clock that stamps created_ts
    faults    \* failing statements and crashes so far

vars == <<row, audit, cache, call, now, faults>>

-----------------------------------------------------------------------------
(* Rows, events, calls *)

Row == [status: RowState, pos: Position \union {Null},
        cand: Candidate \union {Null}, book: Book \union {Null}, created: Nat]
NoRow == [status |-> "ABSENT", pos |-> Null, cand |-> Null, book |-> Null,
          created |-> 0]

Event == [from: RowState, to: ReservationState]

\* The arguments that end up in a WHERE clause; Null is an argument left out.
Filter == [rid: Reservation \union {Null}, pos: Position \union {Null},
           cand: Candidate \union {Null}, book: Book \union {Null},
           before: Nat \union {Null}]
NoFilter == [rid |-> Null, pos |-> Null, cand |-> Null, book |-> Null,
             before |-> Null]

Op == {"none", "create", "promote", "release", "expire", "transition"}
Step == {"idle", "audit", "row", "cache"}

\* todo: selected rows not yet processed; rid: the row being processed.
Call == [op: Op, step: Step, filter: Filter, todo: SUBSET Reservation,
         rid: Reservation \union {Null}, target: RowState,
         pos: Position \union {Null}]
Idle == [op |-> "none", step |-> "idle", filter |-> NoFilter, todo |-> {},
         rid |-> Null, target |-> "ABSENT", pos |-> Null]

Begin(op, f, S, t, p) ==
    [Idle EXCEPT !.op = op, !.step = "audit", !.filter = f, !.todo = S,
                 !.target = t, !.pos = p]

Last(s) == s[Len(s)]

TypeOK ==
    /\ row \in [Reservation -> Row]
    /\ audit \in [Reservation -> Seq(Event)]
    /\ cache \in [Reservation -> RowState]
    /\ call \in Call
    /\ now \in Nat
    /\ faults \in Nat

-----------------------------------------------------------------------------
(* The WHERE clauses *)

Matches(r, f) ==
    /\ f.rid \in {Null, r}
    /\ f.pos \in {Null, row[r].pos}
    /\ f.cand \in {Null, row[r].cand}
    /\ f.book \in {Null, row[r].book}
    /\ f.before # Null => row[r].created < f.before

\* Mutant of Releasable: the status list forgets the rows already promoted.
ReleasablePendingOnly(f) ==
    {r \in Reservation : row[r].status = "PENDING" /\ Matches(r, f)}

\* release: status IN ('PENDING', 'OPEN') and every given column equal.
Releasable(f) ==
    {r \in Reservation : row[r].status \in ActiveStates /\ Matches(r, f)}

\* Mutant of Pending: the status list of release.
PendingOrOpen(f) ==
    {r \in Reservation : row[r].status \in ActiveStates /\ Matches(r, f)}

\* promote, expire: status = 'PENDING'.
Pending(f) ==
    {r \in Reservation : row[r].status = "PENDING" /\ Matches(r, f)}

\* ORDER BY created_ts ASC LIMIT 1
Oldest(S) ==
    {r \in S : \A q \in S : row[r].created <= row[q].created}

-----------------------------------------------------------------------------
Init ==
    /\ row = [r \in Reservation |-> NoRow]
    /\ audit = [r \in Reservation |-> <<>>]
    /\ cache = [r \in Reservation |-> "ABSENT"]
    /\ call = Idle
    /\ now = 0
    /\ faults = 0

(* create_account_risk_reservation: the row, its creation event, the cache. *)

StartCreate(r, s, c, b) ==
    /\ call = Idle
    /\ row[r].status = "ABSENT"
    /\ s \in InitialStates
    /\ row' = [row EXCEPT ![r] = [status |-> s, pos |-> Null, cand |-> c,
                                  book |-> b, created |-> now]]
    /\ now' = now + 1
    /\ call' = [Begin("create", NoFilter, {}, s, Null) EXCEPT !.rid = r]
    /\ UNCHANGED <<audit, cache, faults>>

AuditCreation ==
    /\ call.op = "create" /\ call.step = "audit"
    /\ audit' = [audit EXCEPT ![call.rid] =
                    Append(@, [from |-> "ABSENT", to |-> call.target])]
    /\ call' = [call EXCEPT !.step = "cache"]
    /\ UNCHANGED <<row, cache, now, faults>>

CacheCreation ==
    /\ call.op = "create" /\ call.step = "cache"
    /\ cache' = [cache EXCEPT ![call.rid] = call.target]
    /\ call' = Idle
    /\ UNCHANGED <<row, audit, now, faults>>

(* promote: by reservation id when one is given, else the candidate's oldest
   pending row, narrowed by symbol and family. *)
StartPromote(f, p) ==
    /\ call = Idle
    /\ \E r \in Oldest(Pending(f)) :
          call' = Begin("promote", f, {r}, "OPEN", p)
    /\ UNCHANGED <<row, audit, cache, now, faults>>

PromoteByReservation(r, p) == StartPromote([NoFilter EXCEPT !.rid = r], p)

PromoteByCandidate(c, b, p) ==
    StartPromote([NoFilter EXCEPT !.cand = c, !.book = b], p)

(* release: every active row the arguments match; none given, none released. *)
StartRelease(f) ==
    /\ call = Idle
    /\ f # NoFilter /\ f.before = Null
    /\ Releasable(f) # {}
    /\ call' = Begin("release", f, Releasable(f), "RELEASED", Null)
    /\ UNCHANGED <<row, audit, cache, now, faults>>

(* expire_stale: the pending rows created before the cutoff. *)
StartExpire(cutoff) ==
    LET f == [NoFilter EXCEPT !.before = cutoff]
    IN  /\ call = Idle
        /\ Pending(f) # {}
        /\ call' = Begin("expire", f, Pending(f), "EXPIRED", Null)
        /\ UNCHANGED <<row, audit, cache, now, faults>>

(* transition called directly, with any target. *)
StartTransition(r, t) ==
    /\ call = Idle
    /\ row[r].status # "ABSENT"       \* otherwise KeyError
    /\ call' = Begin("transition", NoFilter, {r}, t, Null)
    /\ UNCHANGED <<row, audit, cache, now, faults>>

-----------------------------------------------------------------------------
(* transition_account_risk_reservation, for each selected row in turn *)

Transitioning(step) == call.op \notin {"none", "create"} /\ call.step = step

\* Mutant of AuditEvent: the event names the target as its origin.
AuditEventFromTarget(r) == [from |-> call.target, to |-> call.target]

AuditEvent(r) == [from |-> row[r].status, to |-> call.target]

WriteAudit(r) ==
    /\ Transitioning("audit")
    /\ r \in call.todo
    /\ call.target \in ValidTargets(row[r].status)
    /\ audit' = [audit EXCEPT ![r] = Append(@, AuditEvent(r))]
    /\ call' = [call EXCEPT !.step = "row", !.rid = r, !.todo = @ \ {r}]
    /\ UNCHANGED <<row, cache, now, faults>>

\* validate_transition raises, and the call ends with the rows it had left.
RefuseTransition(r) ==
    /\ Transitioning("audit")
    /\ r \in call.todo
    /\ call.target \notin ValidTargets(row[r].status)
    /\ call' = Idle
    /\ UNCHANGED <<row, audit, cache, now, faults>>

\* Mutant of NewPosition: the UPDATE without COALESCE.
NewPositionNoCoalesce == call.pos

\* broker_pos_id = COALESCE(?, broker_pos_id)
NewPosition == IF call.pos = Null THEN row[call.rid].pos ELSE call.pos

UpdateRow ==
    /\ Transitioning("row")
    /\ row' = [row EXCEPT ![call.rid].status = call.target,
                          ![call.rid].pos = NewPosition]
    /\ call' = [call EXCEPT !.step = "cache"]
    /\ UNCHANGED <<audit, cache, now, faults>>

\* The lifecycle object, when there is one, checks the move once more: it
\* raises on an edge its own state does not allow.
CacheAccepts ==
    cache[call.rid] = "ABSENT" \/ call.target \in ValidTargets(cache[call.rid])

\* Mutant of CacheAfter: a target without a branch leaves the object behind.
CacheAfterForgetsExpired ==
    IF cache[call.rid] = "ABSENT" \/ call.target = "EXPIRED"
    THEN cache
    ELSE [cache EXCEPT ![call.rid] = call.target]

CacheAfter ==
    IF cache[call.rid] = "ABSENT" \/ ~CacheAccepts
    THEN cache
    ELSE [cache EXCEPT ![call.rid] = call.target]

\* The call goes on with the next selected row, or returns.
UpdateCache ==
    /\ Transitioning("cache")
    /\ cache' = CacheAfter
    /\ call' = IF call.todo = {} \/ ~CacheAccepts
               THEN Idle
               ELSE [call EXCEPT !.step = "audit", !.rid = Null]
    /\ UNCHANGED <<row, audit, now, faults>>

-----------------------------------------------------------------------------
(* Failures *)

\* A statement raises; what the call had written stays written.
StatementFails ==
    /\ faults < MaxFaults
    /\ call.step \in {"audit", "row"}
    /\ call' = Idle
    /\ faults' = faults + 1
    /\ UNCHANGED <<row, audit, cache, now>>

\* Mutant of CacheOnRestart: the objects of the last process are reloaded.
CacheOnRestartKept == cache

\* __init__ starts with an empty cache.
CacheOnRestart == [r \in Reservation |-> "ABSENT"]

\* The process dies; the next one opens the same database.
Crash ==
    /\ faults < MaxFaults
    /\ call' = Idle
    /\ cache' = CacheOnRestart
    /\ faults' = faults + 1
    /\ UNCHANGED <<row, audit, now>>

-----------------------------------------------------------------------------
ApiCall ==
    \/ \E r \in Reservation, s \in InitialStates, c \in Candidate, b \in Book :
          StartCreate(r, s, c, b)
    \/ \E r \in Reservation, p \in Position : PromoteByReservation(r, p)
    \/ \E c \in Candidate, b \in Book \union {Null}, p \in Position :
          PromoteByCandidate(c, b, p)
    \/ \E rid \in Reservation \union {Null}, p \in Position \union {Null},
          c \in Candidate \union {Null}, b \in Book \union {Null} :
          StartRelease([rid |-> rid, pos |-> p, cand |-> c, book |-> b,
                        before |-> Null])
    \/ \E cutoff \in 1 .. now : StartExpire(cutoff)
    \/ \E r \in Reservation, t \in ReservationState : StartTransition(r, t)

Statement ==
    \/ AuditCreation
    \/ CacheCreation
    \/ \E r \in Reservation : WriteAudit(r) \/ RefuseTransition(r)
    \/ UpdateRow
    \/ UpdateCache

Next == ApiCall \/ Statement \/ StatementFails \/ Crash

Spec == Init /\ [][Next]_vars

-----------------------------------------------------------------------------
(* Properties *)

\* The row is where the last event of its trail says, or still where that
\* event started: the audit table is never behind the row by a move, and never
\* ahead of it by more than the one move whose UPDATE did not happen.
RowFollowsAudit ==
    \A r \in Reservation : audit[r] # <<>> =>
        row[r].status \in {Last(audit[r]).from, Last(audit[r]).to}

\* A trail is a walk through the lifecycle: every event after the first is an
\* edge, and starts where the event before it ended or, if that one's UPDATE
\* was lost, where it started.
TrailIsAWalk ==
    \A r \in Reservation : \A i \in 2 .. Len(audit[r]) :
        /\ audit[r][i].to \in ValidTargets(audit[r][i].from)
        /\ audit[r][i].from \in {audit[r][i-1].from, audit[r][i-1].to}

\* What survives failing statements and crashes of the audit trail that
\* state.py calls authoritative (audit event first, then the row).
AuditTrailSound == RowFollowsAudit /\ TrailIsAWalk

\* No row changes state without an event that says so having been written
\* before: a reservation is never freed or opened off the record.
NoUnauditedMove ==
    [][\A r \in Reservation :
          row[r].status \notin {"ABSENT", row'[r].status} =>
             /\ audit[r] # <<>>
             /\ Last(audit[r]) = [from |-> row[r].status, to |-> row'[r].status]
      ]_vars

\* A cached lifecycle object agrees with its row except between the UPDATE and
\* the cache write of one call, where the move is one the object allows; so the
\* object's own validation, which runs after the row was changed, can never
\* raise and leave the two apart.
CacheAgreesWithRow ==
    \A r \in Reservation : cache[r] # "ABSENT" =>
        IF Transitioning("cache") /\ call.rid = r
        THEN row[r].status \in ValidTargets(cache[r])
        ELSE row[r].status = cache[r]

\* A loop over selected rows is never cut short by validate_transition: each
\* row not yet processed still allows the target when its turn comes.
SelectedRowsStayLegal ==
    call.op \in {"promote", "release", "expire"} =>
        \A r \in call.todo : call.target \in ValidTargets(row[r].status)

\* While a release or an expiry runs, every row its arguments describe is
\* processed, in process, or still to be processed: a call that returns
\* normally has left no matching reservation holding capital.
NoneLeftBehind ==
    LET unfinished == call.todo \union {call.rid}
    IN  /\ call.op = "release" =>
               \A r \in Reservation :
                  (row[r].status \in ActiveStates /\ Matches(r, call.filter))
                     => r \in unfinished
        /\ call.op = "expire" =>
               \A r \in Reservation :
                  (row[r].status = "PENDING" /\ Matches(r, call.filter))
                     => r \in unfinished

\* The inductive invariant.  CallShape ties the call in progress to the rows it
\* works on, RowShape what a row without state, and a pending one, looks like.
CallShape ==
    /\ call.op = "none" \/ call.step = "idle" => call = Idle
    /\ call.op = "create" =>
          /\ call.step \in {"audit", "cache"}
          /\ call.rid \in Reservation /\ call.todo = {} /\ call.pos = Null
          /\ call.target \in InitialStates
          /\ row[call.rid].status = call.target
          /\ cache[call.rid] = "ABSENT"
          /\ call.step = "audit" => audit[call.rid] = <<>>
    /\ call.op = "promote" => call.target = "OPEN" /\ call.pos \in Position
    /\ call.op = "release" => call.target = "RELEASED" /\ call.pos = Null
    /\ call.op = "expire" => call.target = "EXPIRED" /\ call.pos = Null
    /\ call.op = "transition" =>
          call.target \in ReservationState /\ call.pos = Null
    /\ \A r \in call.todo : row[r].status # "ABSENT"
    /\ Transitioning("audit") => call.rid = Null
    /\ Transitioning("row") =>
          /\ call.rid \in Reservation \ call.todo
          /\ call.target \in ValidTargets(row[call.rid].status)
          /\ audit[call.rid] # <<>>
          /\ Last(audit[call.rid]) =
                [from |-> row[call.rid].status, to |-> call.target]
    /\ Transitioning("cache") =>
          /\ call.rid \in Reservation \ call.todo
          /\ row[call.rid].status = call.target

RowShape ==
    \A r \in Reservation :
        /\ row[r].status = "ABSENT" =>
              row[r] = NoRow /\ audit[r] = <<>> /\ cache[r] = "ABSENT"
        /\ row[r].status = "PENDING" => row[r].pos = Null

IInv ==
    /\ TypeOK
    /\ CallShape
    /\ RowShape
    /\ AuditTrailSound
    /\ CacheAgreesWithRow
    /\ SelectedRowsStayLegal
    /\ NoneLeftBehind

\* Seen through the rows alone the store is the ledger of ReservationLedger:
\* one legal edge at a time, a bound broker position never rebound or dropped.
Ledger == INSTANCE ReservationLedger WITH
             status <- [r \in Reservation |-> row[r].status],
             position <- [r \in Reservation |-> row[r].pos],
             NoPosition <- Null

ImplementsLedger == Ledger!Spec

=============================================================================
