----------------------- MODULE ReservationStoreProofs -----------------------
(***************************************************************************)
(* IInv is inductive for every set of reservations, positions, candidates  *)
(* and books and any number of faults; the checked properties and the      *)
(* refinement of ReservationLedger follow.                                 *)
(***************************************************************************)
EXTENDS ReservationStore, TLAPS

(* Constant facts: the tables and the call records have the right types. *)

LEMMA TargetsAreStates ==
    ASSUME NEW s
    PROVE  ValidTargets(s) \subseteq ReservationState
BY DEF ValidTargets, ReservationState, ActiveStates, TerminalStates

LEMMA EdgesLeaveActiveStates ==
    ASSUME NEW s, NEW t \in ValidTargets(s)
    PROVE  /\ s \in ActiveStates
           /\ t # s
           /\ t # "PENDING"
           /\ t = "OPEN" => s = "PENDING"
BY DEF ValidTargets, ActiveStates

LEMMA LastOfAppend ==
    ASSUME NEW S, NEW s \in Seq(S), NEW e \in S
    PROVE  /\ Append(s, e) # <<>>
           /\ Last(Append(s, e)) = e
BY DEF Last

LEMMA NoFilterType == NoFilter \in Filter
BY DEF NoFilter, Filter

LEMMA IdleType == Idle \in Call
BY NoFilterType DEF Idle, Call, Op, Step, RowState

LEMMA BeginType ==
    ASSUME NEW op \in Op, NEW f \in Filter, NEW S \in SUBSET Reservation,
           NEW t \in RowState, NEW p \in Position \union {Null}
    PROVE  /\ Begin(op, f, S, t, p) \in Call
           /\ Begin(op, f, S, t, p).op = op
           /\ Begin(op, f, S, t, p).step = "audit"
           /\ Begin(op, f, S, t, p).filter = f
           /\ Begin(op, f, S, t, p).todo = S
           /\ Begin(op, f, S, t, p).rid = Null
           /\ Begin(op, f, S, t, p).target = t
           /\ Begin(op, f, S, t, p).pos = p
BY IdleType DEF Begin, Idle, Call, Op, Step

LEMMA AuditEventType ==
    ASSUME TypeOK, NEW r \in Reservation,
           call.target \in ValidTargets(row[r].status)
    PROVE  AuditEvent(r) \in Event
BY TargetsAreStates DEF TypeOK, AuditEvent, Event, Row

-----------------------------------------------------------------------------
(* The steps, with the filters of the calls typed. *)

LEMMA StepCases ==
    ASSUME TypeOK, [Next]_vars
    PROVE  \/ \E r \in Reservation, s \in InitialStates, c \in Candidate, b \in Book :
                 StartCreate(r, s, c, b)
           \/ AuditCreation
           \/ CacheCreation
           \/ \E f \in Filter, p \in Position : StartPromote(f, p)
           \/ \E f \in Filter : StartRelease(f)
           \/ \E k \in Nat : StartExpire(k)
           \/ \E r \in Reservation, t \in ReservationState : StartTransition(r, t)
           \/ \E r \in Reservation : WriteAudit(r)
           \/ \E r \in Reservation : RefuseTransition(r)
           \/ UpdateRow
           \/ UpdateCache
           \/ StatementFails
           \/ Crash
           \/ UNCHANGED vars
<1>1. ASSUME NEW r \in Reservation, NEW p \in Position, PromoteByReservation(r, p)
      PROVE  \E f \in Filter : StartPromote(f, p)
  <2>1. [NoFilter EXCEPT !.rid = r] \in Filter
    BY DEF NoFilter, Filter
  <2> QED BY <1>1, <2>1 DEF PromoteByReservation
<1>2. ASSUME NEW c \in Candidate, NEW b \in Book \union {Null}, NEW p \in Position,
             PromoteByCandidate(c, b, p)
      PROVE  \E f \in Filter : StartPromote(f, p)
  <2>1. [NoFilter EXCEPT !.cand = c, !.book = b] \in Filter
    BY DEF NoFilter, Filter
  <2> QED BY <1>2, <2>1 DEF PromoteByCandidate
<1>3. ASSUME NEW rid \in Reservation \union {Null}, NEW p \in Position \union {Null},
             NEW c \in Candidate \union {Null}, NEW b \in Book \union {Null},
             StartRelease([rid |-> rid, pos |-> p, cand |-> c, book |-> b, before |-> Null])
      PROVE  \E f \in Filter : StartRelease(f)
  <2>1. [rid |-> rid, pos |-> p, cand |-> c, book |-> b, before |-> Null] \in Filter
    BY DEF Filter
  <2> QED BY <1>3, <2>1
<1>4. ASSUME NEW cutoff \in 1 .. now, StartExpire(cutoff)
      PROVE  \E k \in Nat : StartExpire(k)
  BY <1>4 DEF TypeOK
<1>5. CASE ApiCall
  BY <1>5, <1>1, <1>2, <1>3, <1>4 DEF ApiCall
<1>6. CASE Statement
  BY <1>6 DEF Statement
<1> QED BY <1>5, <1>6 DEF Next

(* What a call that selects rows leaves behind: nothing but the call. *)

SelectingCall ==
    \/ \E f \in Filter, p \in Position : StartPromote(f, p)
    \/ \E f \in Filter : StartRelease(f)
    \/ \E k \in Nat : StartExpire(k)
    \/ \E r \in Reservation, t \in ReservationState : StartTransition(r, t)

LEMMA SelectingCallEffect ==
    ASSUME TypeOK, SelectingCall
    PROVE  /\ call = Idle
           /\ UNCHANGED <<row, audit, cache, now, faults>>
           /\ call' \in Call
           /\ call'.step = "audit" /\ call'.rid = Null
           /\ \A r \in call'.todo : row[r].status # "ABSENT"
           /\ \/ /\ call'.op = "promote" /\ call'.target = "OPEN"
                 /\ call'.pos \in Position
                 /\ \A r \in call'.todo : row[r].status = "PENDING"
              \/ /\ call'.op = "release" /\ call'.target = "RELEASED"
                 /\ call'.pos = Null
                 /\ call'.todo = Releasable(call'.filter)
              \/ /\ call'.op = "expire" /\ call'.target = "EXPIRED"
                 /\ call'.pos = Null
                 /\ call'.todo = Pending(call'.filter)
              \/ /\ call'.op = "transition" /\ call'.target \in ReservationState
                 /\ call'.pos = Null
<1>1. ASSUME NEW f \in Filter, NEW p \in Position, StartPromote(f, p)
      PROVE  /\ call'.op = "promote" /\ call'.target = "OPEN"
             /\ call'.pos \in Position
             /\ \A r \in call'.todo : row[r].status = "PENDING"
             /\ call' \in Call /\ call'.step = "audit" /\ call'.rid = Null
  <2>1. PICK r \in Oldest(Pending(f)) : call' = Begin("promote", f, {r}, "OPEN", p)
    BY <1>1 DEF StartPromote
  <2>2. r \in Reservation /\ row[r].status = "PENDING"
    BY <2>1 DEF Oldest, Pending
  <2>3. "promote" \in Op /\ {r} \in SUBSET Reservation /\ "OPEN" \in RowState
        /\ p \in Position \union {Null}
    BY <2>2 DEF Op, RowState, ReservationState, ActiveStates, TerminalStates
  <2>4. /\ call' \in Call /\ call'.op = "promote" /\ call'.step = "audit"
        /\ call'.todo = {r} /\ call'.rid = Null /\ call'.target = "OPEN"
        /\ call'.pos = p
    BY <2>1, <2>3, BeginType
  <2> QED BY <2>2, <2>4
<1>2. ASSUME NEW f \in Filter, StartRelease(f)
      PROVE  /\ call'.op = "release" /\ call'.target = "RELEASED"
             /\ call'.pos = Null /\ call'.filter = f
             /\ call'.todo = Releasable(f)
             /\ call' \in Call /\ call'.step = "audit" /\ call'.rid = Null
  <2>1. "release" \in Op /\ Releasable(f) \in SUBSET Reservation
        /\ "RELEASED" \in RowState /\ Null \in Position \union {Null}
    BY DEF Op, Releasable, RowState, ReservationState, ActiveStates, TerminalStates
  <2> QED BY <1>2, <2>1, BeginType DEF StartRelease
<1>3. ASSUME NEW k \in Nat, StartExpire(k)
      PROVE  /\ call'.op = "expire" /\ call'.target = "EXPIRED"
             /\ call'.pos = Null
             /\ call'.todo = Pending(call'.filter)
             /\ call' \in Call /\ call'.step = "audit" /\ call'.rid = Null
  <2> DEFINE f == [NoFilter EXCEPT !.before = k]
  <2>1. f \in Filter
    BY DEF NoFilter, Filter
  <2>2. "expire" \in Op /\ Pending(f) \in SUBSET Reservation
        /\ "EXPIRED" \in RowState /\ Null \in Position \union {Null}
    BY DEF Op, Pending, RowState, ReservationState, ActiveStates, TerminalStates
  <2>3. call' = Begin("expire", f, Pending(f), "EXPIRED", Null)
    BY <1>3 DEF StartExpire
  <2> HIDE DEF f
  <2> QED BY <2>1, <2>2, <2>3, BeginType
<1>4. ASSUME NEW r \in Reservation, NEW t \in ReservationState, StartTransition(r, t)
      PROVE  /\ call'.op = "transition" /\ call'.target \in ReservationState
             /\ call'.pos = Null
             /\ call'.todo = {r} /\ row[r].status # "ABSENT"
             /\ call' \in Call /\ call'.step = "audit" /\ call'.rid = Null
  <2>1. "transition" \in Op /\ {r} \in SUBSET Reservation /\ t \in RowState
        /\ Null \in Position \union {Null}
    BY DEF Op, RowState
  <2> QED BY <1>4, <2>1, NoFilterType, BeginType DEF StartTransition
<1>5. call = Idle /\ UNCHANGED <<row, audit, cache, now, faults>>
  BY DEF SelectingCall, StartPromote, StartRelease, StartExpire, StartTransition
<1>6. \A f : \A r \in Releasable(f) \union Pending(f) : row[r].status # "ABSENT"
  BY DEF Releasable, Pending, ActiveStates
<1> QED BY <1>1, <1>2, <1>3, <1>4, <1>5, <1>6 DEF SelectingCall

LEMMA StepKinds ==
    ASSUME TypeOK, [Next]_vars
    PROVE  \/ \E r \in Reservation, s \in InitialStates, c \in Candidate, b \in Book :
                 StartCreate(r, s, c, b)
           \/ AuditCreation
           \/ CacheCreation
           \/ SelectingCall
           \/ \E r \in Reservation : WriteAudit(r)
           \/ \E r \in Reservation : RefuseTransition(r)
           \/ UpdateRow
           \/ UpdateCache
           \/ StatementFails
           \/ Crash
           \/ UNCHANGED vars
BY StepCases DEF SelectingCall

-----------------------------------------------------------------------------
(* Type correctness and the shape of the call and the rows *)

LEMMA InitInvariant == Init => IInv
<1> SUFFICES ASSUME Init PROVE IInv
    OBVIOUS
<1>1. TypeOK
  BY IdleType DEF Init, TypeOK, NoRow, Row, RowState
<1>2. CallShape
  BY DEF Init, CallShape, Idle, Transitioning
<1>3. RowShape
  BY DEF Init, RowShape, NoRow
<1>4. AuditTrailSound
  BY DEF Init, AuditTrailSound, RowFollowsAudit, TrailIsAWalk
<1>5. CacheAgreesWithRow /\ SelectedRowsStayLegal /\ NoneLeftBehind
  BY DEF Init, CacheAgreesWithRow, SelectedRowsStayLegal, NoneLeftBehind, Idle
<1> QED BY <1>1, <1>2, <1>3, <1>4, <1>5 DEF IInv

LEMMA TypeStep ==
    ASSUME TypeOK, CallShape, [Next]_vars
    PROVE  TypeOK'
<1> USE DEF TypeOK
<1>1. ASSUME NEW r \in Reservation, NEW s \in InitialStates,
             NEW c \in Candidate, NEW b \in Book, StartCreate(r, s, c, b)
      PROVE  TypeOK'
  <2>1. [Begin("create", NoFilter, {}, s, Null) EXCEPT !.rid = r] \in Call
    BY NoFilterType
    DEF Begin, Idle, Call, Op, Step, InitialStates, RowState, ReservationState, ActiveStates
  <2>2. [status |-> s, pos |-> Null, cand |-> c, book |-> b, created |-> now] \in Row
    BY DEF Row, InitialStates, RowState, ReservationState, ActiveStates
  <2> QED BY <1>1, <2>1, <2>2 DEF StartCreate
<1>2. CASE AuditCreation
  <2>1. call.rid \in Reservation /\ [from |-> "ABSENT", to |-> call.target] \in Event
    BY <1>2 DEF AuditCreation, CallShape, Event, RowState, InitialStates,
                ReservationState, ActiveStates
  <2>2. audit' \in [Reservation -> Seq(Event)]
    BY <1>2, <2>1 DEF AuditCreation
  <2>3. call' \in Call
    BY <1>2 DEF AuditCreation, Call, Step
  <2> QED BY <1>2, <2>2, <2>3 DEF AuditCreation
<1>3. CASE CacheCreation
  BY <1>3, IdleType DEF CacheCreation, Call
<1>4. CASE SelectingCall
  BY <1>4, SelectingCallEffect
<1>5. ASSUME NEW r \in Reservation, WriteAudit(r)
      PROVE  TypeOK'
  <2>1. AuditEvent(r) \in Event
    BY <1>5, AuditEventType DEF WriteAudit
  <2>2. audit' \in [Reservation -> Seq(Event)]
    BY <1>5, <2>1 DEF WriteAudit
  <2>3. call' \in Call
    BY <1>5 DEF WriteAudit, Call, Step
  <2> QED BY <1>5, <2>2, <2>3 DEF WriteAudit
<1>6. ASSUME NEW r \in Reservation, RefuseTransition(r)
      PROVE  TypeOK'
  BY <1>6, IdleType DEF RefuseTransition
<1>7. CASE UpdateRow
  <2>1. call.rid \in Reservation /\ NewPosition \in Position \union {Null}
    BY <1>7 DEF UpdateRow, CallShape, NewPosition, Call, Row
  <2>2. row' \in [Reservation -> Row]
    <3> DEFINE old == row[call.rid]
               new == [old EXCEPT !.status = call.target, !.pos = NewPosition]
    <3>1. old \in Row /\ call.target \in RowState
      BY <2>1 DEF Call
    <3>2. new \in Row
      <4> HIDE DEF old
      <4> QED BY <2>1, <3>1 DEF Row
    <3>3. row' = [row EXCEPT ![call.rid] = new]
      BY <1>7, <2>1 DEF UpdateRow
    <3> HIDE DEF new
    <3> QED BY <2>1, <3>2, <3>3
  <2>3. call' \in Call
    BY <1>7 DEF UpdateRow, Call, Step
  <2> QED BY <1>7, <2>2, <2>3 DEF UpdateRow
<1>8. CASE UpdateCache
  <2>1. cache' \in [Reservation -> RowState]
    BY <1>8 DEF UpdateCache, CacheAfter, Call
  <2>2. [call EXCEPT !.step = "audit", !.rid = Null] \in Call
    BY DEF Call, Step
  <2> QED BY <1>8, <2>1, <2>2, IdleType DEF UpdateCache
<1>9. CASE StatementFails
  BY <1>9, IdleType DEF StatementFails
<1>10. CASE Crash
  BY <1>10, IdleType DEF Crash, CacheOnRestart, RowState
<1>11. CASE UNCHANGED vars
  BY <1>11 DEF vars
<1> QED
  BY <1>1, <1>2, <1>3, <1>4, <1>5, <1>6, <1>7, <1>8, <1>9, <1>10, <1>11, StepKinds

LEMMA RowShapeStep ==
    ASSUME TypeOK, CallShape, RowShape, [Next]_vars
    PROVE  RowShape'
<1> USE DEF TypeOK, RowShape
<1>1. ASSUME NEW r \in Reservation, NEW s \in InitialStates,
             NEW c \in Candidate, NEW b \in Book, StartCreate(r, s, c, b)
      PROVE  RowShape'
  BY <1>1 DEF StartCreate, InitialStates
<1>2. CASE AuditCreation
  BY <1>2 DEF AuditCreation, CallShape, InitialStates
<1>3. CASE CacheCreation
  BY <1>3 DEF CacheCreation, CallShape, InitialStates
<1>4. CASE SelectingCall
  BY <1>4, SelectingCallEffect
<1>5. ASSUME NEW r \in Reservation, WriteAudit(r)
      PROVE  RowShape'
  BY <1>5 DEF WriteAudit, ValidTargets
<1>6. ASSUME NEW r \in Reservation, RefuseTransition(r)
      PROVE  RowShape'
  BY <1>6 DEF RefuseTransition
<1>7. CASE UpdateRow
  <2>1. /\ call.rid \in Reservation
        /\ call.target \in ValidTargets(row[call.rid].status)
    BY <1>7 DEF UpdateRow, CallShape
  <2>2. call.target \notin {"ABSENT", "PENDING"} /\ row[call.rid].status # "ABSENT"
    BY <2>1 DEF ValidTargets
  <2>3. row'[call.rid].status = call.target
    BY <1>7, <2>1 DEF UpdateRow, Row
  <2> QED BY <1>7, <2>1, <2>2, <2>3 DEF UpdateRow
<1>8. CASE UpdateCache
  <2>1. call.rid \in Reservation /\ row[call.rid].status = call.target
    BY <1>8 DEF UpdateCache, CallShape
  <2> QED BY <1>8, <2>1 DEF UpdateCache, CacheAfter
<1>9. CASE StatementFails
  BY <1>9 DEF StatementFails
<1>10. CASE Crash
  BY <1>10 DEF Crash, CacheOnRestart
<1>11. CASE UNCHANGED vars
  BY <1>11 DEF vars
<1> QED
  BY <1>1, <1>2, <1>3, <1>4, <1>5, <1>6, <1>7, <1>8, <1>9, <1>10, <1>11, StepKinds

LEMMA CallShapeStep ==
    ASSUME TypeOK, CallShape, RowShape, SelectedRowsStayLegal, [Next]_vars
    PROVE  CallShape'
<1> USE DEF TypeOK
<1>1. ASSUME NEW r \in Reservation, NEW s \in InitialStates,
             NEW c \in Candidate, NEW b \in Book, StartCreate(r, s, c, b)
      PROVE  CallShape'
  <2>1. /\ call'.op = "create" /\ call'.step = "audit" /\ call'.rid = r
        /\ call'.todo = {} /\ call'.pos = Null /\ call'.target = s
    BY <1>1 DEF StartCreate, Begin, Idle
  <2>2. row'[r].status = s /\ cache'[r] = "ABSENT" /\ audit'[r] = <<>>
    BY <1>1 DEF StartCreate, RowShape
  <2> QED BY <2>1, <2>2 DEF CallShape, Transitioning
<1>2. CASE AuditCreation
  <2>1. /\ call'.op = "create" /\ call'.step = "cache" /\ call'.rid = call.rid
        /\ call'.todo = call.todo /\ call'.pos = call.pos /\ call'.target = call.target
    BY <1>2 DEF AuditCreation, Call
  <2> QED BY <1>2, <2>1 DEF CallShape, Transitioning, AuditCreation
<1>3. ASSUME call' = Idle
      PROVE  CallShape'
  BY <1>3 DEF CallShape, Idle, Transitioning
<1>4. CASE SelectingCall
  <2> USE SelectingCallEffect, <1>4
  <2>1. call'.op \in {"promote", "release", "expire", "transition"} /\ call'.step = "audit"
    OBVIOUS
  <2> QED BY <2>1 DEF CallShape, Transitioning
<1>5. ASSUME NEW r \in Reservation, WriteAudit(r)
      PROVE  CallShape'
  <2>1. /\ call'.op = call.op /\ call'.step = "row" /\ call'.rid = r
        /\ call'.todo = call.todo \ {r} /\ call'.pos = call.pos
        /\ call'.target = call.target
        /\ call.op \notin {"none", "create"}
    BY <1>5 DEF WriteAudit, Transitioning, Call
  <2>2. audit'[r] = Append(audit[r], AuditEvent(r))
    BY <1>5 DEF WriteAudit
  <2>3. audit'[r] # <<>> /\ Last(audit'[r]) = AuditEvent(r)
    BY <1>5, <2>2, LastOfAppend, AuditEventType DEF WriteAudit
  <2>4. /\ row' = row
        /\ call.target \in ValidTargets(row[r].status)
    BY <1>5 DEF WriteAudit
  <2> QED BY <2>1, <2>3, <2>4 DEF CallShape, Transitioning, AuditEvent
<1>6. CASE UpdateRow
  <2>1. /\ call'.op = call.op /\ call'.step = "cache" /\ call'.rid = call.rid
        /\ call'.todo = call.todo /\ call'.pos = call.pos
        /\ call'.target = call.target
        /\ call.op \notin {"none", "create"}
        /\ call.rid \in Reservation \ call.todo
    BY <1>6 DEF UpdateRow, Transitioning, Call, CallShape
  <2>2. /\ row'[call.rid].status = call.target
        /\ \A q \in Reservation : q # call.rid => row'[q] = row[q]
    BY <1>6, <2>1 DEF UpdateRow, Row
  <2> QED BY <2>1, <2>2 DEF CallShape, Transitioning, Call
<1>7. CASE UpdateCache /\ call' # Idle
  <2>1. /\ call'.op = call.op /\ call'.step = "audit" /\ call'.rid = Null
        /\ call'.todo = call.todo /\ call'.pos = call.pos
        /\ call'.target = call.target
        /\ call.op \notin {"none", "create"}
        /\ row' = row
    BY <1>7 DEF UpdateCache, Transitioning, Call
  <2> QED BY <2>1 DEF CallShape, Transitioning
<1>8. CASE UNCHANGED vars
  BY <1>8 DEF vars, CallShape, Transitioning
<1>9. ASSUME \/ CacheCreation
             \/ \E r \in Reservation : RefuseTransition(r)
             \/ StatementFails
             \/ Crash
      PROVE  call' = Idle
  BY <1>9 DEF CacheCreation, RefuseTransition, StatementFails, Crash
<1> QED
  BY <1>1, <1>2, <1>3, <1>4, <1>5, <1>6, <1>7, <1>8, <1>9, StepKinds

-----------------------------------------------------------------------------
(* The four safety properties, step by step *)

LEMMA AppendedTrail ==
    ASSUME NEW S, NEW s \in Seq(S), NEW e \in S
    PROVE  /\ Len(Append(s, e)) = Len(s) + 1
           /\ Append(s, e)[Len(s) + 1] = e
           /\ \A i \in 1 .. Len(s) : Append(s, e)[i] = s[i]
           /\ s # <<>> => Len(s) >= 1 /\ Last(s) = s[Len(s)]
BY DEF Last

LEMMA AuditStep ==
    ASSUME TypeOK, CallShape, RowShape, AuditTrailSound, [Next]_vars
    PROVE  AuditTrailSound'
<1> USE DEF TypeOK, AuditTrailSound, RowFollowsAudit, TrailIsAWalk
<1>1. ASSUME NEW r \in Reservation, NEW s \in InitialStates,
             NEW c \in Candidate, NEW b \in Book, StartCreate(r, s, c, b)
      PROVE  AuditTrailSound'
  <2>1. audit[r] = <<>> /\ audit' = audit
    BY <1>1 DEF StartCreate, RowShape
  <2>2. \A q \in Reservation : q # r => row'[q] = row[q]
    BY <1>1 DEF StartCreate
  <2> QED BY <2>1, <2>2
<1>2. CASE AuditCreation
  <2> DEFINE e == [from |-> "ABSENT", to |-> call.target]
  <2>1. /\ call.rid \in Reservation
        /\ audit[call.rid] = <<>>
        /\ row[call.rid].status = call.target
    BY <1>2 DEF AuditCreation, CallShape
  <2>2. /\ audit'[call.rid] = <<e>>
        /\ \A q \in Reservation : q # call.rid => audit'[q] = audit[q]
        /\ row' = row
    BY <1>2, <2>1 DEF AuditCreation
  <2>3. Last(audit'[call.rid]).to = call.target /\ Len(audit'[call.rid]) = 1
    BY <2>2 DEF Last
  <2>4. RowFollowsAudit'
    BY <2>1, <2>2, <2>3
  <2>5. ASSUME NEW q \in Reservation, NEW i \in 2 .. Len(audit'[q])
        PROVE  /\ audit'[q][i].to \in ValidTargets(audit'[q][i].from)
               /\ audit'[q][i].from \in {audit'[q][i-1].from, audit'[q][i-1].to}
    <3>1. q # call.rid
      <4> SUFFICES ASSUME q = call.rid PROVE FALSE
        OBVIOUS
      <4>1. i \in 2 .. 1
        BY <2>3
      <4> QED BY <4>1
    <3>2. audit'[q] = audit[q]
      BY <3>1, <2>2
    <3> QED BY <3>2
  <2> QED BY <2>4, <2>5
<1>3. ASSUME NEW r \in Reservation, WriteAudit(r)
      PROVE  AuditTrailSound'
  <2> DEFINE e == AuditEvent(r)
  <2>1. /\ call.target \in ValidTargets(row[r].status)
        /\ e \in Event /\ e.from = row[r].status /\ e.to = call.target
        /\ row' = row
    BY <1>3, AuditEventType DEF WriteAudit, AuditEvent
  <2>2. /\ audit'[r] = Append(audit[r], e)
        /\ \A q \in Reservation : q # r => audit'[q] = audit[q]
    BY <1>3 DEF WriteAudit
  <2> HIDE DEF e
  <2>3. /\ audit[r] \in Seq(Event)
        /\ Len(audit'[r]) = Len(audit[r]) + 1
        /\ audit'[r][Len(audit[r]) + 1] = e
        /\ \A i \in 1 .. Len(audit[r]) : audit'[r][i] = audit[r][i]
        /\ Last(audit'[r]) = e
    BY <2>1, <2>2, AppendedTrail, LastOfAppend
  <2>4. Len(audit[r]) \in Nat
    BY <2>3
  <2>5. ASSUME NEW i \in 2 .. Len(audit'[r])
        PROVE  /\ audit'[r][i].to \in ValidTargets(audit'[r][i].from)
               /\ audit'[r][i].from \in {audit'[r][i-1].from, audit'[r][i-1].to}
    <3>1. CASE i = Len(audit[r]) + 1
      <4>1. audit[r] # <<>> /\ Last(audit[r]) = audit[r][Len(audit[r])]
        BY <3>1, <2>3 DEF Last
      <4>2. row[r].status \in {Last(audit[r]).from, Last(audit[r]).to}
        BY <4>1
      <4>3. audit'[r][i] = e /\ audit'[r][i-1] = Last(audit[r])
        BY <3>1, <2>3, <2>4, <4>1
      <4> QED BY <2>1, <4>2, <4>3
    <3>2. CASE i \in 2 .. Len(audit[r])
      BY <3>2, <2>3, <2>4
    <3> QED BY <3>1, <3>2, <2>3, <2>4
  <2>6. row'[r].status = Last(audit'[r]).from
    BY <2>1, <2>3
  <2> QED BY <2>1, <2>2, <2>5, <2>6
<1>4. CASE UpdateRow
  <2>1. /\ call.rid \in Reservation
        /\ Last(audit[call.rid]).to = call.target
        /\ audit' = audit
    BY <1>4 DEF UpdateRow, CallShape
  <2>2. /\ row'[call.rid].status = call.target
        /\ \A q \in Reservation : q # call.rid => row'[q] = row[q]
    BY <1>4, <2>1 DEF UpdateRow, Row
  <2> QED BY <2>1, <2>2
<1>5. ASSUME UNCHANGED <<row, audit>>
      PROVE  AuditTrailSound'
  BY <1>5
<1>6. ASSUME \/ CacheCreation
             \/ SelectingCall
             \/ \E r \in Reservation : RefuseTransition(r)
             \/ UpdateCache
             \/ StatementFails
             \/ Crash
             \/ UNCHANGED vars
      PROVE  UNCHANGED <<row, audit>>
  BY <1>6, SelectingCallEffect
  DEF CacheCreation, RefuseTransition, UpdateCache, StatementFails, Crash, vars
<1> QED BY <1>1, <1>2, <1>3, <1>4, <1>5, <1>6, StepKinds

LEMMA CacheStep ==
    ASSUME TypeOK, CallShape, RowShape, CacheAgreesWithRow, [Next]_vars
    PROVE  CacheAgreesWithRow'
<1> USE DEF TypeOK, CacheAgreesWithRow
<1>1. ASSUME NEW r \in Reservation, NEW s \in InitialStates,
             NEW c \in Candidate, NEW b \in Book, StartCreate(r, s, c, b)
      PROVE  CacheAgreesWithRow'
  <2>1. /\ cache[r] = "ABSENT" /\ cache' = cache
        /\ \A q \in Reservation : q # r => row'[q] = row[q]
        /\ ~Transitioning("cache")
    BY <1>1 DEF StartCreate, RowShape, Transitioning, Idle
  <2>2. ~Transitioning("cache")'
    BY <1>1 DEF StartCreate, Transitioning, Begin, Idle
  <2> QED BY <2>1, <2>2
<1>2. CASE CacheCreation
  <2>1. /\ call.rid \in Reservation /\ row[call.rid].status = call.target
        /\ ~Transitioning("cache")
    BY <1>2 DEF CacheCreation, CallShape, Transitioning
  <2>2. /\ cache'[call.rid] = call.target /\ row' = row
        /\ \A q \in Reservation : q # call.rid => cache'[q] = cache[q]
        /\ ~Transitioning("cache")'
    BY <1>2, <2>1 DEF CacheCreation, Transitioning, Idle
  <2> QED BY <2>1, <2>2
<1>3. CASE UpdateRow
  <2>1. /\ call.rid \in Reservation /\ ~Transitioning("cache")
        /\ call.target \in ValidTargets(row[call.rid].status)
        /\ cache' = cache
    BY <1>3 DEF UpdateRow, CallShape, Transitioning
  <2>2. /\ row'[call.rid].status = call.target
        /\ \A q \in Reservation : q # call.rid => row'[q] = row[q]
        /\ call'.rid = call.rid /\ Transitioning("cache")'
    BY <1>3, <2>1 DEF UpdateRow, Row, Call, Transitioning
  <2> QED BY <2>1, <2>2
<1>4. CASE UpdateCache
  <2>1. /\ call.rid \in Reservation /\ Transitioning("cache")
        /\ row[call.rid].status = call.target /\ row' = row
    BY <1>4 DEF UpdateCache, CallShape
  <2>2. CacheAccepts
    BY <2>1 DEF CacheAccepts
  <2>3. /\ cache[call.rid] # "ABSENT" => cache'[call.rid] = call.target
        /\ cache[call.rid] = "ABSENT" => cache' = cache
        /\ \A q \in Reservation : q # call.rid => cache'[q] = cache[q]
    BY <1>4, <2>1, <2>2 DEF UpdateCache, CacheAfter
  <2>4. ~Transitioning("cache")'
    BY <1>4 DEF UpdateCache, Transitioning, Idle, Call
  <2> QED BY <2>1, <2>3, <2>4
<1>5. CASE Crash
  BY <1>5 DEF Crash, CacheOnRestart
<1>6. ASSUME UNCHANGED <<row, cache>>, ~Transitioning("cache"), ~Transitioning("cache")'
      PROVE  CacheAgreesWithRow'
  BY <1>6
<1>7. ASSUME \/ AuditCreation
             \/ SelectingCall
             \/ \E r \in Reservation : WriteAudit(r) \/ RefuseTransition(r)
             \/ StatementFails
      PROVE  UNCHANGED <<row, cache>> /\ ~Transitioning("cache") /\ ~Transitioning("cache")'
  <2>1. CASE AuditCreation
    BY <2>1 DEF AuditCreation, Transitioning, Call
  <2>2. CASE SelectingCall
    BY <2>2, SelectingCallEffect DEF Transitioning, Idle
  <2>3. ASSUME NEW r \in Reservation, WriteAudit(r)
        PROVE  UNCHANGED <<row, cache>> /\ ~Transitioning("cache") /\ ~Transitioning("cache")'
    BY <2>3 DEF WriteAudit, Transitioning, Call
  <2>4. ASSUME NEW r \in Reservation, RefuseTransition(r)
        PROVE  UNCHANGED <<row, cache>> /\ ~Transitioning("cache") /\ ~Transitioning("cache")'
    BY <2>4 DEF RefuseTransition, Transitioning, Idle
  <2>5. CASE StatementFails
    BY <2>5 DEF StatementFails, Transitioning, Idle
  <2> QED BY <1>7, <2>1, <2>2, <2>3, <2>4, <2>5
<1>8. CASE UNCHANGED vars
  BY <1>8 DEF vars, Transitioning
<1> QED BY <1>1, <1>2, <1>3, <1>4, <1>5, <1>6, <1>7, <1>8, StepKinds

LEMMA SelectionStep ==
    ASSUME TypeOK, CallShape, SelectedRowsStayLegal, [Next]_vars
    PROVE  SelectedRowsStayLegal'
<1> USE DEF TypeOK, SelectedRowsStayLegal
<1>1. ASSUME NEW r \in Reservation, NEW s \in InitialStates,
             NEW c \in Candidate, NEW b \in Book, StartCreate(r, s, c, b)
      PROVE  SelectedRowsStayLegal'
  BY <1>1 DEF StartCreate, Begin, Idle
<1>2. CASE AuditCreation
  BY <1>2 DEF AuditCreation, Call
<1>3. CASE SelectingCall
  <2>1. /\ \A f : \A r \in Releasable(f) : "RELEASED" \in ValidTargets(row[r].status)
        /\ \A f : \A r \in Pending(f) : "EXPIRED" \in ValidTargets(row[r].status)
        /\ "OPEN" \in ValidTargets("PENDING")
    BY DEF Releasable, Pending, ActiveStates, ValidTargets
  <2> QED BY <1>3, <2>1, SelectingCallEffect
<1>4. ASSUME NEW r \in Reservation, WriteAudit(r)
      PROVE  SelectedRowsStayLegal'
  BY <1>4 DEF WriteAudit, Call
<1>5. CASE UpdateRow
  <2>1. /\ call.rid \notin call.todo
        /\ \A q \in Reservation : q # call.rid => row'[q] = row[q]
        /\ call'.op = call.op /\ call'.todo = call.todo /\ call'.target = call.target
    BY <1>5 DEF UpdateRow, CallShape, Call
  <2>2. call.todo \subseteq Reservation
    BY DEF Call
  <2> QED BY <2>1, <2>2
<1>6. CASE UpdateCache
  BY <1>6 DEF UpdateCache, Call, Idle
<1>7. ASSUME \/ CacheCreation
             \/ \E r \in Reservation : RefuseTransition(r)
             \/ StatementFails
             \/ Crash
      PROVE  SelectedRowsStayLegal'
  BY <1>7 DEF CacheCreation, RefuseTransition, StatementFails, Crash, Idle
<1>8. CASE UNCHANGED vars
  BY <1>8 DEF vars
<1> QED BY <1>1, <1>2, <1>3, <1>4, <1>5, <1>6, <1>7, <1>8, StepKinds

LEMMA CompletionStep ==
    ASSUME TypeOK, CallShape, NoneLeftBehind, [Next]_vars
    PROVE  NoneLeftBehind'
<1> USE DEF TypeOK, NoneLeftBehind
<1>1. ASSUME NEW r \in Reservation, NEW s \in InitialStates,
             NEW c \in Candidate, NEW b \in Book, StartCreate(r, s, c, b)
      PROVE  NoneLeftBehind'
  BY <1>1 DEF StartCreate, Begin, Idle
<1>2. CASE AuditCreation
  BY <1>2 DEF AuditCreation, Call
<1>3. CASE SelectingCall
  <2>1. \A f : \A r \in Reservation :
            /\ row[r].status \in ActiveStates /\ Matches(r, f) => r \in Releasable(f)
            /\ row[r].status = "PENDING" /\ Matches(r, f) => r \in Pending(f)
    BY DEF Releasable, Pending
  <2>2. row' = row
    BY <1>3, SelectingCallEffect
  <2>3. \A f, r : Matches(r, f)' <=> Matches(r, f)
    BY <2>2 DEF Matches
  <2>4. /\ call'.op = "release" => call'.todo = Releasable(call'.filter)
        /\ call'.op = "expire" => call'.todo = Pending(call'.filter)
    BY <1>3, SelectingCallEffect
  <2> HIDE DEF TypeOK
  <2> QED BY <2>1, <2>2, <2>4 DEF Matches
<1>4. ASSUME NEW r \in Reservation, WriteAudit(r)
      PROVE  NoneLeftBehind'
  <2>1. /\ call'.op = call.op /\ call'.filter = call.filter
        /\ call'.rid = r /\ call'.todo = call.todo \ {r}
        /\ row' = row /\ call.rid = Null
    BY <1>4 DEF WriteAudit, Call, CallShape
  <2> QED BY <2>1, NullIsNoValue DEF Matches
<1>5. CASE UpdateRow
  <2>1. /\ call'.op = call.op /\ call'.filter = call.filter
        /\ call'.rid = call.rid /\ call'.todo = call.todo
        /\ \A q \in Reservation : q # call.rid => row'[q] = row[q]
    BY <1>5 DEF UpdateRow, Call
  <2> QED BY <2>1 DEF Matches
<1>6. CASE UpdateCache
  <2>1. /\ row' = row
        /\ row[call.rid].status = call.target
        /\ call.op = "release" => call.target = "RELEASED"
        /\ call.op = "expire" => call.target = "EXPIRED"
    BY <1>6 DEF UpdateCache, CallShape
  <2>2. CASE call' = Idle
    BY <2>2 DEF Idle
  <2>3. CASE /\ call'.op = call.op /\ call'.filter = call.filter
             /\ call'.rid = Null /\ call'.todo = call.todo
    BY <2>1, <2>3 DEF Matches, ActiveStates
  <2> QED BY <1>6, <2>2, <2>3 DEF UpdateCache, Call
<1>7. ASSUME \/ CacheCreation
             \/ \E r \in Reservation : RefuseTransition(r)
             \/ StatementFails
             \/ Crash
      PROVE  NoneLeftBehind'
  BY <1>7 DEF CacheCreation, RefuseTransition, StatementFails, Crash, Idle
<1>8. CASE UNCHANGED vars
  BY <1>8 DEF vars, Matches
<1> QED BY <1>1, <1>2, <1>3, <1>4, <1>5, <1>6, <1>7, <1>8, StepKinds

-----------------------------------------------------------------------------
(* Theorems *)

\* Every conjunct of IInv holds in every state of every behaviour: the typed
\* rows, the shape of the call in progress and the four safety properties
\* support each other and are preserved by each statement, failure and restart.
THEOREM InvariantHolds == Spec => []IInv
<1>1. IInv /\ [Next]_vars => IInv'
  BY TypeStep, RowShapeStep, CallShapeStep, AuditStep, CacheStep, SelectionStep,
     CompletionStep DEF IInv
<1> QED BY <1>1, InitInvariant, PTL DEF Spec

\* Rows, events, cached states and calls keep the types of the tables.
THEOREM TypeCorrect == Spec => []TypeOK
BY InvariantHolds, PTL DEF IInv

\* The audit trail of every reservation is a walk through the lifecycle that
\* the row follows by at most one move, whatever statements fail and however
\* often the process restarts (transition_account_risk_reservation writes the
\* event before the row).
THEOREM AuditTrailIsSound == Spec => []AuditTrailSound
BY InvariantHolds, PTL DEF IInv

\* The lifecycle object in _lifecycle_cache never disagrees with the row, so
\* its second validation never refuses a move the row has already made.
THEOREM CacheNeverStale == Spec => []CacheAgreesWithRow
BY InvariantHolds, PTL DEF IInv

\* The loops of promote, release and expire_stale never meet a row that
\* validate_transition refuses.
THEOREM SelectionStaysLegal == Spec => []SelectedRowsStayLegal
BY InvariantHolds, PTL DEF IInv

\* A release or an expiry that runs to its end leaves no row its arguments
\* describe in a state that holds capital.
THEOREM ReleaseIsComplete == Spec => []NoneLeftBehind
BY InvariantHolds, PTL DEF IInv

(* What a step does to the rows: create one, make the audited move, nothing. *)

LEMMA RowSteps ==
    ASSUME IInv, [Next]_vars
    PROVE  \/ \E r \in Reservation, s \in InitialStates :
                 /\ row[r].status = "ABSENT"
                 /\ row[r].pos = Null
                 /\ row'[r].status = s
                 /\ row'[r].pos = Null
                 /\ \A q \in Reservation : q # r => row'[q] = row[q]
           \/ /\ UpdateRow
              /\ call.rid \in Reservation
              /\ call.target \in ValidTargets(row[call.rid].status)
              /\ audit[call.rid] # <<>>
              /\ Last(audit[call.rid]) =
                    [from |-> row[call.rid].status, to |-> call.target]
              /\ row'[call.rid].status = call.target
              /\ row'[call.rid].pos = NewPosition
              /\ \A q \in Reservation : q # call.rid => row'[q] = row[q]
           \/ UNCHANGED row
<1> USE DEF IInv, TypeOK
<1>1. ASSUME NEW r \in Reservation, NEW s \in InitialStates,
             NEW c \in Candidate, NEW b \in Book, StartCreate(r, s, c, b)
      PROVE  /\ row[r].status = "ABSENT"
             /\ row[r].pos = Null
             /\ row'[r].status = s
             /\ row'[r].pos = Null
             /\ \A q \in Reservation : q # r => row'[q] = row[q]
  BY <1>1 DEF StartCreate, RowShape, NoRow
<1>2. CASE UpdateRow
  <2>1. /\ call.rid \in Reservation
        /\ call.target \in ValidTargets(row[call.rid].status)
        /\ audit[call.rid] # <<>>
        /\ Last(audit[call.rid]) =
              [from |-> row[call.rid].status, to |-> call.target]
    BY <1>2 DEF UpdateRow, CallShape
  <2>2. /\ row'[call.rid].status = call.target
        /\ row'[call.rid].pos = NewPosition
        /\ \A q \in Reservation : q # call.rid => row'[q] = row[q]
    BY <1>2, <2>1 DEF UpdateRow, Row
  <2> QED BY <1>2, <2>1, <2>2
<1>3. ASSUME \/ AuditCreation
             \/ CacheCreation
             \/ SelectingCall
             \/ \E r \in Reservation : WriteAudit(r)
             \/ \E r \in Reservation : RefuseTransition(r)
             \/ UpdateCache
             \/ StatementFails
             \/ Crash
             \/ UNCHANGED vars
      PROVE  UNCHANGED row
  BY <1>3, SelectingCallEffect
  DEF AuditCreation, CacheCreation, WriteAudit, RefuseTransition, UpdateCache,
      StatementFails, Crash, vars
<1> QED BY <1>1, <1>2, <1>3, StepKinds

\* No reservation that exists changes state without its audit event having been
\* written first (state.py: the event, then the UPDATE).
THEOREM EveryMoveAudited == Spec => NoUnauditedMove
<1> DEFINE Audited ==
        \A r \in Reservation :
            row[r].status \notin {"ABSENT", row'[r].status} =>
               /\ audit[r] # <<>>
               /\ Last(audit[r]) = [from |-> row[r].status, to |-> row'[r].status]
<1>1. IInv /\ [Next]_vars => [Audited]_vars
  BY RowSteps
<1> QED BY <1>1, InvariantHolds, PTL DEF Spec, NoUnauditedMove

\* Seen through status and bound position, the store with its audit rows, cache,
\* failing statements and restarts implements the ledger: one legal edge at a
\* time, positions bound by a promotion and never changed afterwards.
THEOREM StoreImplementsLedger == Spec => ImplementsLedger
<1>1. Init => Ledger!Init
  BY DEF Init, Ledger!Init, NoRow
<1>2. IInv /\ [Next]_vars => [Ledger!Next]_(Ledger!vars)
  <2> SUFFICES ASSUME IInv, [Next]_vars
               PROVE  Ledger!Next \/ UNCHANGED Ledger!vars
    OBVIOUS
  <2> DEFINE st == [r \in Reservation |-> row[r].status]
             ps == [r \in Reservation |-> row[r].pos]
  <2>1. ASSUME NEW r \in Reservation, NEW s \in InitialStates,
               row[r].status = "ABSENT", row[r].pos = Null,
               row'[r].status = s, row'[r].pos = Null,
               \A q \in Reservation : q # r => row'[q] = row[q]
        PROVE  Ledger!Next
    <3>1. st[r] = "ABSENT" /\ st' = [st EXCEPT ![r] = s] /\ ps' = ps
      BY <2>1
    <3>2. Ledger!Create(r)
      BY <3>1 DEF Ledger!Create, Ledger!InitialStates, InitialStates
    <3> QED BY <3>2 DEF Ledger!Next
  <2>2. ASSUME UpdateRow,
               call.rid \in Reservation,
               call.target \in ValidTargets(row[call.rid].status),
               row'[call.rid].status = call.target,
               row'[call.rid].pos = NewPosition,
               \A q \in Reservation : q # call.rid => row'[q] = row[q]
        PROVE  Ledger!Next
    <3>1. /\ st[call.rid] = row[call.rid].status
          /\ st' = [st EXCEPT ![call.rid] = call.target]
          /\ ps' = [ps EXCEPT ![call.rid] = NewPosition]
      BY <2>2
    <3>2. CASE call.op = "promote"
      <4>1. call.target = "OPEN" /\ call.pos \in Position
        BY <3>2 DEF IInv, CallShape
      <4>2. row[call.rid].status = "PENDING" /\ NewPosition = call.pos
        BY <2>2, <4>1, EdgesLeaveActiveStates, NullIsNoValue DEF NewPosition
      <4>3. /\ st[call.rid] = "PENDING"
            /\ st' = [st EXCEPT ![call.rid] = "OPEN"]
            /\ ps' = [ps EXCEPT ![call.rid] = call.pos]
        BY <3>1, <4>1, <4>2
      <4>4. Ledger!Promote(call.rid, call.pos)
        BY <4>3 DEF Ledger!Promote
      <4>5. \E r \in Reservation : \E p \in Position : Ledger!Promote(r, p)
        <5>1. call.rid \in Reservation /\ call.pos \in Position
          BY <2>2, <4>1
        <5>2. \E p \in Position : Ledger!Promote(call.rid, p)
          BY <5>1, <4>3 DEF Ledger!Promote
        <5> QED BY <5>1, <5>2
      <4> QED BY <4>5 DEF Ledger!Next
    <3>3. CASE call.op # "promote"
      <4>1. call.pos = Null
        BY <3>3, <2>2 DEF IInv, TypeOK, CallShape, Call, Op, UpdateRow, Transitioning
      <4>2. NewPosition = row[call.rid].pos
        BY <4>1 DEF NewPosition
      <4>3. ps' = ps
        BY <3>1, <4>2
      <4>4. call.target \in ReservationState
        BY <2>2, TargetsAreStates
      <4>5. call.target \in Ledger!ReservationState
        BY <4>4 DEF Ledger!ReservationState, ReservationState, Ledger!ActiveStates,
                    ActiveStates, Ledger!TerminalStates, TerminalStates
      <4>6. call.target \in Ledger!ValidTargets(st[call.rid])
        BY <2>2, <3>1 DEF Ledger!ValidTargets, ValidTargets
      <4>7. \E r \in Reservation : \E t \in Ledger!ReservationState : Ledger!Move(r, t)
        BY <2>2, <3>1, <4>3, <4>5, <4>6 DEF Ledger!Move
      <4> QED BY <4>7 DEF Ledger!Next
    <3> QED BY <3>2, <3>3
  <2>3. CASE UNCHANGED row
    BY <2>3 DEF Ledger!vars
  <2> QED BY <2>1, <2>2, <2>3, RowSteps
<1> QED BY <1>1, <1>2, InvariantHolds, PTL DEF Spec, ImplementsLedger, Ledger!Spec

=============================================================================
