------------------------- MODULE BarrierScansProofs -------------------------
(***************************************************************************)
(* IInv is inductive for any number of scans, symbols, candidates,         *)
(* horizons and faults; the safety properties of BarrierScans and the      *)
(* refinement of ScanLifecycle follow.                                     *)
(***************************************************************************)
EXTENDS BarrierScans, SequenceTheorems, TLAPS

\* What the history variables and the row know of each other.
RowShape ==
    \A s \in Scan :
        LET r == scan[s] IN
        /\ r.status = "ABSENT" =>
             /\ r = NoRow /\ told[s] = <<>>
             /\ s \notin mute /\ s \notin filled
             /\ seen[s].scanning = 0 /\ seen[s].holding = 0
        /\ r.status # "ABSENT" => r.cand \in Candidate /\ r.horizon \in Horizon
        /\ r.status = "SCANNING" =>
             told[s] = <<>> /\ s \notin mute /\ seen[s].holding = 0
        /\ r.status \in {"HOLDING", "EXPIRED"} /\ s \in mute => told[s] = <<>>
        /\ r.status = "LOST" => store = "memory"
        /\ r.status # "RELEASED"
        /\ r.legacy =>
             /\ store = "file" /\ s \notin mute
             /\ r.status \in {"SCANNING", "HOLDING", "EXPIRED"}
             /\ r.status \in ActiveScanStates => eval.phase = "starting"

\* Between the transactions of a bar, its first-phase scans wait to be told.
BarShape ==
    /\ eval.phase # "holding" => Undelivered = {}
    /\ eval.phase = "holding" => eval.sym \in Symbol
    /\ \A s \in eval.opened :
         /\ scan[s].status = "HOLDING" /\ told[s] = <<>>
         /\ s \notin mute /\ ~scan[s].legacy
         /\ seen[s].holding = 0
    /\ \A s \in eval.closed :
         /\ scan[s].status = "EXPIRED" /\ told[s] = <<>>
         /\ s \notin mute /\ ~scan[s].legacy

IInv ==
    /\ TypeOK
    /\ RowShape
    /\ BarShape
    /\ OneEntryOneExit
    /\ ActionsFollowStates
    /\ HorizonsCountBars
    /\ PositionsLinkedOnce

-----------------------------------------------------------------------------
(* What one bar makes of one row. *)

LEMMA RowFields ==
    ASSUME NEW r \in Row
    PROVE  /\ r.scanRem \in Nat /\ r.holdRem \in Nat
           /\ r.horizon \in Nat
<1>1. Horizon \union {0} \subseteq Nat
  BY ScanConstants
<1>2. r.scanRem \in Nat /\ r.holdRem \in Nat /\ r.horizon \in Horizon \union {0}
  BY DEF Row
<1> QED BY <1>1, <1>2

LEMMA HorizonPositive ==
    ASSUME NEW h \in Horizon
    PROVE  h \in Nat /\ h >= 1
BY ScanConstants

LEMMA LastBar ==
    ASSUME NEW rem \in Nat, NEW n \in Nat, NEW h \in Nat, rem >= 1, rem + n = h
    PROVE  n + 1 \in 1..h
OBVIOUS

\* One bar less to go is one bar more counted.
LEMMA Tally ==
    ASSUME NEW rem \in Nat, NEW n \in Nat, NEW h \in Nat, rem + n = h
    PROVE  /\ rem = 1 => n + 1 = h
           /\ rem >= 2 => rem - 1 >= 1 /\ (rem - 1) + (n + 1) = h
OBVIOUS

LEMMA NoRowType == NoRow \in Row
BY DEF NoRow, Row

LEMMA ExpiredEffect ==
    ASSUME NEW r \in Row
    PROVE  /\ Expired(r) \in Row
           /\ Expired(r).status = "EXPIRED"
           /\ Expired(r).cand = r.cand /\ Expired(r).reserved = r.reserved
           /\ Expired(r).legacy = r.legacy /\ Expired(r).horizon = r.horizon
           /\ Expired(r).pos = r.pos /\ Expired(r).holdRem = r.holdRem
BY DEF Expired, Row, ScanState

\* A SCANNING row is entered, dropped, or waits one bar less.
LEMMA StepEffect ==
    ASSUME NEW r \in Row, NEW side, r.status = "SCANNING", r.scanRem >= 1
    PROVE  LET n == Step(r, side) IN
           /\ n \in Row
           /\ n.cand = r.cand /\ n.reserved = r.reserved /\ n.pos = r.pos
           /\ n.legacy = r.legacy /\ n.horizon = r.horizon
           /\ \/ n.status = "HOLDING" /\ n.holdRem = r.horizon
              \/ n.status = "EXPIRED"
              \/ /\ n.status = "SCANNING" /\ r.scanRem >= 2
                 /\ n.scanRem = r.scanRem - 1
<1>0. r.scanRem \in Nat /\ r.horizon \in Nat
  BY RowFields
<1>1. CASE side \in {"BUY", "SELL"}
  BY <1>0, <1>1 DEF Step, Row, ScanState
<1>2. CASE side \notin {"BUY", "SELL"} /\ (side = "tie" \/ r.scanRem <= 1)
  BY <1>2, ExpiredEffect DEF Step
<1>3. CASE side \notin {"BUY", "SELL"} /\ ~(side = "tie" \/ r.scanRem <= 1)
  <2>1. Step(r, side) = [r EXCEPT !.scanRem = r.scanRem - 1]
    BY <1>3 DEF Step
  <2>2. r.scanRem - 1 \in Nat /\ r.scanRem >= 2
    BY <1>0, <1>3
  <2> QED BY <2>1, <2>2 DEF Row
<1> QED BY <1>1, <1>2, <1>3

\* A HOLDING row exits on the last bar of its horizon.
LEMMA CountDownEffect ==
    ASSUME NEW r \in Row, r.status = "HOLDING", r.holdRem >= 1
    PROVE  LET n == CountDown(r) IN
           /\ n \in Row
           /\ n.cand = r.cand /\ n.reserved = r.reserved /\ n.pos = r.pos
           /\ n.legacy = r.legacy /\ n.horizon = r.horizon
           /\ \/ n.status = "COMPLETED" /\ r.holdRem = 1
              \/ /\ n.status = "HOLDING" /\ r.holdRem >= 2
                 /\ n.holdRem = r.holdRem - 1
<1>0. r.holdRem \in Nat
  BY RowFields
<1>1. CASE r.holdRem <= 1
  <2>1. r.holdRem = 1
    BY <1>0, <1>1
  <2>2. CountDown(r) = [[r EXCEPT !.status = "COMPLETED"] EXCEPT !.holdRem = 0]
    BY <1>1 DEF CountDown
  <2>3. [[r EXCEPT !.status = "COMPLETED"] EXCEPT !.holdRem = 0] \in Row
    BY DEF Row, ScanState
  <2> QED BY <2>1, <2>2, <2>3 DEF Row
<1>2. CASE ~(r.holdRem <= 1)
  <2>1. CountDown(r) = [r EXCEPT !.holdRem = r.holdRem - 1]
    BY <1>2 DEF CountDown
  <2>2. r.holdRem - 1 \in Nat /\ r.holdRem >= 2
    BY <1>0, <1>2
  <2> QED BY <2>1, <2>2 DEF Row
<1> QED BY <1>1, <1>2

LEMMA LostEffect ==
    ASSUME NEW r \in Row
    PROVE  /\ Lost(r) \in Row
           /\ Lost(r).cand = r.cand /\ Lost(r).reserved = r.reserved
           /\ Lost(r).legacy = r.legacy /\ Lost(r).horizon = r.horizon
           /\ Lost(r).pos = r.pos
           /\ r.status = "ABSENT" => Lost(r) = r
           /\ r.status # "ABSENT" => Lost(r).status = "LOST"
BY DEF Lost, Row

LEMMA NoEvalType ==
    ASSUME NEW p \in {"starting", "idle", "holding"}
    PROVE  /\ NoEval(p) \in Eval
           /\ NoEval(p).phase = p
           /\ NoEval(p).opened = {} /\ NoEval(p).closed = {}
BY DEF NoEval, Eval

\* Telling appends one action to the history of each scan acted on.
LEMMA TellType ==
    ASSUME TypeOK, NEW acts, Tell(acts), DOMAIN acts \subseteq Scan,
           \A s \in DOMAIN acts : acts[s] \in ActionType
    PROVE  /\ told' \in [Scan -> Seq(ActionType)]
           /\ \A s \in Scan : told'[s] = IF s \in DOMAIN acts
                                           THEN Append(told[s], acts[s])
                                           ELSE told[s]
BY DEF Tell, TypeOK

\* The stories that occur, and how they grow.
LEMMA AppendToOne ==
    ASSUME NEW x, NEW y
    PROVE  Append(<<x>>, y) = <<x, y>>
<1>1. <<x>> \in Seq({x, y}) /\ <<x, y>> \in Seq({x, y})
  OBVIOUS
<1>2. Len(Append(<<x>>, y)) = 2 /\ Len(<<x, y>>) = 2
  BY <1>1
<1>3. Append(<<x>>, y) \in Seq({x, y})
  BY <1>1
<1>4. \A i \in 1..2 : Append(<<x>>, y)[i] = <<x, y>>[i]
  BY <1>1
<1> QED BY <1>1, <1>2, <1>3, <1>4, SeqEqual

LEMMA Stories ==
    /\ Append(<<>>, "OPEN_MARKET") = <<"OPEN_MARKET">>
    /\ Append(<<>>, "CLOSE_MARKET") = <<"CLOSE_MARKET">>
    /\ Append(<<>>, "RELEASE_RESERVATION") = <<"RELEASE_RESERVATION">>
    /\ Append(<<"OPEN_MARKET">>, "CLOSE_MARKET") = <<"OPEN_MARKET", "CLOSE_MARKET">>
    /\ Append(<<"OPEN_MARKET">>, "RELEASE_RESERVATION")
         = <<"OPEN_MARKET", "RELEASE_RESERVATION">>
    /\ <<"OPEN_MARKET", "RELEASE_RESERVATION">> # <<>>
    /\ <<"OPEN_MARKET", "RELEASE_RESERVATION">> # <<"OPEN_MARKET">>
    /\ <<"RELEASE_RESERVATION">> # <<>>
    /\ <<"RELEASE_RESERVATION">> # <<"OPEN_MARKET">>
    /\ <<"OPEN_MARKET">> # <<>>
<1>1. \A x : Append(<<>>, x) = <<x>>
  OBVIOUS
<1>2. <<"OPEN_MARKET", "RELEASE_RESERVATION">> # <<>>
  OBVIOUS
<1>3. <<"OPEN_MARKET", "RELEASE_RESERVATION">> # <<"OPEN_MARKET">>
  OBVIOUS
<1>4. <<"RELEASE_RESERVATION">> # <<>> /\ <<"OPEN_MARKET">> # <<>>
  OBVIOUS
<1>5. <<"RELEASE_RESERVATION">> # <<"OPEN_MARKET">>
  OBVIOUS
<1> QED BY <1>1, <1>2, <1>3, <1>4, <1>5, AppendToOne

\* A linked position is the name of a scan.
LEMMA PositionsAreScans ==
    ASSUME TypeOK, NEW s \in Scan, scan[s].pos # Null
    PROVE  scan[s].pos \in Scan
BY DEF TypeOK, Row

\* Steps that link no position.
LEMMA PositionsKept ==
    ASSUME TypeOK, PositionsLinkedOnce, filled' = filled,
           \A s \in Scan : scan'[s].pos = scan[s].pos /\ scan'[s].cand = scan[s].cand
    PROVE  PositionsLinkedOnce'
BY PositionsAreScans DEF PositionsLinkedOnce

-----------------------------------------------------------------------------
(* The initial states *)

LEMMA LegacyRowFields ==
    ASSUME NEW r \in LegacyRow
    PROVE  /\ r \in Row
           /\ r.status \in ActiveScanStates
           /\ r.cand \in Candidate /\ r.horizon \in Horizon
           /\ r.legacy /\ r.pos = Null
<1>1. PICK st \in ActiveScanStates, c \in Candidate, b \in BOOLEAN, h \in Horizon :
        r = OldRow(st, c, b, h)
  BY DEF LegacyRow
<1>2. h \in Nat
  BY ScanConstants
<1>3. r = [status |-> st, cand |-> c, reserved |-> b, legacy |-> TRUE,
           horizon |-> h, scanRem |-> h,
           holdRem |-> IF st = "HOLDING" THEN h ELSE 0, pos |-> Null]
  BY <1>1 DEF NoRow, OldRow
<1>4. r \in Row
  BY <1>2, <1>3 DEF Row, ScanState, ActiveScanStates
<1> QED BY <1>3, <1>4

LEMMA InitIInv == Init => IInv
<1> SUFFICES ASSUME Init PROVE IInv
  OBVIOUS
<1> PICK n \in 0..MaxLegacy :
      /\ n > 0 => store = "file"
      /\ scan \in [Scan -> LegacyRow \union {NoRow}]
      /\ \A s \in Scan : scan[s] = NoRow <=> s > n
  BY DEF Init
<1>1. \A s \in Scan : scan[s] \in LegacyRow \/ scan[s] = NoRow
  OBVIOUS
<1>2. \A s \in Scan : scan[s] \in LegacyRow => store = "file"
  <2> SUFFICES ASSUME NEW s \in Scan, scan[s] \in LegacyRow PROVE store = "file"
    OBVIOUS
  <2>1. scan[s].legacy /\ ~NoRow.legacy
    BY LegacyRowFields DEF NoRow
  <2>2. ~(s > n) /\ s \in Nat /\ s >= 1 /\ n \in Nat
    BY <2>1, ScanConstants DEF Scan
  <2> QED BY <2>2
<1>3. TypeOK
  <2>1. scan \in [Scan -> Row]
    BY LegacyRowFields, NoRowType
  <2>2. told \in [Scan -> Seq(ActionType)]
    <3>1. <<>> \in Seq(ActionType) /\ <<"OPEN_MARKET">> \in Seq(ActionType)
      BY DEF ActionType
    <3> QED BY <3>1 DEF Init
  <2>3. seen \in [Scan -> [scanning : Nat, holding : Nat]]
    BY DEF Init
  <2> QED BY <2>1, <2>2, <2>3, NoEvalType DEF Init, TypeOK
<1>4. RowShape
  <2> SUFFICES ASSUME NEW s \in Scan PROVE RowShape!(s)
    BY DEF RowShape
  <2>1. CASE scan[s] = NoRow
    BY <2>1 DEF RowShape, NoRow, Init
  <2>2. CASE scan[s] \in LegacyRow
    BY <2>2, <1>2, LegacyRowFields, NoEvalType DEF RowShape, Init, ActiveScanStates
  <2> QED BY <1>1, <2>1, <2>2
<1>5. BarShape
  BY NoEvalType DEF Init, BarShape, Undelivered
<1>6. OneEntryOneExit /\ ActionsFollowStates
  BY <1>1, LegacyRowFields DEF Init, OneEntryOneExit, LegalStory, ActionsFollowStates,
                              NoRow, ActiveScanStates
<1>7. HorizonsCountBars
  BY <1>1, LegacyRowFields DEF HorizonsCountBars, NoRow
<1>8. PositionsLinkedOnce
  BY <1>1, LegacyRowFields DEF PositionsLinkedOnce, NoRow
<1> QED BY <1>3, <1>4, <1>5, <1>6, <1>7, <1>8 DEF IInv

-----------------------------------------------------------------------------
(* Startup, registration, positions and failures *)

LEMMA RejectLegacyIInv ==
    ASSUME IInv, RejectLegacy
    PROVE  IInv'
<1> USE DEF IInv
<1> DEFINE acts == [s \in {q \in Legacy : scan[q].reserved} |-> "RELEASE_RESERVATION"]
<1>1. /\ eval.phase = "starting" /\ eval' = NoEval("idle") /\ Tell(acts)
      /\ UNCHANGED <<store, mute, seen, filled, faults>>
      /\ scan' = [s \in Scan |-> IF s \in Legacy
                                   THEN [Expired(scan[s]) EXCEPT !.holdRem = 0]
                                   ELSE scan[s]]
  BY DEF RejectLegacy
<1>2. Undelivered = {} /\ Undelivered' = {}
  BY <1>1, NoEvalType DEF BarShape, Undelivered
<1>3. ASSUME NEW r \in Row
      PROVE  LET n == [Expired(r) EXCEPT !.holdRem = 0] IN
             /\ n \in Row /\ n.status = "EXPIRED"
             /\ n.cand = r.cand /\ n.reserved = r.reserved /\ n.pos = r.pos
             /\ n.legacy = r.legacy /\ n.horizon = r.horizon
  BY ExpiredEffect DEF Row
<1>4. \A s \in Legacy : /\ s \in Scan /\ scan[s] \in Row
                        /\ scan[s].legacy /\ s \notin mute
                        /\ scan[s].status \in {"SCANNING", "HOLDING"}
                        /\ told[s] = IF scan[s].status = "HOLDING"
                                       THEN <<"OPEN_MARKET">> ELSE <<>>
  BY <1>2 DEF Legacy, Active, ActiveScanStates, TypeOK, RowShape, ActionsFollowStates
<1>5. \A s \in Scan :
        IF s \in Legacy
          THEN /\ scan'[s] \in Row /\ scan'[s].status = "EXPIRED"
               /\ scan'[s].cand = scan[s].cand /\ scan'[s].reserved = scan[s].reserved
               /\ scan'[s].pos = scan[s].pos /\ scan'[s].legacy
               /\ scan'[s].horizon = scan[s].horizon
          ELSE scan'[s] = scan[s]
  <2> SUFFICES ASSUME NEW s \in Scan
               PROVE  IF s \in Legacy
                        THEN /\ scan'[s] \in Row /\ scan'[s].status = "EXPIRED"
                             /\ scan'[s].cand = scan[s].cand
                             /\ scan'[s].reserved = scan[s].reserved
                             /\ scan'[s].pos = scan[s].pos /\ scan'[s].legacy
                             /\ scan'[s].horizon = scan[s].horizon
                        ELSE scan'[s] = scan[s]
    OBVIOUS
  <2>1. CASE s \notin Legacy
    BY <1>1, <2>1
  <2>2. CASE s \in Legacy
    <3> DEFINE n == [Expired(scan[s]) EXCEPT !.holdRem = 0]
    <3>1. scan'[s] = n /\ scan[s] \in Row /\ scan[s].legacy
      BY <1>1, <1>4, <2>2
    <3> HIDE DEF n
    <3>2. /\ n \in Row /\ n.status = "EXPIRED"
          /\ n.cand = scan[s].cand /\ n.reserved = scan[s].reserved
          /\ n.pos = scan[s].pos /\ n.legacy = scan[s].legacy
          /\ n.horizon = scan[s].horizon
      BY <1>3, <3>1 DEF n
    <3> QED BY <2>2, <3>1, <3>2
  <2> QED BY <2>1, <2>2
<1>6. /\ told' \in [Scan -> Seq(ActionType)]
      /\ \A s \in Scan : told'[s] = IF s \in Legacy /\ scan[s].reserved
                                      THEN Append(told[s], "RELEASE_RESERVATION")
                                      ELSE told[s]
  BY <1>1, <1>4, TellType DEF ActionType
<1>7. TypeOK'
  <2>1. scan' \in [Scan -> Row]
    BY <1>1, <1>5 DEF TypeOK
  <2> QED BY <1>1, <1>6, <2>1, NoEvalType DEF TypeOK
<1>8. RowShape'
  <2> SUFFICES ASSUME NEW s \in Scan PROVE RowShape!(s)'
    BY DEF RowShape
  <2>1. CASE s \in Legacy
    BY <2>1, <1>1, <1>4, <1>5, NoEvalType DEF RowShape, ActiveScanStates
  <2>2. CASE s \notin Legacy
    <3>1. ~(scan[s].legacy /\ scan[s].status \in ActiveScanStates)
      BY <2>2 DEF Legacy, Active
    <3>2. scan'[s] = scan[s] /\ told'[s] = told[s] /\ seen'[s] = seen[s]
      BY <2>2, <1>1, <1>5, <1>6
    <3> QED BY <3>1, <3>2, <1>1 DEF RowShape
  <2> QED BY <2>1, <2>2
<1>9. BarShape'
  BY <1>1, <1>2, NoEvalType DEF BarShape, Undelivered
<1>10. OneEntryOneExit'
  <2> SUFFICES ASSUME NEW s \in Scan PROVE LegalStory(s)'
    BY DEF OneEntryOneExit
  <2>1. CASE s \in Legacy
    BY <2>1, <1>1, <1>4, <1>5, <1>6, Stories DEF LegalStory
  <2>2. CASE s \notin Legacy
    BY <2>2, <1>1, <1>5, <1>6 DEF OneEntryOneExit, LegalStory
  <2> QED BY <2>1, <2>2
<1>11. ActionsFollowStates'
  <2> SUFFICES ASSUME NEW s \in Scan \ mute PROVE ActionsFollowStates!(s)'
    BY <1>1, <1>2 DEF ActionsFollowStates
  <2>1. CASE s \in Legacy
    <3>1. scan'[s].reserved =>
            told'[s] \in {<<"RELEASE_RESERVATION">>,
                          <<"OPEN_MARKET", "RELEASE_RESERVATION">>}
      BY <2>1, <1>4, <1>5, <1>6, Stories
    <3> QED BY <2>1, <1>5, <3>1, Stories
  <2>2. CASE s \notin Legacy
    BY <2>2, <1>2, <1>5, <1>6 DEF ActionsFollowStates
  <2> QED BY <2>1, <2>2
<1>12. HorizonsCountBars'
  BY <1>1, <1>4, <1>5 DEF HorizonsCountBars
<1>13. PositionsLinkedOnce'
  <2>1. \A s \in Scan : scan'[s].pos = scan[s].pos /\ scan'[s].cand = scan[s].cand
    BY <1>5
  <2> QED BY <1>1, <2>1, PositionsKept
<1> QED BY <1>7, <1>8, <1>9, <1>10, <1>11, <1>12, <1>13

LEMMA RegisterScanIInv ==
    ASSUME IInv, NEW s \in Scan, NEW c \in Candidate, NEW h \in Horizon,
           NEW reserved \in BOOLEAN, RegisterScan(s, c, h, reserved)
    PROVE  IInv'
<1> USE DEF IInv
<1> DEFINE new == NewScan(c, h, reserved)
<1>1. /\ eval.phase = "idle" /\ scan[s].status = "ABSENT"
      /\ scan' = [scan EXCEPT ![s] = new]
      /\ UNCHANGED <<store, eval, told, mute, seen, filled, faults>>
  BY DEF RegisterScan
<1>2. h \in Nat /\ h >= 1
  BY ScanConstants
<1>3. /\ new \in Row
      /\ new.status = "SCANNING" /\ new.cand = c /\ new.horizon = h
      /\ new.scanRem = h /\ new.legacy = FALSE /\ new.pos = Null
  BY <1>2 DEF NewScan, Row, ScanState
<1> HIDE DEF new
<1>4. /\ scan'[s] = new
      /\ \A q \in Scan : q # s => scan'[q] = scan[q]
  BY <1>1 DEF TypeOK
<1>5. /\ told[s] = <<>> /\ s \notin mute /\ s \notin filled /\ scan[s].pos = Null
      /\ seen[s].scanning = 0 /\ seen[s].holding = 0
  BY <1>1 DEF RowShape, NoRow
<1>6. Undelivered = {} /\ Undelivered' = {}
  BY <1>1 DEF BarShape, Undelivered
<1>7. TypeOK'
  BY <1>1, <1>3 DEF TypeOK
<1>8. RowShape'
  <2> SUFFICES ASSUME NEW q \in Scan PROVE RowShape!(q)'
    BY DEF RowShape
  <2>1. CASE q = s
    <3>1. /\ scan'[q] = new /\ told'[q] = <<>> /\ q \notin mute'
          /\ seen'[q].holding = 0
      BY <2>1, <1>1, <1>4, <1>5
    <3> QED BY <3>1, <1>3
  <2>2. CASE q # s
    <3>1. /\ scan'[q] = scan[q] /\ told'[q] = told[q] /\ seen'[q] = seen[q]
          /\ mute' = mute /\ filled' = filled /\ store' = store /\ eval' = eval
      BY <2>2, <1>1, <1>4
    <3> QED BY <3>1 DEF RowShape
  <2> QED BY <2>1, <2>2
<1>9. BarShape'
  BY <1>1, <1>6 DEF BarShape, Undelivered
<1>10. OneEntryOneExit'
  <2> SUFFICES ASSUME NEW q \in Scan PROVE LegalStory(q)'
    BY DEF OneEntryOneExit
  <2>1. CASE q = s
    BY <2>1, <1>1, <1>5 DEF LegalStory
  <2>2. CASE q # s
    BY <2>2, <1>1, <1>4 DEF OneEntryOneExit, LegalStory
  <2> QED BY <2>1, <2>2
<1>11. ActionsFollowStates'
  <2> SUFFICES ASSUME NEW q \in Scan \ mute PROVE ActionsFollowStates!(q)'
    BY <1>1, <1>6 DEF ActionsFollowStates
  <2>1. CASE q = s
    BY <2>1, <1>1, <1>3, <1>4, <1>5
  <2>2. CASE q # s
    BY <2>2, <1>1, <1>4, <1>6 DEF ActionsFollowStates
  <2> QED BY <2>1, <2>2
<1>12. HorizonsCountBars'
  <2> SUFFICES ASSUME NEW q \in Scan PROVE HorizonsCountBars!(q)'
    BY DEF HorizonsCountBars
  <2>1. CASE q = s
    BY <2>1, <1>1, <1>2, <1>3, <1>4, <1>5
  <2>2. CASE q # s
    BY <2>2, <1>1, <1>4 DEF HorizonsCountBars
  <2> QED BY <2>1, <2>2
<1>13. PositionsLinkedOnce'
  <2>1. \A q \in Scan : scan'[q].pos = scan[q].pos
    BY <1>3, <1>4, <1>5
  <2>2. \A q \in filled : scan'[q].cand = scan[q].cand
    BY <1>4, <1>5 DEF TypeOK
  <2>3. \A q \in Scan : scan'[q].pos # Null =>
           scan[q].pos \in filled /\ scan'[q].cand = scan[q].cand
    BY <2>1, <1>4, <1>5 DEF PositionsLinkedOnce
  <2> QED BY <1>1, <2>1, <2>2, <2>3 DEF PositionsLinkedOnce
<1> QED BY <1>7, <1>8, <1>9, <1>10, <1>11, <1>12, <1>13

\* Linking touches nothing but broker_pos_id, of one row at most.
LEMMA LinkEffect ==
    ASSUME IInv, NEW s \in Scan, LinkPosition(s)
    PROVE  /\ eval.phase = "idle" /\ s \notin filled
           /\ filled' = filled \union {s}
           /\ UNCHANGED <<store, eval, told, mute, seen, faults>>
           /\ scan' \in [Scan -> Row]
           /\ scan[s].status # "ABSENT"
           /\ \A q \in Scan :
                /\ scan'[q].status = scan[q].status /\ scan'[q].cand = scan[q].cand
                /\ scan'[q].reserved = scan[q].reserved
                /\ scan'[q].legacy = scan[q].legacy
                /\ scan'[q].horizon = scan[q].horizon
                /\ scan'[q].scanRem = scan[q].scanRem
                /\ scan'[q].holdRem = scan[q].holdRem
                /\ scan[q].status = "ABSENT" => scan'[q] = scan[q]
                /\ scan'[q].pos = IF q \in Linked(scan[s].cand) THEN s
                                  ELSE scan[q].pos
<1>1. /\ eval.phase = "idle" /\ s \notin filled /\ filled' = filled \union {s}
      /\ UNCHANGED <<store, eval, told, mute, seen, faults>>
      /\ scan' = [q \in Scan |-> IF q \in Linked(scan[s].cand)
                                   THEN [scan[q] EXCEPT !.pos = s] ELSE scan[q]]
  BY DEF LinkPosition
<1>2. told[s] # <<>>
  BY DEF LinkPosition
<1>3. scan[s].status # "ABSENT"
  BY <1>2 DEF IInv, RowShape
<1>4. \A q \in Linked(scan[s].cand) : q \in Scan /\ scan[q].status = "HOLDING"
  BY DEF Linked, Rows
<1>5. ASSUME NEW r \in Row
      PROVE  LET n == [r EXCEPT !.pos = s] IN
             /\ n \in Row /\ n.pos = s
             /\ n.status = r.status /\ n.cand = r.cand /\ n.reserved = r.reserved
             /\ n.legacy = r.legacy /\ n.horizon = r.horizon
             /\ n.scanRem = r.scanRem /\ n.holdRem = r.holdRem
  BY DEF Row
<1>6. \A q \in Scan : scan[q] \in Row
  BY DEF IInv, TypeOK
<1>7. \A q \in Scan : scan'[q] = IF q \in Linked(scan[s].cand)
                                   THEN [scan[q] EXCEPT !.pos = s] ELSE scan[q]
  BY <1>1
<1>8. scan' \in [Scan -> Row]
  BY <1>1, <1>5, <1>6
<1> QED BY <1>1, <1>3, <1>4, <1>5, <1>6, <1>7, <1>8

LEMMA LinkPositionIInv ==
    ASSUME IInv, NEW s \in Scan, LinkPosition(s)
    PROVE  IInv'
<1> USE LinkEffect DEF IInv
<1>1. TypeOK'
  BY DEF TypeOK
<1>2. RowShape'
  <2> SUFFICES ASSUME NEW q \in Scan PROVE RowShape!(q)'
    BY DEF RowShape
  <2> QED BY DEF RowShape
<1>3. Undelivered' = Undelivered /\ Undelivered = {}
  BY DEF BarShape, Undelivered
<1>4. BarShape'
  BY <1>3 DEF BarShape, Undelivered
<1>5. OneEntryOneExit'
  BY DEF OneEntryOneExit, LegalStory
<1>6. ActionsFollowStates'
  BY <1>3 DEF ActionsFollowStates
<1>7. HorizonsCountBars'
  BY DEF HorizonsCountBars
<1>8. PositionsLinkedOnce'
  <2> SUFFICES ASSUME NEW q \in Scan, scan'[q].pos # Null
               PROVE  /\ scan'[scan'[q].pos].cand = scan'[q].cand
                      /\ scan'[q].pos \in filled'
                      /\ \A t \in Scan \ {q} : scan'[t].pos # scan'[q].pos
    BY DEF PositionsLinkedOnce
  <2>1. \A t \in Scan : scan[t].pos # s
    BY ScanConstants DEF PositionsLinkedOnce, Scan
  <2>2. \A t \in Linked(scan[s].cand) :
          t = q \/ q \notin Linked(scan[s].cand)
    BY DEF Linked, Rows, Scan
  <2>3. \A t \in Linked(scan[s].cand) : t \in Scan /\ scan[t].cand = scan[s].cand
    BY DEF Linked, Rows
  <2>4. CASE q \in Linked(scan[s].cand)
    <3>1. scan'[q].pos = s
      BY <2>4
    <3>2. \A t \in Scan \ {q} : scan'[t].pos = scan[t].pos
      BY <2>2, <2>4
    <3> QED BY <3>1, <3>2, <2>1, <2>3, <2>4
  <2>5. CASE q \notin Linked(scan[s].cand)
    <3>1. scan'[q].pos = scan[q].pos /\ scan[q].pos \in Scan /\ scan[q].pos # s
      BY <2>5, <2>1, PositionsAreScans
    <3> QED BY <2>5, <3>1 DEF PositionsLinkedOnce
  <2> QED BY <2>4, <2>5
<1> QED BY <1>1, <1>2, <1>4, <1>5, <1>6, <1>7, <1>8

LEMMA HoldingFailsIInv ==
    ASSUME IInv, HoldingFails
    PROVE  IInv'
<1> USE DEF IInv
<1>1. /\ eval.phase = "holding" /\ eval' = NoEval("idle")
      /\ mute' = mute \union eval.opened \union eval.closed
      /\ faults' = faults + 1
      /\ UNCHANGED <<store, scan, told, seen, filled>>
  BY DEF HoldingFails
<1>2. /\ eval' \in Eval /\ eval'.phase = "idle"
      /\ eval'.opened = {} /\ eval'.closed = {}
  BY <1>1, NoEvalType
<1>3. mute' = mute \union Undelivered /\ Undelivered \subseteq Scan
  BY <1>1 DEF Undelivered, TypeOK, Eval
<1>4. \A s \in Undelivered :
        /\ scan[s].status \in {"HOLDING", "EXPIRED"} /\ told[s] = <<>>
        /\ ~scan[s].legacy
  BY DEF BarShape, Undelivered
<1>5. TypeOK'
  BY <1>1, <1>2, <1>3 DEF TypeOK
<1>6. RowShape'
  <2> SUFFICES ASSUME NEW s \in Scan PROVE RowShape!(s)'
    BY DEF RowShape
  <2>1. ~(scan[s].legacy /\ scan[s].status \in ActiveScanStates)
    BY <1>1 DEF RowShape
  <2> QED BY <1>1, <1>3, <1>4, <2>1 DEF RowShape
<1>7. BarShape'
  BY <1>2 DEF BarShape, Undelivered
<1>8. OneEntryOneExit'
  <2> SUFFICES ASSUME NEW s \in Scan PROVE LegalStory(s)'
    BY DEF OneEntryOneExit
  <2>1. CASE s \in Undelivered
    BY <2>1, <1>1, <1>4 DEF LegalStory
  <2>2. CASE s \notin Undelivered
    BY <2>2, <1>1, <1>3 DEF OneEntryOneExit, LegalStory
  <2> QED BY <2>1, <2>2
<1>9. ActionsFollowStates'
  <2>1. Undelivered' = {}
    BY <1>2 DEF Undelivered
  <2> QED BY <1>1, <1>3, <2>1 DEF ActionsFollowStates
<1>10. HorizonsCountBars'
  BY <1>1 DEF HorizonsCountBars
<1>11. PositionsLinkedOnce'
  BY <1>1 DEF PositionsLinkedOnce
<1> QED BY <1>5, <1>6, <1>7, <1>8, <1>9, <1>10, <1>11

LEMMA RestartIInv ==
    ASSUME IInv, Restart
    PROVE  IInv'
<1> USE DEF IInv
<1>1. /\ scan' = IF store = "file" THEN scan ELSE [s \in Scan |-> Lost(scan[s])]
      /\ eval' = NoEval("starting")
      /\ mute' = mute \union eval.opened \union eval.closed
      /\ faults' = faults + 1
      /\ UNCHANGED <<store, told, seen, filled>>
  BY DEF Restart
<1>2. /\ eval' \in Eval /\ eval'.phase = "starting"
      /\ eval'.opened = {} /\ eval'.closed = {} /\ Undelivered' = {}
  BY <1>1, NoEvalType DEF Undelivered
<1>3. mute' = mute \union Undelivered /\ Undelivered \subseteq Scan
  BY <1>1 DEF Undelivered, TypeOK, Eval
<1>4. \A s \in Undelivered :
        /\ scan[s].status \in {"HOLDING", "EXPIRED"} /\ told[s] = <<>>
        /\ ~scan[s].legacy
  BY DEF BarShape, Undelivered
<1>5. \A s \in Scan :
        /\ scan[s] \in Row /\ scan'[s] \in Row
        /\ scan'[s].cand = scan[s].cand /\ scan'[s].pos = scan[s].pos
        /\ scan'[s].legacy = scan[s].legacy /\ scan'[s].horizon = scan[s].horizon
        /\ scan'[s].reserved = scan[s].reserved
        /\ store = "file" \/ scan[s].status = "ABSENT" => scan'[s] = scan[s]
        /\ store # "file" /\ scan[s].status # "ABSENT" => scan'[s].status = "LOST"
  BY <1>1, LostEffect DEF TypeOK
<1>6. TypeOK'
  <2>1. scan' \in [Scan -> Row]
    BY <1>1, <1>5 DEF TypeOK
  <2> QED BY <1>1, <1>2, <1>3, <2>1 DEF TypeOK
<1>7. RowShape'
  <2> SUFFICES ASSUME NEW s \in Scan PROVE RowShape!(s)'
    BY DEF RowShape
  <2>1. CASE store = "file" \/ scan[s].status = "ABSENT"
    <3>1. scan'[s] = scan[s] /\ told'[s] = told[s] /\ seen'[s] = seen[s]
      BY <2>1, <1>1, <1>5
    <3> QED BY <3>1, <1>1, <1>2, <1>3, <1>4 DEF RowShape
  <2>2. CASE store # "file" /\ scan[s].status # "ABSENT"
    <3>1. scan'[s].status = "LOST" /\ scan'[s].cand = scan[s].cand
          /\ scan'[s].horizon = scan[s].horizon /\ scan'[s].legacy = scan[s].legacy
      BY <2>2, <1>5
    <3>2. ~scan[s].legacy /\ store' = "memory"
      BY <2>2, <1>1 DEF RowShape, TypeOK
    <3> QED BY <2>2, <3>1, <3>2 DEF RowShape
  <2> QED BY <2>1, <2>2
<1>8. BarShape'
  BY <1>2 DEF BarShape
<1>9. OneEntryOneExit'
  <2> SUFFICES ASSUME NEW s \in Scan PROVE LegalStory(s)'
    BY DEF OneEntryOneExit
  <2>1. CASE s \in Undelivered
    BY <2>1, <1>1, <1>4 DEF LegalStory
  <2>2. CASE s \notin Undelivered
    BY <2>2, <1>1, <1>3, <1>5 DEF OneEntryOneExit, LegalStory
  <2> QED BY <2>1, <2>2
<1>10. ActionsFollowStates'
  <2> SUFFICES ASSUME NEW s \in Scan, s \notin mute' PROVE ActionsFollowStates!(s)'
    BY <1>2 DEF ActionsFollowStates
  <2>1. s \notin Undelivered /\ s \notin mute
    BY <1>3
  <2>2. CASE store = "file" \/ scan[s].status = "ABSENT"
    BY <2>1, <2>2, <1>1, <1>5 DEF ActionsFollowStates
  <2>3. CASE store # "file" /\ scan[s].status # "ABSENT"
    BY <2>3, <1>5
  <2> QED BY <2>2, <2>3
<1>11. HorizonsCountBars'
  <2> SUFFICES ASSUME NEW s \in Scan PROVE HorizonsCountBars!(s)'
    BY DEF HorizonsCountBars
  <2>1. CASE store = "file" \/ scan[s].status = "ABSENT"
    BY <2>1, <1>1, <1>5 DEF HorizonsCountBars
  <2>2. CASE store # "file" /\ scan[s].status # "ABSENT"
    BY <2>2, <1>5
  <2> QED BY <2>1, <2>2
<1>12. PositionsLinkedOnce'
  <2>1. \A s \in Scan : scan'[s].pos = scan[s].pos /\ scan'[s].cand = scan[s].cand
    BY <1>5
  <2> QED BY <1>1, <2>1, PositionsKept
<1> QED BY <1>6, <1>7, <1>8, <1>9, <1>10, <1>11, <1>12

-----------------------------------------------------------------------------
(* The first transaction of a bar *)

\* Each SCANNING row of the symbol is entered, dropped or waits; no other row
\* is touched.
LEMMA ScanningEffect ==
    ASSUME IInv, NEW sym \in Symbol, NEW up, NEW dn, NEW hl,
           EvaluateScanning(sym, up, dn, hl)
    PROVE  /\ eval.phase = "idle" /\ Undelivered = {}
           /\ UNCHANGED <<store, told, mute, filled, faults>>
           /\ scan' \in [Scan -> Row]
           /\ seen' \in [Scan -> [scanning : Nat, holding : Nat]]
           /\ eval' \in Eval /\ eval'.phase = "holding" /\ eval'.sym = sym
           /\ eval'.opened \subseteq RowsOf(sym, "SCANNING")
           /\ eval'.closed \subseteq RowsOf(sym, "SCANNING")
           /\ \A s \in Scan \ RowsOf(sym, "SCANNING") :
                scan'[s] = scan[s] /\ seen'[s] = seen[s]
           /\ \A s \in RowsOf(sym, "SCANNING") :
                /\ s \in Scan /\ scan[s].status = "SCANNING" /\ ~scan[s].legacy
                /\ scan'[s].cand = scan[s].cand /\ scan'[s].reserved = scan[s].reserved
                /\ scan'[s].pos = scan[s].pos /\ scan'[s].legacy = scan[s].legacy
                /\ scan'[s].horizon = scan[s].horizon
                /\ seen'[s].scanning = seen[s].scanning + 1
                /\ seen'[s].holding = seen[s].holding
                /\ s \in eval'.opened <=> scan'[s].status = "HOLDING"
                /\ s \in eval'.closed <=> scan'[s].status = "EXPIRED"
                /\ \/ /\ scan'[s].status = "HOLDING"
                      /\ scan'[s].holdRem = scan[s].horizon
                   \/ scan'[s].status = "EXPIRED"
                   \/ /\ scan'[s].status = "SCANNING" /\ scan[s].scanRem >= 2
                      /\ scan'[s].scanRem = scan[s].scanRem - 1
<1> DEFINE rows == RowsOf(sym, "SCANNING")
           nxt == [s \in rows |-> Step(scan[s], TouchSide(s, up, dn, hl))]
<1>1. /\ eval.phase = "idle"
      /\ scan' = [s \in Scan |-> IF s \in rows THEN nxt[s] ELSE scan[s]]
      /\ seen' = [s \in Scan |-> IF s \in rows
                                   THEN [seen[s] EXCEPT !.scanning = @ + 1]
                                   ELSE seen[s]]
      /\ eval' = [phase |-> "holding", sym |-> sym,
                  opened |-> {s \in rows : nxt[s].status = "HOLDING"},
                  closed |-> {s \in rows : nxt[s].status = "EXPIRED"}]
      /\ UNCHANGED <<store, told, mute, filled, faults>>
  BY DEF EvaluateScanning
<1>2. \A s \in rows : /\ s \in Scan /\ scan[s].status = "SCANNING"
                      /\ scan[s] \in Row /\ ~scan[s].legacy /\ scan[s].scanRem >= 1
  <2>1. \A s \in rows : s \in Scan /\ scan[s].status = "SCANNING"
    BY DEF RowsOf, Rows
  <2>2. \A s \in rows : scan[s] \in Row /\ ~scan[s].legacy
    BY <2>1, <1>1 DEF IInv, TypeOK, RowShape, ActiveScanStates
  <2> QED BY <2>1, <2>2 DEF IInv, HorizonsCountBars
<1>3. \A s \in rows :
        /\ nxt[s] \in Row
        /\ nxt[s].cand = scan[s].cand /\ nxt[s].reserved = scan[s].reserved
        /\ nxt[s].pos = scan[s].pos /\ nxt[s].legacy = scan[s].legacy
        /\ nxt[s].horizon = scan[s].horizon
        /\ \/ nxt[s].status = "HOLDING" /\ nxt[s].holdRem = scan[s].horizon
           \/ nxt[s].status = "EXPIRED"
           \/ /\ nxt[s].status = "SCANNING" /\ scan[s].scanRem >= 2
              /\ nxt[s].scanRem = scan[s].scanRem - 1
  BY <1>2, StepEffect
<1>4. \A s \in rows : s \in Scan
  BY <1>2
<1> HIDE DEF nxt
<1>5. Undelivered = {}
  BY <1>1 DEF IInv, BarShape
<1>6. \A s \in Scan : seen[s] \in [scanning : Nat, holding : Nat]
  BY DEF IInv, TypeOK
<1>7. \A s \in rows :
        /\ seen'[s] = [seen[s] EXCEPT !.scanning = @ + 1]
        /\ seen'[s] \in [scanning : Nat, holding : Nat]
        /\ seen'[s].scanning = seen[s].scanning + 1
        /\ seen'[s].holding = seen[s].holding
  BY <1>1, <1>4, <1>6
<1>8. seen' \in [Scan -> [scanning : Nat, holding : Nat]]
  BY <1>1, <1>6, <1>7
<1>9. scan' \in [Scan -> Row]
  BY <1>1, <1>3 DEF IInv, TypeOK
<1>10. \A s \in rows : scan'[s] = nxt[s]
  BY <1>1, <1>4
<1>11. /\ eval' \in Eval /\ eval'.phase = "holding" /\ eval'.sym = sym
       /\ eval'.opened = {s \in rows : nxt[s].status = "HOLDING"}
       /\ eval'.closed = {s \in rows : nxt[s].status = "EXPIRED"}
  BY <1>1, <1>4 DEF Eval
<1>12. \A s \in Scan \ rows : scan'[s] = scan[s] /\ seen'[s] = seen[s]
  BY <1>1
<1> HIDE DEF rows
<1> QED BY <1>1, <1>2, <1>3, <1>5, <1>7, <1>8, <1>9, <1>10, <1>11, <1>12 DEF rows

LEMMA EvaluateScanningIInv ==
    ASSUME IInv, NEW sym \in Symbol, NEW up, NEW dn, NEW hl,
           EvaluateScanning(sym, up, dn, hl)
    PROVE  IInv'
<1> USE DEF IInv
<1> DEFINE rows == RowsOf(sym, "SCANNING")
<1> USE ScanningEffect
<1>1. \A s \in rows : /\ told[s] = <<>> /\ s \notin mute /\ seen[s].holding = 0
                      /\ scan[s].cand \in Candidate /\ scan[s].horizon \in Horizon
                      /\ scan[s].scanRem >= 1
                      /\ scan[s].scanRem + seen[s].scanning = scan[s].horizon
                      /\ scan[s].scanRem \in Nat /\ seen[s].scanning \in Nat
                      /\ scan[s].horizon \in Nat /\ scan[s].horizon >= 1
  <2> SUFFICES ASSUME NEW s \in rows
               PROVE  /\ told[s] = <<>> /\ s \notin mute /\ seen[s].holding = 0
                      /\ scan[s].cand \in Candidate /\ scan[s].horizon \in Horizon
                      /\ scan[s].scanRem >= 1
                      /\ scan[s].scanRem + seen[s].scanning = scan[s].horizon
                      /\ scan[s].scanRem \in Nat /\ seen[s].scanning \in Nat
                      /\ scan[s].horizon \in Nat /\ scan[s].horizon >= 1
    OBVIOUS
  <2>1. s \in Scan /\ scan[s].status = "SCANNING" /\ ~scan[s].legacy
    OBVIOUS
  <2>2. told[s] = <<>> /\ s \notin mute /\ seen[s].holding = 0
        /\ scan[s].cand \in Candidate /\ scan[s].horizon \in Horizon
    BY <2>1 DEF RowShape
  <2>3. scan[s].scanRem >= 1 /\ scan[s].scanRem + seen[s].scanning = scan[s].horizon
    BY <2>1 DEF HorizonsCountBars
  <2>4. scan[s] \in Row /\ seen[s].scanning \in Nat
    BY <2>1 DEF TypeOK
  <2>5. scan[s].horizon \in Nat /\ scan[s].horizon >= 1
    BY <2>2, HorizonPositive
  <2> QED BY <2>2, <2>3, <2>4, <2>5, RowFields
<1> HIDE DEF rows
<1>2. \A s \in Scan \ rows : scan'[s] = scan[s] /\ seen'[s] = seen[s]
  BY DEF rows
<1>3. \A s \in rows :
        /\ s \in Scan /\ ~scan[s].legacy /\ scan'[s].legacy = scan[s].legacy
        /\ scan'[s].cand = scan[s].cand /\ scan'[s].reserved = scan[s].reserved
        /\ scan'[s].pos = scan[s].pos /\ scan'[s].horizon = scan[s].horizon
        /\ seen'[s].scanning = seen[s].scanning + 1
        /\ seen'[s].holding = 0
        /\ s \in eval'.opened <=> scan'[s].status = "HOLDING"
        /\ s \in eval'.closed <=> scan'[s].status = "EXPIRED"
        /\ \/ scan'[s].status = "HOLDING" /\ scan'[s].holdRem = scan[s].horizon
           \/ scan'[s].status = "EXPIRED"
           \/ /\ scan'[s].status = "SCANNING" /\ scan[s].scanRem >= 2
              /\ scan'[s].scanRem = scan[s].scanRem - 1
  BY <1>1 DEF rows
<1>4. Undelivered' \subseteq rows /\ Undelivered = {}
  BY DEF rows, Undelivered
<1>5. eval.phase = "idle" /\ eval'.phase = "holding"
      /\ UNCHANGED <<store, told, mute, filled, faults>>
  OBVIOUS
<1>6. TypeOK'
  BY DEF TypeOK
<1>7. RowShape'
  <2> SUFFICES ASSUME NEW s \in Scan PROVE RowShape!(s)'
    BY DEF RowShape
  <2>1. CASE s \in rows
    <3>1. scan'[s].status \in {"HOLDING", "EXPIRED", "SCANNING"} /\ ~scan'[s].legacy
          /\ scan'[s].cand \in Candidate /\ scan'[s].horizon \in Horizon
          /\ told'[s] = <<>> /\ s \notin mute' /\ seen'[s].holding = 0
      BY <2>1, <1>1, <1>3, <1>5
    <3> QED BY <3>1
  <2>2. CASE s \notin rows
    <3>1. ~(scan[s].legacy /\ scan[s].status \in ActiveScanStates)
      BY <1>5 DEF RowShape
    <3>2. scan'[s] = scan[s] /\ told'[s] = told[s] /\ seen'[s] = seen[s]
          /\ mute' = mute /\ filled' = filled /\ store' = store
      BY <2>2, <1>2, <1>5
    <3> QED BY <3>1, <3>2 DEF RowShape
  <2> QED BY <2>1, <2>2
<1>8. BarShape'
  <2>1. \A s \in eval'.opened :
          /\ scan'[s].status = "HOLDING" /\ told'[s] = <<>>
          /\ s \notin mute' /\ ~scan'[s].legacy
          /\ seen'[s].holding = 0
    BY <1>1, <1>3, <1>4, <1>5 DEF Undelivered
  <2>2. \A s \in eval'.closed :
          /\ scan'[s].status = "EXPIRED" /\ told'[s] = <<>>
          /\ s \notin mute' /\ ~scan'[s].legacy
    BY <1>1, <1>3, <1>4, <1>5 DEF Undelivered
  <2> QED BY <2>1, <2>2, <1>5 DEF BarShape
<1>9. OneEntryOneExit'
  <2> SUFFICES ASSUME NEW s \in Scan PROVE LegalStory(s)'
    BY DEF OneEntryOneExit
  <2>1. CASE s \in rows
    BY <2>1, <1>1, <1>5 DEF LegalStory
  <2>2. CASE s \notin rows
    BY <2>2, <1>2, <1>5 DEF OneEntryOneExit, LegalStory
  <2> QED BY <2>1, <2>2
<1>10. ActionsFollowStates'
  <2> SUFFICES ASSUME NEW s \in Scan, s \notin Undelivered', s \notin mute'
               PROVE  ActionsFollowStates!(s)'
    BY DEF ActionsFollowStates
  <2>1. CASE s \in rows
    <3>1. scan'[s].status = "SCANNING" /\ told'[s] = <<>>
      BY <2>1, <1>1, <1>3, <1>5 DEF Undelivered
    <3> QED BY <3>1
  <2>2. CASE s \notin rows
    BY <2>2, <1>2, <1>4, <1>5 DEF ActionsFollowStates
  <2> QED BY <2>1, <2>2
<1>11. HorizonsCountBars'
  <2> SUFFICES ASSUME NEW s \in Scan PROVE HorizonsCountBars!(s)'
    BY DEF HorizonsCountBars
  <2>1. CASE s \in rows
    <3>0. /\ scan[s].scanRem >= 1 /\ scan[s].scanRem \in Nat
          /\ seen[s].scanning \in Nat /\ scan[s].horizon \in Nat
          /\ scan[s].scanRem + seen[s].scanning = scan[s].horizon
          /\ seen'[s].scanning = seen[s].scanning + 1
          /\ scan'[s].horizon = scan[s].horizon
      BY <2>1, <1>1, <1>3
    <3>1. seen'[s].scanning \in 1..scan'[s].horizon
      BY <3>0, LastBar
    <3>2. CASE scan'[s].status = "SCANNING"
      <4>1. scan'[s].scanRem = scan[s].scanRem - 1 /\ scan[s].scanRem >= 2
        BY <2>1, <3>2, <1>3
      <4>3. /\ scan[s].scanRem - 1 >= 1
            /\ (scan[s].scanRem - 1) + (seen[s].scanning + 1) = scan[s].horizon
        BY ONLY <3>0, <4>1, Tally
      <4>2. scan'[s].scanRem >= 1
            /\ scan'[s].scanRem + seen'[s].scanning = scan'[s].horizon
        BY ONLY <3>0, <4>1, <4>3
      <4> QED BY <3>2, <4>2
    <3>3. CASE scan'[s].status = "HOLDING"
      BY <2>1, <3>1, <3>3, <1>1, <1>3
    <3>4. CASE scan'[s].status = "EXPIRED"
      BY <3>1, <3>4
    <3> QED BY <2>1, <3>2, <3>3, <3>4, <1>3
  <2>2. CASE s \notin rows
    BY <2>2, <1>2 DEF HorizonsCountBars
  <2> QED BY <2>1, <2>2
<1>12. PositionsLinkedOnce'
  <2>1. \A s \in Scan : scan'[s].pos = scan[s].pos /\ scan'[s].cand = scan[s].cand
    BY <1>2, <1>3
  <2> QED BY <1>5, <2>1, PositionsKept
<1> QED BY <1>6, <1>7, <1>8, <1>9, <1>10, <1>11, <1>12

-----------------------------------------------------------------------------
(* The second transaction, and the actions told *)

\* The scans whose hold ends on this bar.
Done == {s \in Counted : CountDown(scan[s]).status = "COMPLETED"}

LEMMA HoldingEffect ==
    ASSUME IInv, EvaluateHolding
    PROVE  /\ eval.phase = "holding"
           /\ eval' = NoEval("idle")
           /\ UNCHANGED <<store, mute, filled, faults>>
           /\ scan' \in [Scan -> Row]
           /\ seen' \in [Scan -> [scanning : Nat, holding : Nat]]
           /\ told' \in [Scan -> Seq(ActionType)]
           /\ \A s \in Scan \ Counted : scan'[s] = scan[s] /\ seen'[s] = seen[s]
           /\ \A s \in Counted :
                /\ s \in Scan /\ scan[s].status = "HOLDING" /\ ~scan[s].legacy
                /\ s \notin Undelivered
                /\ scan'[s].cand = scan[s].cand /\ scan'[s].reserved = scan[s].reserved
                /\ scan'[s].pos = scan[s].pos /\ scan'[s].legacy = scan[s].legacy
                /\ scan'[s].horizon = scan[s].horizon
                /\ seen'[s].scanning = seen[s].scanning
                /\ seen'[s].holding = seen[s].holding + 1
                /\ s \in Done <=> scan'[s].status = "COMPLETED"
                /\ \/ scan'[s].status = "COMPLETED" /\ scan[s].holdRem = 1
                   \/ /\ scan'[s].status = "HOLDING" /\ scan[s].holdRem >= 2
                      /\ scan'[s].holdRem = scan[s].holdRem - 1
           /\ \A s \in Scan :
                told'[s] = CASE s \in eval.opened -> Append(told[s], "OPEN_MARKET")
                             [] s \in Released -> Append(told[s], "RELEASE_RESERVATION")
                             [] s \in Done -> Append(told[s], "CLOSE_MARKET")
                             [] OTHER -> told[s]
<1> DEFINE acts == [s \in eval.opened \union Released \union Done |->
                      CASE s \in eval.opened -> "OPEN_MARKET"
                        [] s \in Released -> "RELEASE_RESERVATION"
                        [] OTHER -> "CLOSE_MARKET"]
<1>1. /\ eval.phase = "holding" /\ eval' = NoEval("idle") /\ Tell(acts)
      /\ UNCHANGED <<store, mute, filled, faults>>
      /\ scan' = [s \in Scan |-> IF s \in Counted THEN CountDown(scan[s]) ELSE scan[s]]
      /\ seen' = [s \in Scan |-> IF s \in Counted
                                   THEN [seen[s] EXCEPT !.holding = @ + 1]
                                   ELSE seen[s]]
  BY DEF EvaluateHolding, Done, Counted
<1>2. \A s \in Counted : /\ s \in Scan /\ scan[s].status = "HOLDING"
                         /\ s \notin eval.opened
  BY DEF Counted, RowsOf, Rows
<1>3. \A s \in Counted : /\ scan[s] \in Row /\ ~scan[s].legacy /\ scan[s].holdRem >= 1
                         /\ s \notin Undelivered
  <2>1. \A s \in Counted : scan[s] \in Row /\ ~scan[s].legacy
    BY <1>1, <1>2 DEF IInv, TypeOK, RowShape, ActiveScanStates
  <2>2. \A s \in Counted : s \notin Undelivered
    BY <1>2 DEF IInv, BarShape, Undelivered
  <2> QED BY <1>2, <2>1, <2>2 DEF IInv, HorizonsCountBars
<1>4. \A s \in Counted :
        /\ scan'[s] = CountDown(scan[s]) /\ scan'[s] \in Row
        /\ scan'[s].cand = scan[s].cand /\ scan'[s].reserved = scan[s].reserved
        /\ scan'[s].pos = scan[s].pos /\ scan'[s].legacy = scan[s].legacy
        /\ scan'[s].horizon = scan[s].horizon
        /\ \/ scan'[s].status = "COMPLETED" /\ scan[s].holdRem = 1
           \/ /\ scan'[s].status = "HOLDING" /\ scan[s].holdRem >= 2
              /\ scan'[s].holdRem = scan[s].holdRem - 1
  BY <1>1, <1>2, <1>3, CountDownEffect
<1>5. \A s \in Counted : s \in Done <=> scan'[s].status = "COMPLETED"
  BY <1>4 DEF Done
<1>6. \A s \in Scan : seen[s] \in [scanning : Nat, holding : Nat]
  BY DEF IInv, TypeOK
<1>7. \A s \in Counted :
        /\ seen'[s] = [seen[s] EXCEPT !.holding = @ + 1]
        /\ seen'[s] \in [scanning : Nat, holding : Nat]
        /\ seen'[s].scanning = seen[s].scanning
        /\ seen'[s].holding = seen[s].holding + 1
  BY <1>1, <1>2, <1>6
<1>8. seen' \in [Scan -> [scanning : Nat, holding : Nat]]
  BY <1>1, <1>6, <1>7
<1>9. scan' \in [Scan -> Row]
  BY <1>1, <1>4 DEF IInv, TypeOK
<1>10. \A s \in Scan \ Counted : scan'[s] = scan[s] /\ seen'[s] = seen[s]
  BY <1>1
<1>11. eval.opened \subseteq Scan /\ Released \subseteq Scan /\ Done \subseteq Scan
  BY <1>2 DEF IInv, TypeOK, Eval, Released, Done
<1>12. /\ told' \in [Scan -> Seq(ActionType)]
       /\ \A s \in Scan : told'[s] = IF s \in DOMAIN acts
                                       THEN Append(told[s], acts[s])
                                       ELSE told[s]
  <2>1. DOMAIN acts \subseteq Scan /\ \A s \in DOMAIN acts : acts[s] \in ActionType
    BY <1>11 DEF ActionType
  <2> HIDE DEF acts
  <2> QED BY <1>1, <2>1, TellType DEF IInv
<1>13. \A s \in Scan :
         told'[s] = CASE s \in eval.opened -> Append(told[s], "OPEN_MARKET")
                      [] s \in Released -> Append(told[s], "RELEASE_RESERVATION")
                      [] s \in Done -> Append(told[s], "CLOSE_MARKET")
                      [] OTHER -> told[s]
  <2> SUFFICES ASSUME NEW s \in Scan
               PROVE  told'[s] =
                        CASE s \in eval.opened -> Append(told[s], "OPEN_MARKET")
                          [] s \in Released -> Append(told[s], "RELEASE_RESERVATION")
                          [] s \in Done -> Append(told[s], "CLOSE_MARKET")
                          [] OTHER -> told[s]
    OBVIOUS
  <2>0. /\ s \in eval.opened => s \notin Released
        /\ s \in Done => s \notin eval.opened /\ s \notin Released
    BY <1>2, <1>3 DEF IInv, BarShape, Released, Done, Undelivered
  <2>1. CASE s \in eval.opened
    BY <2>1, <2>0, <1>12
  <2>2. CASE s \notin eval.opened /\ s \in Released
    BY <2>2, <2>0, <1>12
  <2>3. CASE s \notin eval.opened /\ s \notin Released /\ s \in Done
    BY <2>3, <2>0, <1>12
  <2>4. CASE s \notin eval.opened /\ s \notin Released /\ s \notin Done
    BY <2>4, <1>12
  <2> QED BY <2>1, <2>2, <2>3, <2>4
<1> QED BY <1>1, <1>2, <1>3, <1>4, <1>5, <1>7, <1>8, <1>9, <1>10, <1>12, <1>13

LEMMA EvaluateHoldingIInv ==
    ASSUME IInv, EvaluateHolding
    PROVE  IInv'
<1> USE DEF IInv
<1>1. /\ eval.phase = "holding" /\ eval' \in Eval /\ eval'.phase = "idle"
      /\ eval'.opened = {} /\ eval'.closed = {}
      /\ UNCHANGED <<store, mute, filled, faults>>
      /\ scan' \in [Scan -> Row]
      /\ seen' \in [Scan -> [scanning : Nat, holding : Nat]]
      /\ told' \in [Scan -> Seq(ActionType)]
      /\ \A s \in Scan \ Counted : scan'[s] = scan[s] /\ seen'[s] = seen[s]
  BY HoldingEffect, NoEvalType
<1>2. \A s \in Counted :
        /\ s \in Scan /\ scan[s].status = "HOLDING" /\ ~scan[s].legacy
        /\ s \notin Undelivered
        /\ scan'[s].cand = scan[s].cand /\ scan'[s].reserved = scan[s].reserved
        /\ scan'[s].pos = scan[s].pos /\ scan'[s].legacy = scan[s].legacy
        /\ scan'[s].horizon = scan[s].horizon
        /\ seen'[s].scanning = seen[s].scanning
        /\ seen'[s].holding = seen[s].holding + 1
        /\ s \in Done <=> scan'[s].status = "COMPLETED"
        /\ \/ scan'[s].status = "COMPLETED" /\ scan[s].holdRem = 1
           \/ /\ scan'[s].status = "HOLDING" /\ scan[s].holdRem >= 2
              /\ scan'[s].holdRem = scan[s].holdRem - 1
  BY HoldingEffect
<1>3. Done \subseteq Counted /\ Undelivered' = {}
  BY <1>1 DEF Done, Undelivered
<1>4. \A s \in Undelivered :
        /\ s \notin Counted /\ s \in Scan /\ told[s] = <<>> /\ s \notin mute
        /\ ~scan[s].legacy
        /\ scan[s].status \in {"HOLDING", "EXPIRED"}
        /\ told'[s] = IF scan[s].status = "HOLDING" THEN <<"OPEN_MARKET">>
                      ELSE IF scan[s].reserved THEN <<"RELEASE_RESERVATION">>
                      ELSE <<>>
  <2> SUFFICES ASSUME NEW s \in Undelivered
               PROVE  /\ s \notin Counted /\ s \in Scan /\ told[s] = <<>>
                      /\ s \notin mute /\ ~scan[s].legacy
                      /\ scan[s].status \in {"HOLDING", "EXPIRED"}
                      /\ told'[s] = IF scan[s].status = "HOLDING"
                                      THEN <<"OPEN_MARKET">>
                                    ELSE IF scan[s].reserved
                                      THEN <<"RELEASE_RESERVATION">>
                                    ELSE <<>>
    OBVIOUS
  <2>1. s \in Scan /\ s \notin Counted
    BY <1>2 DEF Undelivered, TypeOK, Eval
  <2>2. s \notin Done
    BY <2>1, <1>3
  <2>3. /\ told[s] = <<>> /\ s \notin mute /\ ~scan[s].legacy
        /\ scan[s].status \in {"HOLDING", "EXPIRED"}
        /\ s \in eval.opened <=> scan[s].status = "HOLDING"
        /\ s \in eval.closed <=> scan[s].status = "EXPIRED"
    BY DEF BarShape, Undelivered
  <2>4. told'[s] = CASE s \in eval.opened -> Append(told[s], "OPEN_MARKET")
                     [] s \in Released -> Append(told[s], "RELEASE_RESERVATION")
                     [] s \in Done -> Append(told[s], "CLOSE_MARKET")
                     [] OTHER -> told[s]
    BY <2>1, HoldingEffect
  <2>5. CASE scan[s].status = "HOLDING"
    BY <2>1, <2>2, <2>3, <2>4, <2>5, Stories DEF Released
  <2>6. CASE scan[s].status = "EXPIRED" /\ scan[s].reserved
    BY <2>1, <2>2, <2>3, <2>4, <2>6, Stories DEF Released
  <2>7. CASE scan[s].status = "EXPIRED" /\ ~scan[s].reserved
    BY <2>1, <2>2, <2>3, <2>4, <2>7 DEF Released
  <2> QED BY <2>1, <2>3, <2>5, <2>6, <2>7
<1>5. \A s \in Scan \ Undelivered :
        told'[s] = IF s \in Done THEN Append(told[s], "CLOSE_MARKET") ELSE told[s]
  <2> SUFFICES ASSUME NEW s \in Scan \ Undelivered
               PROVE  told'[s] = IF s \in Done THEN Append(told[s], "CLOSE_MARKET")
                                 ELSE told[s]
    OBVIOUS
  <2>1. s \notin eval.opened /\ s \notin Released
    BY DEF Undelivered, Released
  <2> QED BY <2>1, HoldingEffect
\* A scan that exits told its entry before, unless that was lost.
<1>6. \A s \in Done : /\ told[s] = IF s \in mute THEN <<>> ELSE <<"OPEN_MARKET">>
                      /\ told'[s] = IF s \in mute THEN <<"CLOSE_MARKET">>
                                    ELSE <<"OPEN_MARKET", "CLOSE_MARKET">>
  <2> SUFFICES ASSUME NEW s \in Done
               PROVE  /\ told[s] = IF s \in mute THEN <<>> ELSE <<"OPEN_MARKET">>
                      /\ told'[s] = IF s \in mute THEN <<"CLOSE_MARKET">>
                                    ELSE <<"OPEN_MARKET", "CLOSE_MARKET">>
    OBVIOUS
  <2>1. s \in Scan /\ s \notin Undelivered /\ scan[s].status = "HOLDING"
    BY <1>2, <1>3
  <2>2. told[s] = IF s \in mute THEN <<>> ELSE <<"OPEN_MARKET">>
    BY <2>1 DEF RowShape, ActionsFollowStates
  <2>3. told'[s] = Append(told[s], "CLOSE_MARKET")
    BY <2>1, <1>5
  <2> QED BY <2>2, <2>3, Stories
<1>7. TypeOK'
  BY <1>1 DEF TypeOK
<1>8. RowShape'
  <2> SUFFICES ASSUME NEW s \in Scan PROVE RowShape!(s)'
    BY DEF RowShape
  <2>0. ~(scan[s].legacy /\ scan[s].status \in ActiveScanStates)
    BY <1>1 DEF RowShape
  <2>1. CASE s \in Counted
    <3>1. /\ scan'[s].status \in {"HOLDING", "COMPLETED"} /\ ~scan'[s].legacy
          /\ scan'[s].cand \in Candidate /\ scan'[s].horizon \in Horizon
      BY <2>1, <1>2 DEF RowShape
    <3>2. scan'[s].status = "HOLDING" /\ s \in mute => told'[s] = <<>>
      BY <2>1, <1>2, <1>5 DEF RowShape
    <3> QED BY <3>1, <3>2, <1>1
  <2>2. CASE s \in Undelivered
    <3>1. scan'[s] = scan[s] /\ s \notin mute'
      BY <2>2, <1>1, <1>4
    <3> QED BY <2>2, <3>1, <1>1, <1>4 DEF RowShape
  <2>3. CASE s \notin Counted /\ s \notin Undelivered
    <3>1. scan'[s] = scan[s] /\ told'[s] = told[s] /\ seen'[s] = seen[s]
      BY <2>3, <1>1, <1>3, <1>5
    <3> QED BY <2>0, <3>1, <1>1 DEF RowShape
  <2> QED BY <2>1, <2>2, <2>3
<1>9. BarShape'
  BY <1>1, <1>3 DEF BarShape
<1>10. OneEntryOneExit'
  <2> SUFFICES ASSUME NEW s \in Scan PROVE LegalStory(s)'
    BY DEF OneEntryOneExit
  <2>1. CASE s \in Done
    BY <2>1, <1>1, <1>2, <1>3, <1>6 DEF LegalStory
  <2>2. CASE s \in Undelivered
    BY <2>2, <1>1, <1>4 DEF LegalStory
  <2>3. CASE s \notin Done /\ s \notin Undelivered
    <3>1. /\ told'[s] = told[s] /\ scan'[s].reserved = scan[s].reserved
          /\ scan'[s].legacy = scan[s].legacy
      BY <2>3, <1>1, <1>2, <1>5
    <3> QED BY <3>1, <1>1 DEF OneEntryOneExit, LegalStory
  <2> QED BY <2>1, <2>2, <2>3
<1>11. ActionsFollowStates'
  <2> SUFFICES ASSUME NEW s \in Scan, s \notin mute PROVE ActionsFollowStates!(s)'
    BY <1>1, <1>3 DEF ActionsFollowStates
  <2>1. CASE s \in Done
    BY <2>1, <1>2, <1>3, <1>6
  <2>2. CASE s \in Undelivered
    <3>1. scan'[s] = scan[s]
      BY <2>2, <1>1, <1>4
    <3> QED BY <2>2, <3>1, <1>4, Stories
  <2>3. CASE s \in Counted /\ s \notin Done
    <3>1. scan'[s].status = "HOLDING" /\ told'[s] = told[s] /\ told[s] = <<"OPEN_MARKET">>
      BY <2>3, <1>2, <1>5 DEF ActionsFollowStates
    <3> QED BY <3>1
  <2>4. CASE s \notin Counted /\ s \notin Undelivered
    BY <2>4, <1>1, <1>3, <1>5 DEF ActionsFollowStates
  <2> QED BY <2>1, <2>2, <2>3, <2>4
<1>12. HorizonsCountBars'
  <2> SUFFICES ASSUME NEW s \in Scan PROVE HorizonsCountBars!(s)'
    BY DEF HorizonsCountBars
  <2>1. CASE s \in Counted
    <3>1. /\ scan[s].holdRem \in Nat /\ seen[s].holding \in Nat
          /\ scan[s].horizon \in Nat
      BY <2>1, <1>2, RowFields DEF TypeOK
    <3>2. /\ scan[s].holdRem + seen[s].holding = scan[s].horizon
          /\ seen[s].scanning \in 1..scan[s].horizon
      BY <2>1, <1>2 DEF HorizonsCountBars
    <3>3. /\ seen'[s].scanning \in 1..scan'[s].horizon
          /\ seen'[s].holding = seen[s].holding + 1 /\ scan'[s].horizon = scan[s].horizon
      BY <2>1, <3>2, <1>2
    <3>4. CASE scan'[s].status = "COMPLETED" /\ scan[s].holdRem = 1
      <4>1. seen'[s].holding = scan'[s].horizon
        BY <3>1, <3>2, <3>3, <3>4, Tally
      <4> QED BY <3>3, <3>4, <4>1
    <3>5. CASE /\ scan'[s].status = "HOLDING" /\ scan[s].holdRem >= 2
               /\ scan'[s].holdRem = scan[s].holdRem - 1
      <4>1. scan'[s].holdRem >= 1 /\ scan'[s].holdRem + seen'[s].holding = scan'[s].horizon
        BY <3>1, <3>2, <3>3, <3>5
      <4> QED BY <3>3, <3>5, <4>1
    <3> QED BY <2>1, <3>4, <3>5, <1>2
  <2>2. CASE s \notin Counted
    BY <2>2, <1>1 DEF HorizonsCountBars
  <2> QED BY <2>1, <2>2
<1>13. PositionsLinkedOnce'
  <2>1. \A s \in Scan : scan'[s].pos = scan[s].pos /\ scan'[s].cand = scan[s].cand
    BY <1>1, <1>2
  <2> QED BY <1>1, <2>1, PositionsKept
<1> QED BY <1>7, <1>8, <1>9, <1>10, <1>11, <1>12, <1>13

-----------------------------------------------------------------------------
(* The safety properties *)

LEMMA StepIInv ==
    ASSUME IInv, [Next]_vars
    PROVE  IInv'
<1>1. CASE RejectLegacy
  BY <1>1, RejectLegacyIInv
<1>2. ASSUME NEW s \in Scan, NEW c \in Candidate, NEW h \in Horizon,
             NEW reserved \in BOOLEAN, RegisterScan(s, c, h, reserved)
      PROVE  IInv'
  BY <1>2, RegisterScanIInv
<1>3. ASSUME NEW sym \in Symbol, Evaluate(sym)
      PROVE  IInv'
  BY <1>3, EvaluateScanningIInv DEF Evaluate
<1>4. CASE EvaluateHolding
  BY <1>4, EvaluateHoldingIInv
<1>5. CASE HoldingFails
  BY <1>5, HoldingFailsIInv
<1>6. ASSUME NEW s \in Scan, LinkPosition(s)
      PROVE  IInv'
  BY <1>6, LinkPositionIInv
<1>7. CASE Restart
  BY <1>7, RestartIInv
<1>8. CASE UNCHANGED vars
  BY <1>8 DEF vars, IInv, TypeOK, RowShape, BarShape, Undelivered, OneEntryOneExit,
              LegalStory, ActionsFollowStates, HorizonsCountBars, PositionsLinkedOnce
<1> QED BY <1>1, <1>2, <1>3, <1>4, <1>5, <1>6, <1>7, <1>8 DEF Next

\* The inductive invariant, for every instance of BarrierScans.
THEOREM ScansInvariant == Spec => []IInv
<1>1. IInv /\ [Next]_vars => IInv'
  BY StepIInv
<1> QED BY InitIInv, <1>1, PTL DEF Spec

\* Rows, evaluations, histories and counters keep their types.
THEOREM ScanTypesHold == Spec => []TypeOK
<1>1. IInv => TypeOK
  BY DEF IInv
<1> QED BY ScansInvariant, <1>1, PTL

\* No scan buys twice, sells twice or before it bought, or gives up the
\* reservation of a position it opened, whatever fails between the two
\* transactions of evaluate_bar_with_result.
THEOREM ScansTradeOnce == Spec => []OneEntryOneExit
<1>1. IInv => OneEntryOneExit
  BY DEF IInv
<1> QED BY ScansInvariant, <1>1, PTL

\* The only actions that can be missing are those of interrupted bars.
THEOREM NoActionForgotten == Spec => []ActionsFollowStates
<1>1. IInv => ActionsFollowStates
  BY DEF IInv
<1> QED BY ScansInvariant, <1>1, PTL

\* A scan waits at most its horizon and holds exactly its horizon in bars.
THEOREM HorizonsAreExact == Spec => []HorizonsCountBars
<1>1. IInv => HorizonsCountBars
  BY DEF IInv
<1> QED BY ScansInvariant, <1>1, PTL

\* No broker position is linked to two scans or to another candidate's.
THEOREM PositionsAreDistinct == Spec => []PositionsLinkedOnce
<1>1. IInv => PositionsLinkedOnce
  BY DEF IInv
<1> QED BY ScansInvariant, <1>1, PTL

\* A scan of the older schema never causes an order.
THEOREM LegacyIsHarmless == Spec => LegacyNeverTrades
<1> DEFINE Kept == \A s \in Scan : scan[s].legacy =>
                     told'[s] \in {told[s], Append(told[s], "RELEASE_RESERVATION")}
<1>1. ASSUME IInv, [Next]_vars PROVE [Kept]_vars
  <2> SUFFICES ASSUME NEW s \in Scan, scan[s].legacy, Next
               PROVE  told'[s] \in {told[s], Append(told[s], "RELEASE_RESERVATION")}
    BY <1>1
  <2>1. CASE RejectLegacy
    <3> DEFINE acts == [q \in {p \in Legacy : scan[p].reserved} |-> "RELEASE_RESERVATION"]
    <3>1. Tell(acts)
      BY <2>1 DEF RejectLegacy
    <3>2. told'[s] = IF s \in DOMAIN acts THEN Append(told[s], acts[s]) ELSE told[s]
      BY <3>1 DEF Tell
    <3> QED BY <3>2
  <2>2. CASE EvaluateHolding
    <3>1. s \notin eval.opened /\ s \notin Released
      BY <1>1 DEF IInv, BarShape, Released
    <3>2. s \notin Done
      BY <1>1, <2>2, HoldingEffect DEF Done
    <3> QED BY <1>1, <2>2, <3>1, <3>2, HoldingEffect
  <2>3. CASE \E q \in Scan, c \in Candidate, h \in Horizon, reserved \in BOOLEAN :
               RegisterScan(q, c, h, reserved)
    BY <2>3 DEF RegisterScan
  <2>4. CASE \E sym \in Symbol : Evaluate(sym)
    BY <2>4 DEF Evaluate, EvaluateScanning
  <2>5. CASE HoldingFails \/ Restart \/ \E q \in Scan : LinkPosition(q)
    BY <2>5 DEF HoldingFails, Restart, LinkPosition
  <2> QED BY <2>1, <2>2, <2>3, <2>4, <2>5 DEF Next
<1>2. IInv /\ [Next]_vars => [Kept]_vars
  BY <1>1
<1> QED BY ScansInvariant, <1>2, PTL DEF Spec, LegacyNeverTrades

-----------------------------------------------------------------------------
(* Refinement: a bar is one step of ScanLifecycle. *)

stage == [s \in Scan |-> StageOf(s)]

LEMMA StageIsTotal ==
    stage \in [Scan -> {"none", "watching", "entered", "exited", "dropped", "forgotten"}]
BY DEF stage, StageOf

\* Steps outside a bar that change no status.
LEMMA SameStages ==
    ASSUME Undelivered' = Undelivered,
           \A s \in Scan : scan'[s].status = scan[s].status
    PROVE  stage' = stage
<1>1. \A s \in Scan : StageOf(s)' = StageOf(s)
  BY DEF StageOf
<1> QED BY <1>1 DEF stage

LEMMA InitRefines == Init => Lifecycle!Init
<1> SUFFICES ASSUME Init PROVE Lifecycle!Init
  OBVIOUS
<1>1. \A s \in Scan : scan[s] \in LegacyRow \/ scan[s] = NoRow
  BY DEF Init
<1>2. \A s \in Scan : scan[s].status \in {"SCANNING", "HOLDING", "ABSENT"}
  BY <1>1, LegacyRowFields DEF NoRow, ActiveScanStates
<1>3. Undelivered = {}
  BY NoEvalType DEF Init, Undelivered
<1>4. \A s \in Scan :
        StageOf(s) = IF scan[s].status = "ABSENT" THEN "none"
                     ELSE IF scan[s].status = "SCANNING" THEN "watching"
                     ELSE "entered"
  BY <1>2, <1>3 DEF StageOf
<1>5. told = [s \in Scan |-> IF stage[s] = "entered" THEN <<"OPEN_MARKET">> ELSE <<>>]
  BY <1>2, <1>4 DEF Init, stage
<1>6. stage \in [Scan -> {"none", "watching", "entered"}]
  BY <1>4 DEF stage
<1> QED BY <1>5, <1>6 DEF Lifecycle!Init, stage

LEMMA RejectRefines ==
    ASSUME IInv, RejectLegacy
    PROVE  Lifecycle!Next
<1> DEFINE freed == {s \in Legacy : scan[s].reserved}
           acts == [s \in freed |-> "RELEASE_RESERVATION"]
<1>1. /\ eval.phase = "starting" /\ eval' = NoEval("idle") /\ Tell(acts)
      /\ scan' = [s \in Scan |-> IF s \in Legacy
                                   THEN [Expired(scan[s]) EXCEPT !.holdRem = 0]
                                   ELSE scan[s]]
  BY DEF RejectLegacy
<1>2. Undelivered = {} /\ Undelivered' = {}
  BY <1>1, NoEvalType DEF IInv, BarShape, Undelivered
<1>3. \A s \in Legacy : s \in Scan /\ scan[s].status \in {"SCANNING", "HOLDING"}
  BY DEF Legacy, Active, ActiveScanStates
<1>4. \A s \in Scan : scan'[s].status = IF s \in Legacy THEN "EXPIRED"
                                        ELSE scan[s].status
  <2>1. \A s \in Legacy : [Expired(scan[s]) EXCEPT !.holdRem = 0].status = "EXPIRED"
    <3>1. \A r \in Row : [Expired(r) EXCEPT !.holdRem = 0].status = "EXPIRED"
      BY ExpiredEffect DEF Row
    <3>2. \A s \in Legacy : scan[s] \in Row
      BY <1>3 DEF IInv, TypeOK
    <3> QED BY <3>1, <3>2
  <2> QED BY <1>1, <2>1
<1>5. \A s \in Scan : StageOf(s)' = IF s \in Legacy THEN "dropped" ELSE StageOf(s)
  BY <1>2, <1>4 DEF StageOf
<1>6. Legacy \in SUBSET (Lifecycle!Watching \union Lifecycle!Entered)
  BY <1>2, <1>3 DEF Lifecycle!Watching, Lifecycle!Entered, StageOf
<1>7. Lifecycle!Advance({}, Legacy, {})
  BY <1>5 DEF Lifecycle!Advance
<1>8. Lifecycle!Tell({}, freed, {})
  <2>1. freed \subseteq Scan
    BY <1>3
  <2>2. told' = [s \in Scan |-> IF s \in freed
                                  THEN Append(told[s], "RELEASE_RESERVATION")
                                  ELSE told[s]]
    BY <1>1, <2>1 DEF Tell
  <2> QED BY <2>2 DEF Lifecycle!Tell
<1>9. freed \in SUBSET Legacy
  OBVIOUS
<1>10. Lifecycle!Reject(Legacy, freed)
  BY <1>7, <1>8 DEF Lifecycle!Reject
<1> QED BY <1>6, <1>9, <1>10 DEF Lifecycle!Next

LEMMA RegisterRefines ==
    ASSUME IInv, NEW s \in Scan, NEW c \in Candidate, NEW h \in Horizon,
           NEW reserved \in BOOLEAN, RegisterScan(s, c, h, reserved)
    PROVE  Lifecycle!Watch(s)
<1>1. /\ eval.phase = "idle" /\ scan[s].status = "ABSENT"
      /\ scan' = [scan EXCEPT ![s] = NewScan(c, h, reserved)]
      /\ UNCHANGED <<eval, told>>
  BY DEF RegisterScan
<1>2. Undelivered = {} /\ Undelivered' = {}
  BY <1>1 DEF IInv, BarShape, Undelivered
<1>3. /\ scan'[s].status = "SCANNING"
      /\ \A q \in Scan : q # s => scan'[q] = scan[q]
  BY <1>1 DEF IInv, TypeOK, NewScan
<1>4. /\ StageOf(s) = "none" /\ StageOf(s)' = "watching"
      /\ \A q \in Scan : q # s => StageOf(q)' = StageOf(q)
  BY <1>1, <1>2, <1>3 DEF StageOf
<1>5. stage' = [stage EXCEPT ![s] = "watching"]
  BY <1>4 DEF stage
<1> QED BY <1>1, <1>4, <1>5 DEF Lifecycle!Watch, stage

\* The first transaction is not visible yet.
LEMMA ScanningStutters ==
    ASSUME IInv, NEW sym \in Symbol, NEW up, NEW dn, NEW hl,
           EvaluateScanning(sym, up, dn, hl)
    PROVE  stage' = stage /\ told' = told
<1> USE ScanningEffect
<1>1. ASSUME NEW s \in Scan, s \in RowsOf(sym, "SCANNING")
      PROVE  StageOf(s)' = StageOf(s)
  <2>1. scan[s].status = "SCANNING" /\ StageOf(s) = "watching"
    BY <1>1 DEF StageOf
  <2>2. scan'[s].status = "SCANNING" \/ s \in Undelivered'
    BY <1>1 DEF Undelivered
  <2>3. StageOf(s)' = "watching"
    BY <2>2 DEF StageOf
  <2> QED BY <2>1, <2>3
<1>2. ASSUME NEW s \in Scan, s \notin RowsOf(sym, "SCANNING")
      PROVE  StageOf(s)' = StageOf(s)
  <2>1. scan'[s] = scan[s] /\ s \notin Undelivered /\ s \notin Undelivered'
    BY <1>2 DEF Undelivered
  <2> QED BY <2>1 DEF StageOf
<1>3. \A s \in Scan : StageOf(s)' = StageOf(s)
  BY <1>1, <1>2
<1> QED BY <1>3 DEF stage

\* The first-phase scans of a bar are still watched for the caller.
LEMMA PhaseOneScans ==
    ASSUME IInv
    PROVE  /\ eval.opened \in SUBSET Lifecycle!Watching
           /\ eval.closed \in SUBSET (Lifecycle!Watching \ eval.opened)
<1>1. Undelivered \subseteq Scan /\ eval.opened \subseteq Undelivered
      /\ eval.closed \subseteq Undelivered
  BY DEF IInv, TypeOK, Eval, Undelivered
<1>2. Undelivered \subseteq Lifecycle!Watching
  BY <1>1 DEF Lifecycle!Watching, StageOf
<1>3. \A s \in eval.closed : s \notin eval.opened
  BY DEF IInv, BarShape
<1> QED BY <1>1, <1>2, <1>3

LEMMA HoldingRefines ==
    ASSUME IInv, EvaluateHolding
    PROVE  Lifecycle!Next
<1>1. /\ eval.phase = "holding" /\ Undelivered' = {}
      /\ told' \in [Scan -> Seq(ActionType)]
  BY HoldingEffect, NoEvalType DEF Undelivered
<1>2. \A s \in Counted :
        /\ s \in Scan /\ scan[s].status = "HOLDING" /\ s \notin Undelivered
        /\ s \in Done <=> scan'[s].status = "COMPLETED"
        /\ scan'[s].status \in {"COMPLETED", "HOLDING"}
  BY HoldingEffect
<1>3. \A s \in Scan \ Counted : scan'[s] = scan[s]
  BY HoldingEffect
<1>4. /\ Done \in SUBSET Lifecycle!Entered
      /\ \A s \in Done : s \in Counted /\ s \notin eval.opened /\ s \notin eval.closed
  BY <1>2 DEF Done, Lifecycle!Entered, StageOf, Undelivered
<1>5. Released \in SUBSET eval.closed
  BY DEF Released
<1>6. \A s \in Scan :
        StageOf(s)' = CASE s \in eval.opened -> "entered"
                        [] s \in eval.closed -> "dropped"
                        [] s \in Done -> "exited"
                        [] OTHER -> StageOf(s)
  <2> SUFFICES ASSUME NEW s \in Scan
               PROVE  StageOf(s)' = CASE s \in eval.opened -> "entered"
                                      [] s \in eval.closed -> "dropped"
                                      [] s \in Done -> "exited"
                                      [] OTHER -> StageOf(s)
    OBVIOUS
  <2>1. /\ s \in eval.opened => scan[s].status = "HOLDING" /\ s \notin Counted
        /\ s \in eval.closed => scan[s].status = "EXPIRED" /\ s \notin Counted
    BY <1>2 DEF IInv, BarShape, Undelivered
  <2>2. CASE s \in eval.opened
    <3>1. StageOf(s)' = "entered"
      BY <1>1, <1>3, <2>1, <2>2 DEF StageOf
    <3>2. s \notin eval.closed /\ s \notin Done
      BY <2>1, <2>2, <1>4
    <3> QED BY <2>2, <3>1, <3>2
  <2>3. CASE s \in eval.closed
    <3>1. StageOf(s)' = "dropped"
      BY <1>1, <1>3, <2>1, <2>3 DEF StageOf
    <3>2. s \notin eval.opened /\ s \notin Done
      BY <2>1, <2>3, <1>4
    <3> QED BY <2>3, <3>1, <3>2
  <2>4. CASE s \in Done
    <3>1. StageOf(s)' = "exited"
      BY <1>1, <1>2, <1>4, <2>4 DEF StageOf
    <3> QED BY <1>4, <2>4, <3>1
  <2>5. CASE s \notin eval.opened /\ s \notin eval.closed /\ s \notin Done
    <3>1. scan'[s].status = scan[s].status /\ s \notin Undelivered
      BY <1>2, <1>3, <2>5 DEF Undelivered
    <3>2. StageOf(s)' = StageOf(s)
      BY <1>1, <3>1 DEF StageOf
    <3> QED BY <2>5, <3>2
  <2> QED BY <2>2, <2>3, <2>4, <2>5
<1>7. Lifecycle!Advance(eval.opened, eval.closed, Done)
  BY <1>6 DEF Lifecycle!Advance
<1>8. Lifecycle!Tell(eval.opened, Released, Done)
  BY <1>1, HoldingEffect DEF Lifecycle!Tell
<1>9. Lifecycle!Bar(eval.opened, eval.closed, Done, Released)
  BY <1>7, <1>8 DEF Lifecycle!Bar
<1> QED BY PhaseOneScans, <1>4, <1>5, <1>9 DEF Lifecycle!Next

\* An interrupted bar: what the first transaction did, and nothing told.
LEMMA InterruptionRefines ==
    ASSUME IInv, scan' = scan, told' = told, Undelivered' = {}
    PROVE  Lifecycle!Next
<1>1. \A s \in Scan :
        StageOf(s)' = CASE s \in eval.opened -> "entered"
                        [] s \in eval.closed -> "dropped"
                        [] s \in {} -> "exited"
                        [] OTHER -> StageOf(s)
  <2> SUFFICES ASSUME NEW s \in Scan
               PROVE  StageOf(s)' = CASE s \in eval.opened -> "entered"
                                      [] s \in eval.closed -> "dropped"
                                      [] s \in {} -> "exited"
                                      [] OTHER -> StageOf(s)
    OBVIOUS
  <2>1. /\ s \in eval.opened => scan[s].status = "HOLDING"
        /\ s \in eval.closed => scan[s].status = "EXPIRED"
    BY DEF IInv, BarShape
  <2>2. CASE s \in eval.opened
    BY <2>1, <2>2 DEF StageOf
  <2>3. CASE s \in eval.closed
    BY <2>1, <2>3 DEF StageOf
  <2>4. CASE s \notin eval.opened /\ s \notin eval.closed
    BY <2>4 DEF StageOf, Undelivered
  <2> QED BY <2>2, <2>3, <2>4
<1>2. Lifecycle!Advance(eval.opened, eval.closed, {})
  BY <1>1 DEF Lifecycle!Advance
<1>3. Lifecycle!Interrupted(eval.opened, eval.closed)
  BY <1>2 DEF Lifecycle!Interrupted
<1> QED BY PhaseOneScans, <1>3 DEF Lifecycle!Next

LEMMA RestartRefines ==
    ASSUME IInv, Restart
    PROVE  Lifecycle!Next
<1>1. /\ scan' = IF store = "file" THEN scan ELSE [s \in Scan |-> Lost(scan[s])]
      /\ told' = told /\ Undelivered' = {}
  BY NoEvalType DEF Restart, Undelivered
<1>2. CASE store = "file"
  BY <1>1, <1>2, InterruptionRefines
<1>3. CASE store # "file"
  <2>1. \A s \in Scan :
          /\ scan'[s] = Lost(scan[s]) /\ scan[s] \in Row
          /\ scan[s].status = "ABSENT" => s \notin Undelivered
    BY <1>1, <1>3 DEF IInv, TypeOK, BarShape, Undelivered
  <2>2. \A s \in Scan : StageOf(s)' = IF StageOf(s) = "none" THEN "none" ELSE "forgotten"
    <3> SUFFICES ASSUME NEW s \in Scan
                 PROVE  StageOf(s)' = IF StageOf(s) = "none" THEN "none" ELSE "forgotten"
      OBVIOUS
    <3>1. CASE scan[s].status = "ABSENT"
      BY <1>1, <2>1, <3>1, LostEffect DEF StageOf
    <3>2. CASE scan[s].status # "ABSENT"
      <4>1. StageOf(s)' = "forgotten"
        BY <1>1, <2>1, <3>2, LostEffect DEF StageOf
      <4>2. StageOf(s) # "none"
        BY <3>2 DEF StageOf
      <4> QED BY <4>1, <4>2
    <3> QED BY <3>1, <3>2
  <2>3. Lifecycle!Forget
    BY <1>1, <2>2 DEF Lifecycle!Forget
  <2> QED BY <2>3 DEF Lifecycle!Next
<1> QED BY <1>2, <1>3

LEMMA StepRefines ==
    ASSUME IInv, [Next]_vars
    PROVE  Lifecycle!Next \/ UNCHANGED <<stage, told>>
<1>1. CASE RejectLegacy
  BY <1>1, RejectRefines
<1>2. ASSUME NEW s \in Scan, NEW c \in Candidate, NEW h \in Horizon,
             NEW reserved \in BOOLEAN, RegisterScan(s, c, h, reserved)
      PROVE  Lifecycle!Next
  BY <1>2, RegisterRefines DEF Lifecycle!Next
<1>3. ASSUME NEW sym \in Symbol, Evaluate(sym)
      PROVE  UNCHANGED <<stage, told>>
  BY <1>3, ScanningStutters DEF Evaluate
<1>4. CASE EvaluateHolding
  BY <1>4, HoldingRefines
<1>5. CASE HoldingFails
  <2>1. scan' = scan /\ told' = told /\ Undelivered' = {}
    BY <1>5, NoEvalType DEF HoldingFails, Undelivered
  <2> QED BY <2>1, InterruptionRefines
<1>6. ASSUME NEW s \in Scan, LinkPosition(s)
      PROVE  UNCHANGED <<stage, told>>
  <2>1. /\ Undelivered' = Undelivered /\ told' = told
        /\ \A q \in Scan : scan'[q].status = scan[q].status
    BY <1>6, LinkEffect DEF Undelivered
  <2> QED BY <2>1, SameStages
<1>7. CASE Restart
  BY <1>7, RestartRefines
<1>8. CASE UNCHANGED vars
  <2>1. scan' = scan /\ told' = told /\ Undelivered' = Undelivered
    BY <1>8 DEF vars, Undelivered
  <2> QED BY <2>1, SameStages
<1> QED BY <1>1, <1>2, <1>3, <1>4, <1>5, <1>6, <1>7, <1>8 DEF Next

\* For its callers the barrier manager is ScanLifecycle: a bar is one step,
\* or an interrupted one of which nothing is told.
THEOREM ScansImplementLifecycle == Spec => ImplementsLifecycle
<1>1. IInv /\ [Next]_vars => [Lifecycle!Next]_Lifecycle!vars
  BY StepRefines DEF Lifecycle!vars, stage
<1> QED BY InitRefines, ScansInvariant, <1>1, PTL
    DEF Spec, ImplementsLifecycle, Lifecycle!Spec

=============================================================================
