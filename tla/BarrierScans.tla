---------------------------- MODULE BarrierScans ----------------------------
(***************************************************************************)
(* The barrier manager (runtime/barrier_manager.py): its table of scans,   *)
(* one transaction per step.                                               *)
(*                                                                         *)
(* A bar is evaluated in two transactions.  The first decides every        *)
(* SCANNING scan of the symbol (touched, expired, one bar fewer), the      *)
(* second counts down the HOLDING ones.  Only when both have committed     *)
(* does evaluate_bar_with_result return the actions of the bar.  Handlers  *)
(* do not interleave, but a transaction may raise and the process may die, *)
(* and then the actions of a committed first phase are lost.  (A first     *)
(* phase that raises is rolled back and changes nothing.)                  *)
(*                                                                         *)
(* The store is a file or, as server.py creates it, memory that dies with  *)
(* the process.  A scan is known by its rank in created_ts order.  Prices  *)
(* are abstracted to the scans whose barriers a bar touches.               *)
(***************************************************************************)
EXTENDS Naturals, Sequences

CONSTANTS MaxScan,     \* bound on the scans ever registered
          MaxLegacy,   \* bound on the legacy rows found in a file
          Symbol,      \* traded symbols
          Candidate,   \* candidate_uid values
          SymbolOf,    \* the symbol a candidate trades
          Horizon,     \* horizons in bars
          Null,        \* NULL
          MaxFaults    \* bound on failures and restarts

ASSUME ScanConstants ==
    /\ MaxScan \in Nat /\ MaxFaults \in Nat
    /\ MaxLegacy \in 0..MaxScan
    /\ SymbolOf \in [Candidate -> Symbol]
    /\ Horizon \subseteq Nat \ {0}
    /\ Null \notin Nat

VARIABLES
    store,    \* "memory" or "file"; never changes
    scan,     \* barrier_scans, "ABSENT" before the INSERT
    eval,     \* the evaluation in progress
    told,     \* history: the actions returned to the caller, by scan
    mute,     \* history: scans whose first-phase action was lost
    seen,     \* history: bars that found the scan SCANNING, and HOLDING
    filled,   \* history: scans whose position was reported to /trades/open
    faults    \* failures and restarts so far

vars == <<store, scan, eval, told, mute, seen, filled, faults>>

-----------------------------------------------------------------------------
Scan == 1..MaxScan
ScanState == {"SCANNING", "HOLDING", "COMPLETED", "RELEASED", "EXPIRED"}
ActiveScanStates == {"SCANNING", "HOLDING"}

\* "LOST": the row was in a memory store whose process died.
\* reserved: reservation_id is set; legacy: signal_close_ask/_bid is NULL;
\* pos: broker_pos_id, named by the scan whose order was filled.
Row == [status: ScanState \union {"ABSENT", "LOST"}, cand: Candidate \union {Null},
        reserved: BOOLEAN, legacy: BOOLEAN, horizon: Horizon \union {0},
        scanRem: Nat, holdRem: Nat, pos: Scan \union {Null}]
NoRow == [status |-> "ABSENT", cand |-> Null, reserved |-> FALSE,
          legacy |-> FALSE, horizon |-> 0, scanRem |-> 0, holdRem |-> 0,
          pos |-> Null]

\* phase "holding": the first transaction of a bar has committed; opened and
\* closed are the scans it moved to HOLDING and to EXPIRED.
Eval == [phase: {"starting", "idle", "holding"}, sym: Symbol \union {Null},
         opened: SUBSET Scan, closed: SUBSET Scan]
NoEval(p) == [phase |-> p, sym |-> Null, opened |-> {}, closed |-> {}]

ActionType == {"OPEN_MARKET", "CLOSE_MARKET", "RELEASE_RESERVATION"}

TypeOK ==
    /\ store \in {"memory", "file"}
    /\ scan \in [Scan -> Row]
    /\ eval \in Eval
    /\ told \in [Scan -> Seq(ActionType)]
    /\ mute \subseteq Scan
    /\ seen \in [Scan -> [scanning: Nat, holding: Nat]]
    /\ filled \subseteq Scan
    /\ faults \in Nat

Rows(st) == {s \in Scan : scan[s].status = st}

\* Mutant of RowsOf: the query also filters on the reservation.
RowsOfReserved(sym, st) ==
    {s \in Rows(st) : SymbolOf[scan[s].cand] = sym /\ scan[s].reserved}

\* WHERE symbol = ? AND status = ?
RowsOf(sym, st) == {s \in Rows(st) : SymbolOf[scan[s].cand] = sym}
Active == {s \in Scan : scan[s].status \in ActiveScanStates}

-----------------------------------------------------------------------------
(* A file may hold rows of an older version, without signal closes. *)
OldRow(st, c, reserved, h) ==
    [NoRow EXCEPT !.status = st, !.cand = c, !.reserved = reserved,
                  !.legacy = TRUE, !.horizon = h, !.scanRem = h,
                  !.holdRem = IF st = "HOLDING" THEN h ELSE 0]
LegacyRow == {OldRow(st, c, reserved, h) : st \in ActiveScanStates,
                c \in Candidate, reserved \in BOOLEAN, h \in Horizon}

Init ==
    /\ store \in {"memory", "file"}
    /\ \E n \in 0..MaxLegacy :
        /\ n > 0 => store = "file"
        /\ scan \in [Scan -> LegacyRow \union {NoRow}]
        /\ \A s \in Scan : scan[s] = NoRow <=> s > n
    /\ eval = NoEval("starting")
    /\ told = [s \in Scan |-> IF scan[s].status = "HOLDING"
                                THEN <<"OPEN_MARKET">> ELSE <<>>]
    /\ mute = {} /\ filled = {}
    /\ seen = [s \in Scan |-> [scanning |-> 0, holding |-> 0]]
    /\ faults = 0

-----------------------------------------------------------------------------
(* reject_legacy_active_scans, at startup *)

\* Mutant of Legacy: the status list forgets the scans with a position.
LegacyScanningOnly == {s \in Rows("SCANNING") : scan[s].legacy}

Legacy == {s \in Active : scan[s].legacy}

Expired(r) == [r EXCEPT !.status = "EXPIRED", !.scanRem = 0]

Tell(acts) == told' = [s \in Scan |-> IF s \in DOMAIN acts
                                        THEN Append(told[s], acts[s])
                                        ELSE told[s]]

\* The caller releases the reservations of the rejected scans.
RejectLegacy ==
    /\ eval.phase = "starting"
    /\ scan' = [s \in Scan |-> IF s \in Legacy
                                 THEN [Expired(scan[s]) EXCEPT !.holdRem = 0]
                                 ELSE scan[s]]
    /\ Tell([s \in {q \in Legacy : scan[q].reserved} |-> "RELEASE_RESERVATION"])
    /\ eval' = NoEval("idle")
    /\ UNCHANGED <<store, mute, seen, filled, faults>>

(* register_scan *)
NewScan(c, h, reserved) ==
    [status |-> "SCANNING", cand |-> c, reserved |-> reserved, legacy |-> FALSE,
     horizon |-> h, scanRem |-> h, holdRem |-> 0, pos |-> Null]

RegisterScan(s, c, h, reserved) ==
    /\ eval.phase = "idle"
    /\ scan[s].status = "ABSENT"
    /\ \A q \in Scan : q < s => scan[q].status # "ABSENT"
    /\ scan' = [scan EXCEPT ![s] = NewScan(c, h, reserved)]
    /\ UNCHANGED <<store, eval, told, mute, seen, filled, faults>>

-----------------------------------------------------------------------------
(* evaluate_bar_with_result *)

\* BarTouchSemantics.evaluate; hl is the sign of hl_first.
TouchSide(s, up, dn, hl) ==
    CASE s \in up \ dn -> "BUY"
      [] s \in dn \ up -> "SELL"
      [] s \in up \intersect dn -> IF hl = "high" THEN "BUY"
                                   ELSE IF hl = "low" THEN "SELL" ELSE "tie"
      [] OTHER -> "none"

\* What one bar makes of a SCANNING row.
Step(r, side) ==
    IF side \in {"BUY", "SELL"}
      THEN [r EXCEPT !.status = "HOLDING", !.holdRem = r.horizon]
    ELSE IF side = "tie" \/ r.scanRem <= 1 THEN Expired(r)
    ELSE [r EXCEPT !.scanRem = r.scanRem - 1]

\* _process_scanning_scans and its transaction
EvaluateScanning(sym, up, dn, hl) ==
    LET rows == RowsOf(sym, "SCANNING")
        next == [s \in rows |-> Step(scan[s], TouchSide(s, up, dn, hl))]
    IN
    /\ eval.phase = "idle"
    /\ scan' = [s \in Scan |-> IF s \in rows THEN next[s] ELSE scan[s]]
    /\ seen' = [s \in Scan |-> IF s \in rows
                                 THEN [seen[s] EXCEPT !.scanning = @ + 1]
                                 ELSE seen[s]]
    /\ eval' = [phase |-> "holding", sym |-> sym,
                opened |-> {s \in rows : next[s].status = "HOLDING"},
                closed |-> {s \in rows : next[s].status = "EXPIRED"}]
    /\ UNCHANGED <<store, told, mute, filled, faults>>

\* Mutant of Counted: the scans opened by this bar are counted down as well.
CountedWithOpened == RowsOf(eval.sym, "HOLDING")

\* The HOLDING rows of the symbol but those opened by this very bar.
Counted == RowsOf(eval.sym, "HOLDING") \ eval.opened

\* Mutant of CountDown: the test sees the counter before it is decremented.
CountDownLate(r) ==
    IF r.holdRem = 0 THEN [r EXCEPT !.status = "COMPLETED"]
    ELSE [r EXCEPT !.holdRem = r.holdRem - 1]

CountDown(r) ==
    IF r.holdRem <= 1 THEN [r EXCEPT !.status = "COMPLETED", !.holdRem = 0]
    ELSE [r EXCEPT !.holdRem = r.holdRem - 1]

\* Mutant of Released: an action for every expired scan.
ReleasedUnconditionally == eval.closed

\* Mutant of Released: the test on reservation_id is inverted.
ReleasedInverted == {s \in eval.closed : ~scan[s].reserved}

\* The first phase has a RELEASE_RESERVATION for these.
Released == {s \in eval.closed : scan[s].reserved}

\* _process_holding_scans, its transaction, and the return of the actions
EvaluateHolding ==
    LET done == {s \in Counted : CountDown(scan[s]).status = "COMPLETED"}
    IN
    /\ eval.phase = "holding"
    /\ scan' = [s \in Scan |-> IF s \in Counted THEN CountDown(scan[s])
                                ELSE scan[s]]
    /\ seen' = [s \in Scan |->
                  IF s \in RowsOf(eval.sym, "HOLDING") \ eval.opened
                    THEN [seen[s] EXCEPT !.holding = @ + 1] ELSE seen[s]]
    /\ Tell([s \in eval.opened \union Released \union done |->
                CASE s \in eval.opened -> "OPEN_MARKET"
                  [] s \in Released -> "RELEASE_RESERVATION"
                  [] OTHER -> "CLOSE_MARKET"])
    /\ eval' = NoEval("idle")
    /\ UNCHANGED <<store, mute, filled, faults>>

\* The second transaction raises: rolled back, the first one stays.
HoldingFails ==
    /\ eval.phase = "holding"
    /\ faults < MaxFaults /\ faults' = faults + 1
    /\ mute' = mute \union eval.opened \union eval.closed
    /\ eval' = NoEval("idle")
    /\ UNCHANGED <<store, scan, told, seen, filled>>

-----------------------------------------------------------------------------
(* find_holding_scans and set_broker_pos_id, as /trades/open calls them *)

\* Mutant of Linked: every unlinked scan of the candidate (no break).
LinkedAll(c) == {s \in Rows("HOLDING") : scan[s].cand = c /\ scan[s].pos = Null}

\* The newest HOLDING scan of the candidate without a position.
Linked(c) ==
    LET free == {s \in Rows("HOLDING") : scan[s].cand = c /\ scan[s].pos = Null}
    IN  {s \in free : \A q \in free : q <= s}

\* The fill of the order for scan s; the client reports each fill once.
LinkPosition(s) ==
    /\ eval.phase = "idle"
    /\ "OPEN_MARKET" \in {told[s][i] : i \in DOMAIN told[s]}
    /\ s \notin filled
    /\ filled' = filled \union {s}
    /\ scan' = [q \in Scan |-> IF q \in Linked(scan[s].cand)
                                 THEN [scan[q] EXCEPT !.pos = s] ELSE scan[q]]
    /\ UNCHANGED <<store, eval, told, mute, seen, faults>>

-----------------------------------------------------------------------------
(* The process dies, between any two transactions, and is started again. *)
Lost(r) == IF r.status = "ABSENT" THEN r ELSE [r EXCEPT !.status = "LOST"]

Restart ==
    /\ faults < MaxFaults /\ faults' = faults + 1
    /\ scan' = IF store = "file" THEN scan
               ELSE [s \in Scan |-> Lost(scan[s])]
    /\ mute' = mute \union eval.opened \union eval.closed
    /\ eval' = NoEval("starting")
    /\ UNCHANGED <<store, told, seen, filled>>

-----------------------------------------------------------------------------
Evaluate(sym) ==
    \E up \in SUBSET RowsOf(sym, "SCANNING"),
       dn \in SUBSET RowsOf(sym, "SCANNING"), hl \in {"high", "low", "none"} :
        EvaluateScanning(sym, up, dn, hl)

Next ==
    \/ RejectLegacy
    \/ \E s \in Scan, c \in Candidate, h \in Horizon, reserved \in BOOLEAN :
           RegisterScan(s, c, h, reserved)
    \/ \E sym \in Symbol : Evaluate(sym)
    \/ EvaluateHolding
    \/ HoldingFails
    \/ \E s \in Scan : LinkPosition(s)
    \/ Restart

Spec == Init /\ [][Next]_vars

\* The handlers run to their end, the lifespan starts, and bars of every
\* symbol keep arriving.
FairSpec ==
    /\ Spec
    /\ WF_vars(RejectLegacy)
    /\ WF_vars(EvaluateHolding)
    /\ \A sym \in Symbol : SF_vars(Evaluate(sym))

-----------------------------------------------------------------------------
(* Properties *)

\* Decided by the first phase of the bar in progress, not told yet.
Undelivered == eval.opened \union eval.closed

\* What may have been told about scan s: an entry and at most one exit, or
\* the release of its reservation; an exit without an entry only when the
\* entry was lost in an interrupted bar; an entry and a release only for a
\* legacy scan, whose position the previous version had opened.
LegalStory(s) ==
    \/ told[s] = <<>>
    \/ told[s] = <<"OPEN_MARKET">> /\ s \notin mute
    \/ /\ told[s] = <<"OPEN_MARKET", "CLOSE_MARKET">>
       /\ s \notin mute /\ ~scan[s].legacy
    \/ told[s] = <<"CLOSE_MARKET">> /\ s \in mute
    \/ told[s] = <<"RELEASE_RESERVATION">> /\ scan[s].reserved /\ s \notin mute
    \/ /\ told[s] = <<"OPEN_MARKET", "RELEASE_RESERVATION">>
       /\ scan[s].reserved /\ scan[s].legacy

\* A scan never buys twice, never sells twice or before it bought, and never
\* gives up the reservation of a position it opened, whatever transactions of
\* evaluate_bar_with_result fail and whenever the process dies.
OneEntryOneExit == \A s \in Scan : LegalStory(s)

\* A scan whose state was committed has had its action told, unless the bar
\* is still in progress or was interrupted: no HOLDING scan without an entry,
\* no COMPLETED one without an exit, no EXPIRED one still holding capital.
ActionsFollowStates ==
    \A s \in Scan \ (Undelivered \union mute) :
        /\ scan[s].status \in {"ABSENT", "SCANNING"} => told[s] = <<>>
        /\ scan[s].status = "HOLDING" => told[s] = <<"OPEN_MARKET">>
        /\ scan[s].status = "COMPLETED" =>
               told[s] = <<"OPEN_MARKET", "CLOSE_MARKET">>
        /\ (scan[s].status = "EXPIRED" /\ scan[s].reserved) =>
               told[s] # <<>> /\ told[s] # <<"OPEN_MARKET">>

\* A scan is watched for at most its horizon and held for exactly its
\* horizon, counted in evaluated bars that found it in that state: the bar
\* that touches it does not count as a held bar, also when the second
\* transaction of that bar or of a later one fails.
HorizonsCountBars ==
    \A s \in Scan :
        LET r == scan[s] IN
        ~r.legacy =>
            /\ r.status = "SCANNING" =>
                 r.scanRem >= 1 /\ r.scanRem + seen[s].scanning = r.horizon
            /\ r.status \in {"HOLDING", "COMPLETED", "EXPIRED"} =>
                 seen[s].scanning \in 1..r.horizon
            /\ r.status = "HOLDING" =>
                 r.holdRem >= 1 /\ r.holdRem + seen[s].holding = r.horizon
            /\ r.status = "COMPLETED" => seen[s].holding = r.horizon

\* A broker position is linked to one scan at most, and only to a scan of the
\* candidate whose order was filled (/trades/open over find_holding_scans).
PositionsLinkedOnce ==
    \A s \in Scan :
        scan[s].pos # Null =>
            /\ scan[scan[s].pos].cand = scan[s].cand
            /\ scan[s].pos \in filled
            /\ \A q \in Scan \ {s} : scan[q].pos # scan[s].pos

\* A scan of the older schema causes no order: the only thing ever told
\* about it is the release of its reservation (reject_legacy_active_scans).
LegacyNeverTrades ==
    [][\A s \in Scan : scan[s].legacy =>
          told'[s] \in {told[s], Append(told[s], "RELEASE_RESERVATION")}]_vars

\* The life of a scan as the caller may think of it; during a bar, the scans
\* of the first phase have not moved yet.
StageOf(s) ==
    IF s \in Undelivered THEN "watching"
    ELSE CASE scan[s].status = "ABSENT" -> "none"
           [] scan[s].status = "SCANNING" -> "watching"
           [] scan[s].status = "HOLDING" -> "entered"
           [] scan[s].status = "COMPLETED" -> "exited"
           [] scan[s].status = "LOST" -> "forgotten"
           [] OTHER -> "dropped"

Lifecycle == INSTANCE ScanLifecycle
                 WITH stage <- [s \in Scan |-> StageOf(s)]

\* The two transactions of a bar appear to the caller as one step of
\* ScanLifecycle: all actions of the bar, or an interrupted bar with none.
ImplementsLifecycle == Lifecycle!Spec

\* With bars arriving, every scan comes to its end and frees what it holds.
ScansEnd == \A s \in Scan : s \in Active ~> s \notin Active

=============================================================================
