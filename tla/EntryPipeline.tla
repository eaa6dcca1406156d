---------------------------- MODULE EntryPipeline ----------------------------
(***************************************************************************)
(* From a selected prediction to a closed position: the handlers of the    *)
(* server (/predict as PredictionOrchestrator.execute runs it, the orphan  *)
(* cleanup, /trades/open and /trades/update) over the reservations and the *)
(* barrier scans, and the JForex client that turns actions into orders and *)
(* reports what the broker did.                                            *)
(*                                                                         *)
(* The two tables move as their abstract specifications say: reservations  *)
(* by ReservationLedger, scans by ScanLifecycle (implemented by            *)
(* ReservationStore and BarrierScans).  Handlers do not interleave, but    *)
(* every table commits by itself, a handler may raise between two commits, *)
(* and a response or a report may be lost; the client retries nothing.     *)
(*                                                                         *)
(* An entry is a selected prediction, and gives its name to its            *)
(* reservation, scan, order and broker position.  One symbol; requests for *)
(* other symbols only run step 4 here.  Reservations are on disk, scans in *)
(* memory, as server.py creates them.                                      *)
(***************************************************************************)
EXTENDS Naturals

CONSTANTS Entry,      \* selected predictions
          Null,       \* no broker position
          MaxBars,    \* bar sizes evaluated by one request
          MaxFaults   \* bound on failures, losses and restarts

ASSUME PipelineConstants ==
    /\ Null \notin Entry
    /\ MaxBars \in Nat \ {0} /\ MaxFaults \in Nat

VARIABLES
    resv, bound,   \* ReservationLedger: status and broker position
    old,           \* reservations older than the pending TTL
    scan, told,    \* ScanLifecycle: stage, and actions returned
    req,           \* the /predict request in progress
    inbox,         \* actions of the last response, not executed yet
    order,         \* the broker's orders
    stray,         \* orders placed by a submission that timed out
    closing,       \* orders the client has asked the broker to close
    reports,       \* broker events not reported to the server yet
    trade,         \* the trades table
    torn,          \* history: reports whose handler raised half way
    faults

vars == <<resv, bound, old, scan, told, req, inbox, order, stray, closing,
          reports, trade, torn, faults>>
tables == <<resv, bound, scan, told, trade>>
client == <<inbox, order, stray, closing, reports>>

Ledger == INSTANCE ReservationLedger
              WITH Reservation <- Entry, Position <- Entry,
                   NoPosition <- Null, status <- resv, position <- bound
Scans == INSTANCE ScanLifecycle WITH Scan <- Entry, stage <- scan

-----------------------------------------------------------------------------
ActiveScan == {"watching", "entered"}
Action == {"OPEN", "CLOSE"} \X Entry

\* phase "select": steps 4 and 5; "bars": steps 6 and 7.  rows: reservations
\* still to expire or to release; bars: bar sizes still to evaluate;
\* chosen: selected entries without a scan; out: the actions prepared.
Request == [phase: {"idle", "select", "bars"}, rows: SUBSET Entry,
            bars: 0..MaxBars, chosen: SUBSET Entry, out: SUBSET Action]

Idle == [phase |-> "idle", rows |-> {}, bars |-> 0, chosen |-> {}, out |-> {}]

TypeOK ==
    /\ Ledger!TypeOK
    /\ scan \in [Entry -> Scans!Stage]
    /\ told \in [Entry -> {<<>>, <<"OPEN_MARKET">>, <<"CLOSE_MARKET">>,
                           <<"RELEASE_RESERVATION">>,
                           <<"OPEN_MARKET", "CLOSE_MARKET">>}]
    /\ req \in Request
    /\ req.phase = "idle" =>
         req.rows \union req.chosen = {} /\ req.bars = 0 /\ req.out = {}
    /\ inbox \subseteq Action
    /\ order \in [Entry -> {"none", "working", "filled", "closed", "rejected"}]
    /\ trade \in [Entry -> {"none", "OPEN", "CLOSED"}]
    /\ old \union stray \union closing \union torn \subseteq Entry
    /\ reports \subseteq {"fill", "close"} \X Entry
    /\ faults \in 0..MaxFaults

Init ==
    /\ Ledger!Init
    /\ scan = [e \in Entry |-> "none"]
    /\ told = [e \in Entry |-> <<>>]
    /\ req = [phase |-> "idle", rows |-> {}, bars |-> 0, chosen |-> {}, out |-> {}]
    /\ order = [e \in Entry |-> "none"]
    /\ trade = [e \in Entry |-> "none"]
    /\ inbox = {} /\ old = {} /\ stray = {} /\ closing = {} /\ reports = {}
    /\ torn = {}
    /\ faults = 0

Fault == faults < MaxFaults /\ faults' = faults + 1

-----------------------------------------------------------------------------
(* /predict *)

Pending == {e \in Entry : resv[e] = "PENDING"}

\* The worker of the symbol posts one request at a time.
StartPredict ==
    /\ req.phase = "idle" /\ inbox = {}
    /\ \E n \in 1..MaxBars :
         req' = [Idle EXCEPT !.phase = "select", !.bars = n,
                             !.rows = Pending \intersect old]
    /\ UNCHANGED <<tables, client, old, torn, faults>>

\* Step 4: pending reservations past their TTL, whatever their scans do.
ExpireRow(e) ==
    /\ req.phase = "select" /\ e \in req.rows
    /\ Ledger!Move(e, "EXPIRED")
    /\ req' = [req EXCEPT !.rows = @ \ {e}]
    /\ UNCHANGED <<old, scan, told, client, trade, torn, faults>>

\* Step 5, the injected build_predictions_fn: the allocator reserves capital.
Select(e) ==
    /\ req.phase = "select" /\ req.rows = {}
    /\ Ledger!Create(e) /\ resv'[e] = "PENDING"
    /\ req' = [req EXCEPT !.chosen = @ \union {e}]
    /\ UNCHANGED <<old, scan, told, client, trade, torn, faults>>

\* Mutant of ToRelease: every action that carries a reservation_id.
ToReleaseAll(in, out) == in \union out

\* The RELEASE_RESERVATION actions among those of a bar.
ToRelease(in, out) == out

\* Step 6 for one bar size: the actions of the bar, then its releases.
EvaluateBar(in, out, done) ==
    /\ req.phase # "idle" /\ req.rows = {} /\ req.bars > 0
    /\ Scans!Bar(in, out, done, out)
    /\ req' = [req EXCEPT !.phase = "bars", !.bars = @ - 1,
                          !.rows = ToRelease(in, out),
                          !.out = @ \union ({"OPEN"} \X in)
                                    \union ({"CLOSE"} \X done)]
    /\ UNCHANGED <<resv, bound, old, client, trade, torn, faults>>

\* prepare_predict_actions; a reservation already freed is only logged.
ReleaseRow(e) ==
    /\ req.phase = "bars" /\ e \in req.rows
    /\ IF resv[e] \in Ledger!ActiveStates THEN Ledger!Move(e, "RELEASED")
                                          ELSE UNCHANGED <<resv, bound>>
    /\ req' = [req EXCEPT !.rows = @ \ {e}]
    /\ UNCHANGED <<old, scan, told, client, trade, torn, faults>>

Evaluated == req.phase = "bars" /\ req.rows = {} /\ req.bars = 0

\* Step 7, the injected register_scans_fn.
RegisterScan(e) ==
    /\ Evaluated /\ e \in req.chosen
    /\ Scans!Watch(e)
    /\ req' = [req EXCEPT !.chosen = @ \ {e}]
    /\ UNCHANGED <<resv, bound, old, client, trade, torn, faults>>

Respond ==
    /\ Evaluated /\ req.chosen = {}
    /\ inbox' = req.out
    /\ req' = Idle
    /\ UNCHANGED <<tables, old, order, stray, closing, reports, torn, faults>>

\* A step raises, or the response is lost: the client sees an error and
\* goes on with the next bar.
RequestFails ==
    /\ req.phase # "idle"
    /\ Fault
    /\ req' = Idle
    /\ UNCHANGED <<tables, client, old, torn>>

\* The second transaction of the barrier manager raises.
EvaluationFails(in, out) ==
    /\ req.phase # "idle" /\ req.rows = {} /\ req.bars > 0
    /\ Fault
    /\ Scans!Interrupted(in, out)
    /\ req' = Idle
    /\ UNCHANGED <<resv, bound, old, client, trade, torn>>

EvaluateBars ==
    \E in \in SUBSET Scans!Watching : \E out \in SUBSET (Scans!Watching \ in) :
        \E done \in SUBSET Scans!Entered : EvaluateBar(in, out, done)

-----------------------------------------------------------------------------
(* _orphan_reservation_cleanup_loop *)
Ages(e) ==
    /\ resv[e] = "PENDING" /\ e \notin old
    /\ old' = old \union {e}
    /\ UNCHANGED <<tables, req, client, torn, faults>>

\* Mutants of Orphaned: without the query, and without its status filter.
OrphanedAnyway(e) == e \in Pending \intersect old
OrphanedNeverWatched(e) == e \in Pending \intersect old /\ scan[e] = "none"

\* No active scan refers to the reservation.
Orphaned(e) == e \in Pending \intersect old /\ scan[e] \notin ActiveScan

OrphanCleanup(e) ==
    /\ req.phase = "idle"
    /\ Orphaned(e)
    /\ Ledger!Move(e, "RELEASED")
    /\ UNCHANGED <<old, scan, told, req, client, trade, torn, faults>>

-----------------------------------------------------------------------------
(* The client: executeActions and OrderBookingService *)

\* Mutant of Executed: the action stays in the list.
ExecutedAgain(a) == inbox

Executed(a) == inbox \ {a}

Submit(e) ==
    /\ <<"OPEN", e>> \in inbox
    /\ inbox' = Executed(<<"OPEN", e>>)
    /\ order' = [order EXCEPT ![e] = "working"]
    /\ UNCHANGED <<tables, old, req, stray, closing, reports, torn, faults>>

\* Entries are not allowed, or the engine refuses the order.
Blocked(e) ==
    /\ <<"OPEN", e>> \in inbox
    /\ inbox' = Executed(<<"OPEN", e>>)
    /\ UNCHANGED <<tables, old, req, order, stray, closing, reports, torn, faults>>

\* The submission times out, label and context are removed, and the strategy
\* thread places the order after all.
SubmitTimesOut(e) ==
    /\ Fault
    /\ <<"OPEN", e>> \in inbox
    /\ inbox' = Executed(<<"OPEN", e>>)
    /\ order' = [order EXCEPT ![e] = "working"]
    /\ stray' = stray \union {e}
    /\ UNCHANGED <<tables, old, req, closing, reports, torn>>

\* Mutant of Labelled: the label is dropped with the fill.
LabelledUntilFill(e) == order[e] = "working" /\ e \notin stray

\* scanToOrderLabel has the scan.
Labelled(e) == order[e] # "none" /\ e \notin stray

\* closePositionByScanId; a scan without label is skipped.
SendClose(e) ==
    /\ <<"CLOSE", e>> \in inbox /\ <<"OPEN", e>> \notin inbox
    /\ inbox' = Executed(<<"CLOSE", e>>)
    /\ closing' = IF Labelled(e) THEN closing \union {e} ELSE closing
    /\ UNCHANGED <<tables, old, req, order, stray, reports, torn, faults>>

\* The close raises after the label was removed.
CloseFails(e) ==
    /\ Fault
    /\ <<"CLOSE", e>> \in inbox /\ <<"OPEN", e>> \notin inbox
    /\ inbox' = Executed(<<"CLOSE", e>>)
    /\ UNCHANGED <<tables, old, req, order, stray, closing, reports, torn>>

-----------------------------------------------------------------------------
(* The broker *)
Becomes(e, st) ==
    /\ order' = [order EXCEPT ![e] = st]
    /\ UNCHANGED <<tables, old, req, inbox, stray, closing, torn, faults>>

Fill(e) ==
    /\ order[e] = "working"
    /\ reports' = reports \union {<<"fill", e>>}
    /\ Becomes(e, "filled")

Reject(e) ==
    /\ order[e] = "working"
    /\ UNCHANGED reports
    /\ Becomes(e, "rejected")

\* Closing an order that is not filled yet cancels it.
CloseDone(e) ==
    /\ order[e] \in {"working", "filled"} /\ e \in closing
    /\ reports' = reports \union {<<"close", e>>}
    /\ Becomes(e, "closed")

-----------------------------------------------------------------------------
(* /trades/open and /trades/update, called by OrderLifecycleHandler.  (The *)
(* position is linked to a scan as well, BarrierScans!LinkPosition.)       *)

\* The strategy thread reports one event after the other.
Reports(k, e) ==
    /\ <<k, e>> \in reports
    /\ k = "close" => <<"fill", e>> \notin reports
    /\ reports' = reports \ {<<k, e>>}
    /\ UNCHANGED <<old, scan, told, req, inbox, order, stray, closing>>

Opened(e) == trade' = [trade EXCEPT ![e] = "OPEN"]

\* UPDATE trades ... WHERE broker_pos_id = ? may find no row.
Closed(e) ==
    trade' = [trade EXCEPT ![e] = IF @ = "OPEN" THEN "CLOSED" ELSE @]

\* A stray fill has lost the context with the reservation_id.
OpenTrade(e) ==
    /\ req.phase = "idle"
    /\ Reports("fill", e)
    /\ Opened(e)
    /\ IF e \notin stray /\ resv[e] = "PENDING" THEN Ledger!Promote(e, e)
                                                ELSE UNCHANGED <<resv, bound>>
    /\ UNCHANGED <<torn, faults>>

\* Mutant of HeldBy: the query only looks for pending reservations.
HeldByPending(e) == {r \in Pending : bound[r] = e}

\* The active reservations with this broker_pos_id.
HeldBy(e) == {r \in Entry : resv[r] \in Ledger!ActiveStates /\ bound[r] = e}

UpdateTrade(e) ==
    /\ req.phase = "idle"
    /\ Reports("close", e)
    /\ Closed(e)
    /\ resv' = [r \in Entry |-> IF r \in HeldBy(e) THEN "RELEASED" ELSE resv[r]]
    /\ UNCHANGED <<bound, torn, faults>>

\* The handler raises after its first commit, or the call does not arrive.
ReportFails(k, e) ==
    /\ req.phase = "idle"
    /\ Fault
    /\ Reports(k, e)
    /\ \/ UNCHANGED trade
       \/ k = "fill" /\ Opened(e)
       \/ k = "close" /\ Closed(e)
    /\ torn' = torn \union {e}
    /\ UNCHANGED <<resv, bound>>

-----------------------------------------------------------------------------
\* The server dies and is started again.
Restart ==
    /\ Fault
    /\ Scans!Forget
    /\ req' = Idle
    /\ UNCHANGED <<resv, bound, old, client, trade, torn>>

Handler(e) == OpenTrade(e) \/ UpdateTrade(e)
Broker(e) == Fill(e) \/ Reject(e) \/ CloseDone(e)
Execute(e) == Submit(e) \/ Blocked(e) \/ SendClose(e)

Next ==
    \/ StartPredict
    \/ \E e \in Entry : ExpireRow(e)
    \/ \E e \in Entry : Select(e)
    \/ EvaluateBars
    \/ \E e \in Entry : ReleaseRow(e)
    \/ \E e \in Entry : RegisterScan(e)
    \/ Respond
    \/ RequestFails
    \/ \E in \in SUBSET Scans!Watching :
           \E out \in SUBSET (Scans!Watching \ in) : EvaluationFails(in, out)
    \/ \E e \in Entry : Ages(e)
    \/ \E e \in Entry : OrphanCleanup(e)
    \/ \E e \in Entry : Submit(e)
    \/ \E e \in Entry : Blocked(e)
    \/ \E e \in Entry : SubmitTimesOut(e)
    \/ \E e \in Entry : SendClose(e)
    \/ \E e \in Entry : CloseFails(e)
    \/ \E e \in Entry : Fill(e)
    \/ \E e \in Entry : Reject(e)
    \/ \E e \in Entry : CloseDone(e)
    \/ \E e \in Entry : OpenTrade(e)
    \/ \E e \in Entry : UpdateTrade(e)
    \/ \E k \in {"fill", "close"}, e \in Entry : ReportFails(k, e)
    \/ Restart

Spec == Init /\ [][Next]_vars

\* A request that was started runs on.
RequestRuns ==
    \/ \E e \in Entry : ExpireRow(e) \/ ReleaseRow(e) \/ RegisterScan(e)
    \/ EvaluateBars
    \/ Respond

\* Steps that time, the client and the broker take by themselves, and steps that
\* wait for the server's event loop to be free.
Outside(e) == Ages(e) \/ Execute(e) \/ Broker(e)
InTheLoop(e) == OrphanCleanup(e) \/ Handler(e)

\* Handlers run to their end, and a client whose scan is active keeps calling
\* /predict.  Time passes, client and broker do their part; and the loop turns:
\* reports are answered, the cleanup task has its turns, and bars complete until
\* one of them ends the scan (BarrierScans!ScansEnd).  An entry takes each of
\* these steps only finitely often, so that one condition for all entries and
\* kinds of steps says the same as one for each.
FairSpec ==
    /\ Spec
    /\ WF_vars(RequestRuns)
    /\ WF_vars(StartPredict /\ \E e \in Entry : scan[e] \in ActiveScan)
    /\ WF_vars(\E e \in Entry : Outside(e))
    /\ SF_vars(\/ EvaluateBars /\ scan' # scan
               \/ \E e \in Entry : InTheLoop(e))

-----------------------------------------------------------------------------
(* Properties *)

\* An OPEN_MARKET on its way to the broker belongs to a scan that entered and
\* has no order yet, whichever steps, responses and submissions fail; so no
\* scan ever buys twice (orchestrator, worker and booking service together).
OneOrderPerScan ==
    \A e \in Entry :
        <<"OPEN", e>> \in req.out \union inbox =>
            /\ order[e] = "none"
            /\ scan[e] \in {"entered", "exited", "forgotten"}
            /\ <<"OPEN", e>> \notin req.out \intersect inbox

\* Apart from the TTL of step 4, nothing frees capital that is in use: step 6
\* and the cleanup only free what no active scan refers to, and a report of a
\* close frees only what the broker has closed.
FreedOnlyWhenOver ==
    [][\A e \in Entry :
          resv[e] # "RELEASED" /\ resv'[e] = "RELEASED" =>
              \/ resv[e] = "PENDING" /\ scan[e] \notin ActiveScan
              \/ resv[e] = "OPEN" /\ order[e] = "closed"]_vars

\* Outside handlers that raised, an OPEN reservation is bound to its own
\* position, and that position is an open trade.
CapitalMatchesTrades ==
    \A e \in Entry :
        resv[e] = "OPEN" =>
            /\ bound[e] = e /\ order[e] \in {"filled", "closed"}
            /\ trade[e] = "OPEN" \/ e \in torn

\* A reported position whose scan is running holds capital, unless step 4 took
\* it before the fill or the report was torn or stray.
PositionsCovered ==
    \A e \in Entry :
        /\ trade[e] = "OPEN" /\ scan[e] = "entered"
        /\ e \notin stray \union torn
        => resv[e] \in {"OPEN", "EXPIRED"}

\* Nothing is left to a scan any more: it ended, or was never registered.
ScanOver(e) ==
    \/ scan[e] \in {"exited", "dropped", "forgotten"}
    \/ scan[e] = "none" /\ req.phase = "idle"

\* Every pending reservation whose scan is over is freed, although requests
\* need not come any more once no scan is active: by the cleanup loop then.
OrphansFreed ==
    \A e \in Entry : resv[e] = "PENDING" /\ ScanOver(e) ~> resv[e] # "PENDING"

InUse(e) ==
    resv[e] \in Ledger!ActiveStates \/ order[e] \in {"working", "filled"}

\* Unless something failed, the system comes to rest: every reservation has given
\* its capital back, every order that reached the broker has come to its end,
\* and both stay so.
AllComesToAnEnd == <>[](faults > 0 \/ \A e \in Entry : ~InUse(e))

\* ReservationState.EXPIRED is documented as "expired without being opened
\* (horizon expired)": its scan would be over.  Step 4 does not look.
ExpiredMeansHorizonOver ==
    \A e \in Entry : resv[e] = "EXPIRED" => scan[e] \notin ActiveScan

\* CONTEXT.md has the state manager persist barrier state and position
\* lifecycle: after a restart an open trade would find its scan again, which
\* is all that ever closes the position.
OpenTradesKeepTheirScans ==
    \A e \in Entry : trade[e] = "OPEN" => scan[e] # "forgotten"

=============================================================================
