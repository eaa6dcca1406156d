------------------------------ MODULE OrderFlow ------------------------------
(***************************************************************************)
(* The client's order path: the worker thread that executes the actions of *)
(* a prediction (SymbolWorker.executeActions, OrderBookingService), the    *)
(* single strategy thread that has to run every broker call for it         *)
(* (JForexExecutionPort.executeOnStrategyThread) but also drains the       *)
(* worker, handles the broker's messages (OrderLifecycleHandler) and stops *)
(* everything, and the broker.                                             *)
(*                                                                         *)
(* A caller waits ten seconds for its task and then gives up; the task     *)
(* stays queued.  The strategy thread is too slow for that when a report   *)
(* of a fill or a close is posted (sixty seconds), and it cannot run tasks *)
(* at all while it waits for the worker or stops.  One symbol; a scan is   *)
(* one trade, told to OPEN once and to CLOSE once by the server (module    *)
(* ScanLifecycle says so).                                                 *)
(***************************************************************************)
EXTENDS Naturals, SequencesExt

CONSTANTS Scan,      \* barrier scans
          MaxFaults, \* bound on failed calls, slow tasks and restarts
          MaxPauses  \* bound on changes of the readiness of entries

ASSUME FlowConstants == {MaxFaults, MaxPauses} \subseteq Nat

VARIABLES
    told,     \* per scan, what the server has told: none, OPEN, CLOSE
    allowed,  \* entriesAllowed of the symbol
    strategy, \* the strategy thread: free, draining, stopping, stopped
    acts,     \* the actions the worker has yet to execute
    busy,     \* the worker has a batch in hand (pendingCount > 0)
    call,     \* the task the worker waits for, and its outcome
    tasks,    \* tasks queued on the strategy thread
    label,    \* scans in scanToOrderLabel
    fills,    \* scans whose PendingFillContext is kept
    order,    \* the broker's order of the scan
    messages, \* broker messages to the strategy, in order
    trade,    \* what the server was told of the trade of the scan
    faults, pauses,
    givenUp,  \* history: scans whose submission failed or timed out
    cut,      \* history: scans whose close failed, timed out, was rejected
    forgotten \* history: scans open when the client restarted

worker == <<acts, busy, call>>
booking == <<label, fills>>
broker == <<order, messages>>
bounds == <<faults, pauses>>
histories == <<givenUp, cut, forgotten>>
vars == <<told, allowed, strategy, worker, tasks, booking, broker, trade,
          bounds, histories>>

-----------------------------------------------------------------------------
Kind == {"OPEN", "CLOSE"}
Task == [kind : Kind, scan : Scan]
NoCall == [kind |-> "none"]
Message == {"FILL_OK", "REJECTED", "CLOSE_OK", "CLOSE_REJECTED"}

Init ==
    /\ told = [s \in Scan |-> "none"] /\ allowed = TRUE /\ strategy = "free"
    /\ acts = <<>> /\ busy = FALSE /\ call = NoCall /\ tasks = <<>>
    /\ label = {} /\ fills = {}
    /\ order = [s \in Scan |-> "none"] /\ messages = <<>>
    /\ trade = [s \in Scan |-> "none"]
    /\ faults = 0 /\ pauses = 0 /\ givenUp = {} /\ cut = {} /\ forgotten = {}

Fault == faults < MaxFaults /\ faults' = faults + 1 /\ UNCHANGED pauses

-----------------------------------------------------------------------------
(* The worker thread; at the end of stop() the strategy thread in its place. *)

Executing == busy /\ call = NoCall

\* The server's next action of a scan, if any.
Due(s) == CASE told[s] = "none" -> "OPEN" [] told[s] = "OPEN" -> "CLOSE"
            [] OTHER -> "none"

\* A batch of ticks was posted and predictions came back, with or without
\* actions; or the response was lost and its actions with it.
Predict ==
    /\ ~busy /\ strategy \in {"free", "draining", "stopping"}
    /\ \E s \in Scan :
         /\ Due(s) # "none"
         /\ told' = [told EXCEPT ![s] = Due(s)]
         /\ \/ /\ acts' = <<[kind |-> Due(s), scan |-> s]>>
               /\ UNCHANGED bounds
            \/ \E t \in Scan \ {s} :
                 /\ Due(t) # "none"
                 /\ told' = [told EXCEPT ![s] = Due(s), ![t] = Due(t)]
                 /\ acts' = <<[kind |-> Due(s), scan |-> s],
                              [kind |-> Due(t), scan |-> t]>>
                 /\ UNCHANGED bounds
            \/ acts' = <<>> /\ Fault
    /\ busy' = TRUE
    /\ UNCHANGED <<allowed, strategy, call, tasks, booking, broker, trade,
                   histories>>

Done ==
    /\ Executing /\ acts = <<>>
    /\ busy' = FALSE
    /\ UNCHANGED <<told, allowed, strategy, acts, call, tasks, booking, broker,
                   trade, bounds, histories>>

\* executeTask hands the task over; the caller then waits for its future.
Ask(t) ==
    /\ tasks' = Append(tasks, t)
    /\ call' = [kind |-> t.kind, scan |-> t.scan, result |-> "none"]
    /\ acts' = Tail(acts)

\* submitMarketOrder: label and fill context are there before the order is.
Submit ==
    /\ Executing /\ acts # <<>> /\ Head(acts).kind = "OPEN" /\ allowed
    /\ label' = label \union {Head(acts).scan}
    /\ fills' = fills \union {Head(acts).scan}
    /\ Ask(Head(acts))
    /\ UNCHANGED <<told, allowed, strategy, busy, broker, trade, bounds,
                   histories>>

\* An entry is blocked, or a close finds no label: the action is dropped.
Skip ==
    /\ Executing /\ acts # <<>>
    /\ \/ Head(acts).kind = "OPEN" /\ ~allowed
       \/ Head(acts).kind = "CLOSE" /\ Head(acts).scan \notin label
    /\ acts' = Tail(acts)
    /\ UNCHANGED <<told, allowed, strategy, busy, call, tasks, booking, broker,
                   trade, bounds, histories>>

\* Mutant of Unlabelled: every label goes with the first close.
UnlabelledAll(s) == {}

\* closePositionByScanId: the label goes before the close is tried.
Unlabelled(s) == label \ {s}

Close ==
    /\ Executing /\ acts # <<>> /\ Head(acts).kind = "CLOSE"
    /\ Head(acts).scan \in label
    /\ label' = Unlabelled(Head(acts).scan)
    /\ Ask(Head(acts))
    /\ UNCHANGED <<told, allowed, strategy, busy, fills, broker, trade, bounds,
                   histories>>

\* The outcome of a call: a failed submission takes its label and its context
\* back, a failed close changes nothing.
Settle(ok) ==
    /\ call' = NoCall
    /\ IF ok \/ call.kind = "CLOSE"
       THEN UNCHANGED <<label, fills, givenUp>>
       ELSE /\ label' = label \ {call.scan}
            /\ fills' = fills \ {call.scan}
            /\ givenUp' = givenUp \union {call.scan}
    /\ cut' = IF ok \/ call.kind = "OPEN" THEN cut ELSE cut \union {call.scan}

Returns ==
    /\ call # NoCall /\ call.result # "none"
    /\ Settle(call.result = "ok")
    /\ UNCHANGED <<told, allowed, strategy, acts, busy, tasks, broker, trade,
                   bounds, forgotten>>

\* Mutant of TimesOut: no wait ends while the strategy thread is occupied.
TimesOutWhenFree ==
    /\ call # NoCall /\ call.result = "none" /\ strategy = "free"
    /\ Fault /\ Settle(FALSE)
    /\ UNCHANGED <<told, allowed, strategy, acts, busy, tasks, broker, trade,
                   forgotten>>

\* The ten seconds are over, certainly so while the strategy thread waits for
\* this very thread; stop() interrupts the wait.  The task remains queued.
TimesOut ==
    /\ call # NoCall /\ call.result = "none"
    /\ IF strategy \in {"draining", "stopping"} THEN UNCHANGED bounds ELSE Fault
    /\ Settle(FALSE)
    /\ UNCHANGED <<told, allowed, strategy, acts, busy, tasks, broker, trade,
                   forgotten>>

-----------------------------------------------------------------------------
(* The strategy thread. *)

\* The task submits an order or asks for the close of a live one, or the
\* engine raises; its caller may be gone.
Answered(t, result) ==
    IF call # NoCall /\ call.kind = t.kind /\ call.scan = t.scan
    THEN [call EXCEPT !.result = result]
    ELSE call

RunTask ==
    /\ strategy = "free" /\ tasks # <<>>
    /\ LET t == Head(tasks) IN
         \/ /\ order' = [order EXCEPT ![t.scan] =
                             IF t.kind = "OPEN" THEN "submitted"
                             ELSE IF @ = "filled" THEN "closing"
                             ELSE IF @ = "submitted" THEN "cancelling" ELSE @]
            /\ call' = Answered(t, "ok")
            /\ UNCHANGED bounds
         \/ call' = Answered(t, "failed") /\ UNCHANGED order /\ Fault
    /\ tasks' = Tail(tasks)
    /\ UNCHANGED <<told, allowed, strategy, acts, busy, booking, messages,
                   trade, histories>>

\* onBar, or a synchronous onTick: wait until the worker has no batch.
Drain ==
    /\ strategy = "free" /\ busy
    /\ strategy' = "draining"
    /\ UNCHANGED <<told, allowed, worker, tasks, booking, broker, trade,
                   bounds, histories>>

Drained ==
    /\ strategy = "draining" /\ ~busy
    /\ strategy' = "free"
    /\ UNCHANGED <<told, allowed, worker, tasks, booking, broker, trade,
                   bounds, histories>>

\* onStop: the worker finishes while this thread waits, and what is left is
\* worked off by this thread itself, which cannot run its own tasks.
Stop ==
    /\ strategy = "free"
    /\ strategy' = "stopping"
    /\ UNCHANGED <<told, allowed, worker, tasks, booking, broker, trade,
                   bounds, histories>>

\* The platform drops the tasks of a strategy that has stopped.
Stopped ==
    /\ strategy = "stopping" /\ ~busy
    /\ strategy' = "stopped" /\ tasks' = <<>>
    /\ UNCHANGED <<told, allowed, worker, booking, broker, trade, bounds,
                   histories>>

\* A new process knows no labels, and the restart report may deny entries; orders and trades stay as they are.
Restart ==
    /\ strategy = "stopped" /\ Fault
    /\ strategy' = "free" /\ label' = {} /\ fills' = {} /\ messages' = <<>>
    /\ forgotten' = forgotten \union label \union fills
    /\ allowed' \in BOOLEAN
    /\ UNCHANGED <<told, worker, tasks, order, trade, givenUp, cut>>

\* A heartbeat of the readiness coordinator.
Pause ==
    /\ strategy = "free" /\ pauses < MaxPauses
    /\ allowed' = ~allowed /\ pauses' = pauses + 1
    /\ UNCHANGED <<told, strategy, worker, tasks, booking, broker, trade,
                   faults, histories>>

\* Mutant of Reported: a fill is only reported with its context.
ReportedWithContext(m) ==
    CASE m.type = "FILL_OK" /\ m.scan \in fills -> "OPEN"
      [] m.type = "CLOSE_OK" -> "CLOSED"
      [] OTHER -> trade[m.scan]

\* handleFill and handleClose: a fill without context is reported without its
\* candidate and reservation.  The report may fail, the label always stays.
Reported(m) ==
    CASE m.type = "FILL_OK" /\ m.scan \in fills -> "OPEN"
      [] m.type = "FILL_OK" /\ m.scan \notin fills -> "STRAY"
      [] m.type = "CLOSE_OK" -> "CLOSED"
      [] OTHER -> trade[m.scan]

Deliver ==
    /\ strategy = "free" /\ messages # <<>>
    /\ LET m == Head(messages)
       IN /\ fills' = IF m.type = "FILL_OK" THEN fills \ {m.scan} ELSE fills
          /\ \/ /\ trade' = [trade EXCEPT ![m.scan] = Reported(m)]
                /\ UNCHANGED bounds
             \/ /\ m.type \in {"FILL_OK", "CLOSE_OK"}
                /\ UNCHANGED trade /\ Fault
    /\ messages' = Tail(messages)
    /\ UNCHANGED <<told, allowed, strategy, worker, tasks, label, order,
                   histories>>

-----------------------------------------------------------------------------
(* The broker. *)

Moves == [submitted  |-> {<<"FILL_OK", "filled">>, <<"REJECTED", "gone">>},
          filled     |-> {<<"CLOSE_OK", "closed">>},
          closing    |-> {<<"CLOSE_OK", "closed">>, <<"CLOSE_REJECTED", "filled">>},
          cancelling |-> {<<"FILL_OK", "closing">>, <<"CLOSE_OK", "closed">>}]

\* A closing of its own (a margin call), and the rejection of a close, count
\* as faults; a stopped strategy hears nothing.
BrokerMoves ==
    \E s \in Scan :
      /\ order[s] \in DOMAIN Moves
      /\ \E m \in Moves[order[s]] :
           /\ order' = [order EXCEPT ![s] = m[2]]
           /\ messages' = IF strategy = "stopped" THEN messages
                          ELSE Append(messages, [type |-> m[1], scan |-> s])
           /\ IF order[s] = "filled" \/ m[1] \in {"REJECTED", "CLOSE_REJECTED"}
              THEN Fault ELSE UNCHANGED bounds
           /\ cut' = IF m[1] = "CLOSE_REJECTED" THEN cut \union {s} ELSE cut
      /\ UNCHANGED <<told, allowed, strategy, worker, tasks, booking, trade,
                     givenUp, forgotten>>

-----------------------------------------------------------------------------
WorkerSteps == Done \/ Submit \/ Skip \/ Close \/ Returns \/ TimesOut
Strategy == RunTask \/ Drain \/ Drained \/ Stop \/ Stopped \/ Deliver

Next == Predict \/ WorkerSteps \/ Strategy \/ Restart \/ Pause \/ BrokerMoves

\* The worker runs and its waits end; a handler returns once its wait is over.
Spec ==
    /\ Init /\ [][Next]_vars
    /\ WF_vars(WorkerSteps) /\ WF_vars(Drained \/ Stopped)

-----------------------------------------------------------------------------
\* The client still holds a way to close the order of scan s.
Closable(s) ==
    \/ s \in label
    \/ call # NoCall /\ call.kind = "CLOSE" /\ call.scan = s
    \/ \E t \in Range(tasks) : t.kind = "CLOSE" /\ t.scan = s

\* A live order of the client can be closed when the server says so, unless
\* its submission or its close was given up, or the client was restarted:
\* blocked entries, rejections, drains and late tasks lose no other label.
OrdersStayClosable ==
    \A s \in Scan : order[s] \in {"submitted", "filled"} =>
        Closable(s) \/ s \in givenUp \union cut \union forgotten

\* A fill is reported without its reservation only if its submission had been
\* given up or the client restarted; and while nothing fails, the trades the
\* server knows are the broker's orders, up to the messages under way.
TradesFollowOrders ==
    \A s \in Scan :
      /\ trade[s] = "STRAY" => s \in givenUp \union forgotten
      /\ faults = 0 /\ strategy # "stopped"
         /\ (\A m \in Range(messages) : m.scan # s) =>
           /\ order[s] \in {"filled", "closing"} => trade[s] \in {"OPEN", "STRAY"}
           /\ order[s] = "closed" => trade[s] = "CLOSED"
           /\ order[s] \in {"none", "submitted"} => trade[s] = "none"

\* onBar, a synchronous onTick and onStop return although the worker they wait
\* for may itself be waiting for the strategy thread.
HandlersReturn ==
    strategy \in {"draining", "stopping"} ~> strategy \in {"free", "stopped"}
=============================================================================
