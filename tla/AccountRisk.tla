----------------------------- MODULE AccountRisk -----------------------------
(***************************************************************************)
(* The account limits: the client reports balance and equity, symbol by    *)
(* symbol (BehemothStrategyCore.onAccountSnapshot), the server keeps every *)
(* report, and step 4 of a prediction and /risk/account/status derive from *)
(* the reports whether a symbol may trade (evaluate_account_risk_decision).*)
(*                                                                         *)
(* A report may be lost, or be handled long after it was sent.  Time is    *)
(* counted in slots, and a trading day is DayLength of them; the time zone *)
(* and the hour of the reset are left out.  The table outlives a restart   *)
(* of the server, which is therefore no step.                              *)
(***************************************************************************)
EXTENDS Integers, FiniteSets

CONSTANTS Symbol,     \* symbols of the session
          Money,      \* values of balance and equity
          Initial,    \* initial_balance
          DailyHard, DailyInternal, \* daily_loss_limit, and less its buffer
          MaxHard, MaxInternal,     \* max_loss_limit, and less its buffer
          NeedsSnapshot, \* require_account_snapshot
          DayLength,  \* slots of a trading day
          Window,     \* slots looked back for the start of a day (3 days)
          MaxTime, MaxReports, MaxFaults \* bounds

ASSUME LimitConstants ==
    /\ Money \subseteq Nat /\ Initial \in Nat /\ NeedsSnapshot \in BOOLEAN
    /\ {DailyHard, DailyInternal, MaxHard, MaxInternal} \subseteq Nat \ {0}
    /\ DailyInternal <= DailyHard /\ MaxInternal <= MaxHard
    /\ DayLength \in Nat \ {0} /\ Window \in Nat /\ DayLength <= Window
    /\ {MaxTime, MaxReports, MaxFaults} \subseteq Nat

VARIABLES
    now,      \* the clock
    posting,  \* the report being posted, and the symbols still to come
    wire,     \* rows of calls that failed but may yet reach the server
    rows,     \* account_risk_snapshots
    faults,
    reports,  \* history: the reports of the client, by time
    missed    \* history: symbols of which a row was lost, or came late

vars == <<now, posting, wire, rows, faults, reports, missed>>

-----------------------------------------------------------------------------
RowOf(s, r) == [symbol |-> s, ts |-> r.ts, balance |-> r.balance,
                equity |-> r.equity]

Init ==
    /\ now = 0 /\ posting = [report |-> <<>>, left |-> {}]
    /\ wire = {} /\ rows = {} /\ faults = 0 /\ reports = {} /\ missed = {}

Pass ==
    /\ now < MaxTime
    /\ now' = now + 1
    /\ UNCHANGED <<posting, wire, rows, faults, reports, missed>>

\* onAccount, with whatever the broker says; two calls never share a time.
OnAccount ==
    /\ posting.left = {} /\ Cardinality(reports) < MaxReports
    /\ \A r \in reports : r.ts < now
    /\ \E balance, equity \in Money :
         LET r == [ts |-> now, balance |-> balance, equity |-> equity]
         IN /\ posting' = [report |-> r, left |-> Symbol]
            /\ reports' = reports \union {r}
    /\ UNCHANGED <<now, wire, rows, faults, missed>>

Post(s) ==
    /\ s \in posting.left
    /\ posting' = [posting EXCEPT !.left = @ \ {s}]
    /\ rows' = rows \union {RowOf(s, posting.report)}
    /\ UNCHANGED <<now, wire, faults, reports, missed>>

\* A failure is swallowed and the other symbols go on; the server may not have
\* had the call yet.
PostFails(s) ==
    /\ s \in posting.left /\ faults < MaxFaults
    /\ posting' = [posting EXCEPT !.left = @ \ {s}]
    /\ wire' \in {wire, wire \union {RowOf(s, posting.report)}}
    /\ faults' = faults + 1
    /\ missed' = missed \union {s}
    /\ UNCHANGED <<now, rows, reports>>

Arrive ==
    /\ \E row \in wire : wire' = wire \ {row} /\ rows' = rows \union {row}
    /\ UNCHANGED <<now, posting, faults, reports, missed>>

-----------------------------------------------------------------------------
(* The queries and the decision. *)

Day(t) == t \div DayLength

Of(s) == {r \in rows : r.symbol = s}
Newest(set) == CHOOSE r \in set : \A q \in set : q.ts <= r.ts
Oldest(set) == CHOOSE r \in set : \A q \in set : r.ts <= q.ts

\* get_latest_account_risk_snapshot, of the symbol and else of any.
Latest(s) == Newest(IF Of(s) # {} THEN Of(s) ELSE rows)

Since(set, t) == {r \in set : r.ts >= t}

\* get_account_risk_snapshots_since, of the symbol and else of any.
Recent(s, t) ==
    LET own == Since(Of(s), t - Window)
    IN IF own # {} THEN own ELSE Since(rows, t - Window)

OfDay(set, t) == {r \in set : Day(r.ts) = Day(t)}

\* Mutant of DayStart: the oldest row of the window, of whatever day.
DayStartOfWindow(s, t) ==
    IF Recent(s, t) # {} THEN Oldest(Recent(s, t)) ELSE Latest(s)

\* Mutant of DayStart: the rows are read newest first.
DayStartNewest(s, t) ==
    LET today == OfDay(Recent(s, t), t)
    IN IF today # {} THEN Newest(today) ELSE Latest(s)

\* _get_day_start_balance, as the row it is taken from.
DayStart(s, t) ==
    LET today == OfDay(Recent(s, t), t)
    IN IF today # {} THEN Oldest(today) ELSE Latest(s)

\* evaluate_account_risk_limits: the hard limits come first, then the buffers.
Reason(daily, total) ==
    CASE total >= MaxHard -> "MAX_LOSS_LIMIT"
      [] total < MaxHard /\ daily >= DailyHard -> "DAILY_LOSS_LIMIT"
      [] total \in MaxInternal .. MaxHard - 1 /\ daily < DailyHard ->
             "MAX_LOSS_BUFFER"
      [] total < MaxInternal /\ daily \in DailyInternal .. DailyHard - 1 ->
             "DAILY_LOSS_BUFFER"
      [] OTHER -> "none"

\* evaluate_account_risk_decision at time t; "none" allows trading.
Decision(s, t) ==
    IF rows = {}
    THEN IF NeedsSnapshot THEN "SNAPSHOT_MISSING" ELSE "none"
    ELSE LET equity == Latest(s).equity
         IN Reason(DayStart(s, t).balance - equity, Initial - equity)

-----------------------------------------------------------------------------
Next ==
    \/ Pass \/ OnAccount \/ Arrive
    \/ \E s \in Symbol : Post(s) \/ PostFails(s)

Spec == Init /\ [][Next]_vars

-----------------------------------------------------------------------------
\* Whatever is posted, late or lost for other symbols: a symbol that has all
\* its reports is judged by the account alone, now and at the close of a bar of
\* the slot before - by the newest report of the account against the first of
\* that trading day, and by the newest of all on a day without a report.
GateFollowsAccount ==
    \A s \in Symbol \ (missed \union posting.left), t \in {now, now - 1} \ {-1} :
        LET today == OfDay(reports, t)
            start == IF today = {} THEN Newest(reports) ELSE Oldest(today)
            equity == Newest(reports).equity
        IN reports # {} =>
               Decision(s, t) = Reason(start.balance - equity, Initial - equity)

\* During a trading day the reference of its losses never moves forward: neither
\* new reports, nor the sliding window, nor rows that arrive late replace it by
\* a later one, which would forgive the losses in between.
DayStartMovesBack ==
    [][\A s \in Symbol :
         Day(now') = Day(now) /\ OfDay(Of(s), now) # {} =>
             DayStart(s, now)'.ts <= DayStart(s, now).ts]_vars
=============================================================================
