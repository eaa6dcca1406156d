-------------------------- MODULE StraddleBacktest --------------------------
(***************************************************************************)
(* The walk-forward backtest of the reversion straddle for one symbol: the *)
(* tick-exact script with its meta-labeler, and the older one on minutes.  *)
(*                                                                         *)
(* Time is counted in ticks (minutes for the older script), one at each    *)
(* time of an open hour; every open hour is a bar and a weekend may lie    *)
(* between two of them.  Prices are distances from the bar's close in      *)
(* units of the entry distance: entry_k = tp_k = sl_k / 2.  A model's      *)
(* prediction is any number; costs, features and the MAD of the whole      *)
(* sample that scales sigma are left out.                                  *)
(***************************************************************************)
EXTENDS Integers, FiniteSets, FiniteSetsExt, Sequences

CONSTANTS NBars,      \* bound: hourly bars
          HourLen,    \* ticks in an hour
          HoldHours,  \* hold_hours: 8
          MonthLen,   \* ticks in a calendar month
          Weekend,    \* hours of a weekend
          NFolds,     \* _N_FOLDS: 5
          Embargo,    \* 8 bars
          Quote       \* <<bid, ask>>: bound

VARIABLES
    script,       \* "exact" or "proxy"
    weekend,      \* the bar after the weekend
    files,        \* the months the tick archive has
    bar,          \* the next bar of the loop
    blocked,      \* blocked_until
    blockedTick,  \* blocked_until_tick
    cur,          \* cur_ym, the bar it was loaded for, and cur_ticks
    sim,          \* the straddle being simulated and the last tick it saw
    trades        \* the rows so far

vars == <<script, weekend, files, bar, blocked, blockedTick, cur, sim, trades>>

None == [bar |-> -1]
NoMonth == [month |-> -1]

-----------------------------------------------------------------------------
(* Bars, ticks and folds *)

Hold == HoldHours * HourLen
Hour(i) == IF i < weekend THEN i ELSE i + Weekend
Start(i) == Hour(i) * HourLen          \* ts[i]: the START of the hour
Close(i) == Start(i) + HourLen - 1     \* the tick of mid[i]
End(i) == Start(i) + Hold
Month(t) == t \div MonthLen
Exists(t) == t \div HourLen \notin weekend .. weekend + Weekend - 1

\* Fold f of n rows: fs = n // (_N_FOLDS + 1).
Fold(n, f, gap) ==
    LET size == n \div (NFolds + 1)
        from == size * (f + 1)
    IN [train |-> 0 .. from - 1,
        test |-> from + gap .. Min({from + gap + size, n}) - 1]

SigmaFold(f) == Fold(NBars, f, Embargo)
MetaFold(n, f) == Fold(n, f, 0)

\* sg_oos[i] is not NaN
Predicted(i) == \E f \in 0 .. NFolds - 1 : i \in SigmaFold(f).test

\* The ticks simulate_tick_exact gets, and the minutes _simulate_one counts.
TickWindow(i) == {t \in Start(i) + 1 .. End(i) : Exists(t) /\ Month(t) \in cur.loaded}
MinuteWindow(i) ==
    LET after(t) == {u \in Start(i) + 1 .. t : Exists(u)}
    IN {t \in Start(i) + 1 .. End(i) + Weekend * HourLen :
            Exists(t) /\ Cardinality(after(t)) <= Hold}
SimWindow(i) == IF script = "exact" THEN TickWindow(i) ELSE MinuteWindow(i)

-----------------------------------------------------------------------------
Init ==
    /\ script \in {"exact", "proxy"}
    /\ weekend \in 1 .. NBars
    /\ files \in SUBSET (0 .. Month((NBars + Weekend + HoldHours) * HourLen))
    /\ script = "proxy" => files = {}
    /\ bar = 0 /\ blocked = 0 /\ blockedTick = 0
    /\ cur = NoMonth /\ sim = None /\ trades = <<>>

Looking == sim = None /\ bar < NBars

\* No prediction, sigma at or under its threshold, inside another window, or
\* no minute that reaches a level.
Skip ==
    /\ Looking
    /\ bar' = bar + 1
    /\ UNCHANGED <<script, weekend, files, blocked, blockedTick, cur, sim, trades>>

Candidate == Looking /\ Predicted(bar) /\ Start(bar) >= blocked

\* The months of the bar and of the window's end, when the bar's month is not
\* the one in memory.  One of two that is missing is left out: m1 or m2.
LoadedFor(i) ==
    IF cur.month = Month(Start(i)) THEN cur
    ELSE [month |-> Month(Start(i)), for |-> i,
          loaded |-> {Month(Start(i)), Month(End(i))} \intersect files]

\* A candidate blocks the bars of its window whether it trades or not.  The
\* first pass over all bars reads nothing the second one writes: the model
\* makes both at once.
ExactCandidate ==
    /\ script = "exact" /\ Candidate
    /\ blocked' = End(bar)
    /\ IF Start(bar) < blockedTick THEN UNCHANGED <<cur, sim>>
       ELSE /\ cur' = LoadedFor(bar)
            /\ sim' = IF cur'.loaded = {} THEN None
                      ELSE [bar |-> bar, seen |-> Start(bar), fill |-> 0, price |-> 0]
    /\ bar' = bar + 1
    /\ UNCHANGED <<script, weekend, files, blockedTick, trades>>

ProxyCandidate ==
    /\ script = "proxy" /\ Candidate
    /\ sim' = [bar |-> bar, seen |-> Start(bar), fill |-> 0, price |-> 0]
    /\ bar' = bar + 1
    /\ UNCHANGED <<script, weekend, files, blocked, blockedTick, cur, trades>>

Unseen == {t \in SimWindow(sim.bar) : t > sim.seen}

\* Mutant of Blocked: from the bar's time, as in the first pass.
BlockedByBar(fill) == End(sim.bar)

\* blocked_until_tick = fill_ts + hold_hours
Blocked(fill) == fill + Hold

\* The trade's row, and what it blocks.
Trade(fill, exit) ==
    /\ trades' = Append(trades, [bar |-> sim.bar, fill |-> fill, exit |-> exit])
    /\ sim' = None
    /\ IF script = "exact"
       THEN blockedTick' = Blocked(fill) /\ UNCHANGED blocked
       ELSE blocked' = End(sim.bar) /\ UNCHANGED blockedTick

NoTrade == sim' = None /\ UNCHANGED <<trades, blocked, blockedTick>>
Goes(next) == sim' = next /\ UNCHANGED <<trades, blocked, blockedTick>>

\* The levels: 1 and -1, the close at 0; stop and target of the exact script
\* are distances from the level, of the proxy from the minute's price.
Upper(q) == q[1] >= 1
Lower(q) == q[2] <= -1
TakesProfit(q) ==
    IF script = "exact"
    THEN IF sim.price > 0 THEN q[2] <= 0 ELSE q[1] >= 0
    ELSE IF sim.price > 0 THEN sim.price - q[1] >= 1 ELSE q[1] - sim.price >= 1
Stops(q) ==
    LET twice == q[1] + q[2]
    IN IF sim.price > 0 THEN twice >= 2 * (sim.price + 2)
                        ELSE twice <= 2 * (sim.price - 2)

\* A tick of the window: the last one of the bar's hour is its close.
Tick(q) ==
    /\ sim # None /\ Unseen # {}
    /\ script = "proxy" => q[1] = q[2]
    /\ LET t == Min(Unseen)
           entry == IF script = "proxy" THEN q[1] ELSE IF Upper(q) THEN 1 ELSE -1
       IN /\ t = Close(sim.bar) => q[1] + q[2] = 0
          /\ CASE sim.fill = 0 /\ Upper(q) /\ Lower(q) -> NoTrade
               [] sim.fill = 0 /\ Upper(q) # Lower(q) ->
                      Goes([sim EXCEPT !.seen = t, !.fill = t, !.price = entry])
               [] sim.fill # 0 /\ (TakesProfit(q) \/ Stops(q)) -> Trade(sim.fill, t)
               [] OTHER -> Goes([sim EXCEPT !.seen = t])
    /\ UNCHANGED <<script, weekend, files, bar, cur>>

\* No fill, or the time barrier.
EndOfWindow ==
    /\ sim # None /\ Unseen = {}
    /\ IF sim.fill = 0 THEN NoTrade
       ELSE Trade(sim.fill, Max(SimWindow(sim.bar) \union {End(sim.bar)}))
    /\ UNCHANGED <<script, weekend, files, bar, cur>>

Next ==
    \/ Skip \/ ExactCandidate \/ ProxyCandidate
    \/ (\E q \in Quote : Tick(q)) \/ EndOfWindow

Spec == Init /\ [][Next]_vars

-----------------------------------------------------------------------------
(* Properties *)

\* No bar is traded within hold_hours of a fill: every trade is over.  The
\* minutes of the older script are counted, so its window runs through a
\* weekend while its block does not.
OneTradeAtATime ==
    \A k \in 1 .. Len(trades) - 1 :
        LET next == Start(trades[k + 1].bar)
        IN IF script = "exact"
           THEN trades[k].exit <= next /\ trades[k].fill + Hold <= next
           ELSE \/ trades[k].exit <= next
                \/ weekend \in trades[k].bar + 1 .. trades[k + 1].bar

\* The label of row j is the return of bar j + 1: it is known before the
\* window of a bar that a model trained on it predicts.
SigmaKnowsThePast ==
    \A k \in 1 .. Len(trades), f \in 0 .. NFolds - 1 :
        trades[k].bar \in SigmaFold(f).test =>
            \A j \in SigmaFold(f).train : Close(j + 1) <= Start(trades[k].bar)

\* So are the outcomes of the trades the meta-labeler was trained on, although
\* its folds have no embargo.
MetaKnowsThePast ==
    script = "exact" =>
        \A f \in 0 .. NFolds - 1 :
            LET fold == MetaFold(Len(trades), f)
            IN \A k \in fold.test, j \in fold.train :
                   trades[j + 1].exit <= Start(trades[k + 1].bar)

\* A straddle sees all ticks of its window that the archive has, but for those
\* of the next month when an earlier bar, whose window ended within the month,
\* had loaded this one.
WindowsWhole ==
    sim # None /\ script = "exact" =>
        LET whole == {t \in Start(sim.bar) + 1 .. End(sim.bar) :
                          Exists(t) /\ Month(t) \in files}
            cached == cur.for # sim.bar /\ Month(End(cur.for)) = cur.month
        IN TickWindow(sim.bar) =
               IF cached THEN {t \in whole : Month(t) = cur.month} ELSE whole

\* What a bar's levels, its sizing and the decision to trade are computed from:
\* its own close and the labels of the rows sigma was trained on.
Inputs(i) ==
    {Close(i)} \union
    UNION {{Close(j + 1) : j \in SigmaFold(f).train} :
           f \in {g \in 0 .. NFolds - 1 : i \in SigmaFold(g).test}}

\* A fill is later than all of them but, perhaps, the close of its bar: the
\* scan for fills begins at the start of that hour, so it may be earlier than
\* its own level, by less than an hour.
OneHourAheadAtMost ==
    \A k \in 1 .. Len(trades) :
        LET row == trades[k]
        IN \A t \in Inputs(row.bar) :
               row.fill < t => t = Close(row.bar) /\ t - row.fill < HourLen

TradesAnHourAheadAtMost ==
    /\ OneTradeAtATime /\ SigmaKnowsThePast /\ MetaKnowsThePast /\ WindowsWhole
    /\ OneHourAheadAtMost

=============================================================================
