----------------------------- MODULE BarBuilding -----------------------------
(***************************************************************************)
(* The two programs that cut a stream of ticks into bars: the research     *)
(* script (build_global_tick_bars.py), which reads one file a month,       *)
(* carries the rest of a file over to the next, and aggregates base bars   *)
(* to larger ones; and the runtime (TickAggregator, bar_alignment.py),     *)
(* which is fed by /ticks and /ticks/batch tick by tick and by /backfill   *)
(* with many ticks at once, and forgets its buffer in a restart.           *)
(*                                                                         *)
(* A bar keeps the ticks it spans, its bid prices, the positions of high   *)
(* and low (hl_first and hl_pos_frac are functions of these), the sign and *)
(* the revisions.  Ask prices and spreads, folded in the same way, are     *)
(* left out; so is the duplicate filter (module TickFeed).                 *)
(***************************************************************************)
EXTENDS Naturals, SequencesExt

CONSTANTS Price,       \* bid prices
          MaxTicks,    \* bound: ticks of the market
          Base,        \* --base-ticks
          Multiples,   \* --aggregate-multiples
          LiveTicks,   \* bar_ticks of the runtime's aggregator
          MaxBatch,    \* bound: ticks of a backfill
          MaxRestarts  \* bound

ASSUME BarConstants ==
    /\ Price \subseteq Nat \ {0} /\ Price # {}
    /\ {MaxTicks, MaxBatch, MaxRestarts} \subseteq Nat
    /\ {Base, LiveTicks} \subseteq Nat \ {0}
    /\ Multiples \subseteq Nat \ {0}

VARIABLES
    ticks,     \* bid prices of the market, in order
    filed,     \* how many of them are in the files of finished months
    carry,     \* the script's remainder of the files read, as tick numbers
    tickIdx,   \* tick_idx
    prevClose, \* prev_close_bid, 0 for None
    base,      \* the script's base bars
    buffer,    \* the aggregator's buffer, as tick numbers
    live,      \* bars the runtime has emitted
    alone,     \* history: of these, the first bars of their calls
    grid,      \* history: the tick before which this process started
    restarts

research == <<filed, carry, tickIdx, prevClose, base>>
runtime == <<buffer, live, alone, grid, restarts>>
vars == <<ticks, research, runtime>>

-----------------------------------------------------------------------------
Upto(n) == [i \in 1 .. n |-> i]
Block(s, i, n) == SubSeq(s, (i - 1) * n + 1, i * n)

Sign(close, previous) ==
    CASE close > previous -> "up" [] close < previous -> "down" [] OTHER -> "flat"

Init ==
    /\ ticks = <<>> /\ filed = 0 /\ carry = <<>> /\ tickIdx = 0
    /\ prevClose = 0 /\ base = <<>>
    /\ buffer = <<>> /\ live = <<>> /\ alone = {} /\ grid = 0 /\ restarts = 0

-----------------------------------------------------------------------------
(* The runtime. *)

\* prices.index(p)
Index(prices, p) == (CHOOSE i \in DOMAIN prices :
                        prices[i] = p /\ \A j \in 1 .. i - 1 : prices[j] # p) - 1

\* Mutant of BuildBar: the position of the last high, not of the first.
BuildBarLastHigh(prices, from, to, previous) ==
    [from |-> from, to |-> to,
     open |-> Head(prices), close |-> Last(prices),
     high |-> Max(Range(prices)), low |-> Min(Range(prices)),
     hpos |-> Max({i \in DOMAIN prices : prices[i] = Max(Range(prices))}) - 1,
     lpos |-> Index(prices, Min(Range(prices))),
     sign |-> IF previous = 0 THEN "flat" ELSE Sign(Last(prices), previous),
     revisions |-> Cardinality({i \in 2 .. Len(prices) : prices[i] # prices[i - 1]})]

\* _build_bar of bar_alignment.py; previous is 0 for None.
BuildBar(prices, from, to, previous) ==
    [from |-> from, to |-> to,
     open |-> Head(prices), close |-> Last(prices),
     high |-> Max(Range(prices)), low |-> Min(Range(prices)),
     hpos |-> Index(prices, Max(Range(prices))),
     lpos |-> Index(prices, Min(Range(prices))),
     sign |-> IF previous = 0 THEN "flat" ELSE Sign(Last(prices), previous),
     revisions |-> Cardinality({i \in 2 .. Len(prices) : prices[i] # prices[i - 1]})]

\* TickCountBarBoundary.align: prev_close_bid is local to the call.
Align(market, buf) ==
    LET chunk(i) == Block(buf, i, LiveTicks)
        prices(i) == [j \in 1 .. LiveTicks |-> market[chunk(i)[j]]]
    IN [i \in 1 .. Len(buf) \div LiveTicks |->
           BuildBar(prices(i), Head(chunk(i)), Last(chunk(i)),
                    IF i = 1 THEN 0 ELSE Last(prices(i - 1)))]

\* add_ticks of the batch that has just been appended to the market.
AddTicks(batch) ==
    LET market == ticks \o batch
        buf == buffer \o [i \in DOMAIN batch |-> Len(ticks) + i]
        bars == Align(market, buf)
    IN /\ ticks' = market
       /\ buffer' = SubSeq(buf, Len(bars) * LiveTicks + 1, Len(buf))
       /\ live' = live \o bars
       /\ alone' = IF bars = <<>> THEN alone ELSE alone \union {Len(live) + 1}
       /\ UNCHANGED <<research, grid, restarts>>

\* /ticks, and each tick of /ticks/batch.
LiveTick ==
    /\ Len(ticks) < MaxTicks
    /\ \E p \in Price : AddTicks(<<p>>)

\* /backfill
Backfill ==
    \E n \in 2 .. MaxBatch :
      /\ Len(ticks) + n <= MaxTicks
      /\ \E batch \in [1 .. n -> Price] : AddTicks(batch)

Restart ==
    /\ restarts < MaxRestarts
    /\ restarts' = restarts + 1
    /\ buffer' = <<>> /\ grid' = Len(ticks)
    /\ UNCHANGED <<ticks, research, live, alone>>

-----------------------------------------------------------------------------
(* The research script. *)

\* Rows of a part that make whole bars; the others are carried over.
Complete(part) == (Len(part) \div Base) * Base

\* _bars_from_ticks: rows are grouped by their number in the whole stream.
BarsFromTicks(part, start, previous) ==
    LET rows == 1 .. Complete(part)
        price(r) == ticks[part[r]]
        id(r) == (r - 1 + start) \div Base
        pos(r) == (r - 1 + start) % Base
        ids == {id(r) : r \in rows}
        of(k) == {r \in rows : id(r) = k}
        close(k) == price(Max(of(k)))
        bar(k) ==
            LET high == Max({price(r) : r \in of(k)})
                low == Min({price(r) : r \in of(k)})
            IN [from |-> part[Min(of(k))], to |-> part[Max(of(k))],
                open |-> price(Min(of(k))), close |-> close(k),
                high |-> high, low |-> low,
                hpos |-> Min({pos(r) : r \in {x \in of(k) : price(x) = high}}),
                lpos |-> Min({pos(r) : r \in {x \in of(k) : price(x) = low}}),
                sign |-> IF k # Min(ids) THEN Sign(close(k), close(k - 1))
                         ELSE IF previous = 0 THEN "flat"
                         ELSE Sign(close(k), previous),
                revisions |-> Cardinality({r \in of(k) : r - 1 \in of(k)
                                             /\ price(r) # price(r - 1)})]
    IN IF rows = {} THEN <<>>
       ELSE [i \in 1 .. Cardinality(ids) |-> bar(Min(ids) + i - 1)]

\* One file in the loop of _build_base_tick_bars.
EndMonth ==
    /\ filed < Len(ticks)
    /\ LET part == carry \o SubSeq(Upto(Len(ticks)), filed + 1, Len(ticks))
           bars == BarsFromTicks(part, tickIdx, prevClose)
       IN /\ base' = base \o bars
          /\ tickIdx' = tickIdx + Complete(part)
          /\ carry' = SubSeq(part, Complete(part) + 1, Len(part))
          /\ prevClose' = IF bars = <<>> THEN prevClose ELSE Last(bars).close
    /\ filed' = Len(ticks)
    /\ UNCHANGED <<ticks, runtime>>

\* Mutant of ChildPosition: the offset of the child is forgotten.
ChildPositionLocal(j, pos) == pos

\* agg_child_idx * base_ticks + high_pos_tick
ChildPosition(j, pos) == (j - 1) * Base + pos

\* _aggregate_from_base
Aggregated(m) ==
    LET kids(i) == Block(base, i, m)
        high(i) == Max({b.high : b \in Range(kids(i))})
        low(i) == Min({b.low : b \in Range(kids(i))})
        close(i) == Last(kids(i)).close
        revisions(i) == FoldSeq(LAMBDA b, sum : sum + b.revisions, 0, kids(i))
    IN IF m = 1 THEN base
       ELSE [i \in 1 .. Len(base) \div m |->
          [from |-> Head(kids(i)).from, to |-> Last(kids(i)).to,
           open |-> Head(kids(i)).open, close |-> close(i),
           high |-> high(i), low |-> low(i),
           hpos |-> Min({ChildPosition(j, kids(i)[j].hpos) :
                            j \in {n \in 1 .. m : kids(i)[n].high = high(i)}}),
           lpos |-> Min({ChildPosition(j, kids(i)[j].lpos) :
                            j \in {n \in 1 .. m : kids(i)[n].low = low(i)}}),
           sign |-> IF i = 1 THEN "flat" ELSE Sign(close(i), close(i - 1)),
           revisions |-> revisions(i)]]

-----------------------------------------------------------------------------
Next == LiveTick \/ Backfill \/ Restart \/ EndMonth

Spec == Init /\ [][Next]_vars

-----------------------------------------------------------------------------
(* What a bar is: of the ticks from .. to, after a bar that ended at price    *)
(* previous.                                                                  *)
IsBar(b, from, to, previous) ==
    LET at(pos) == ticks[from + pos]
        before(pos) == {ticks[t] : t \in from .. from + pos - 1}
    IN /\ b.from = from /\ b.to = to
       /\ b.open = ticks[from] /\ b.close = ticks[to]
       /\ {b.hpos, b.lpos} \subseteq 0 .. to - from
       /\ at(b.hpos) = b.high /\ at(b.lpos) = b.low
       /\ \A t \in from .. to : b.low <= ticks[t] /\ ticks[t] <= b.high
       /\ b.high \notin before(b.hpos) /\ b.low \notin before(b.lpos)
       /\ b.sign = IF previous = 0 THEN "flat" ELSE Sign(b.close, previous)

\* Price changes within from .. to, but not from a block of n ticks to the next.
Changes(from, to, n) ==
    Cardinality({t \in from + 1 .. to : (t - from) % n # 0
                                        /\ ticks[t] # ticks[t - 1]})

\* However the months cut the stream, the script's bars of every size are the
\* blocks of the whole stream, each with its own prices, first extremes and the
\* sign against the block before; the files lose nothing but the last rest.
\* Only quote_revisions of an aggregated bar ignores the change between two of
\* its base bars.
ResearchBarsExact ==
    /\ carry = SubSeq(Upto(filed), Len(base) * Base + 1, filed)
    /\ Len(carry) < Base
    /\ \A m \in Multiples :
         LET n == Base * m
             bars == Aggregated(m)
         IN /\ Len(bars) = Len(base) \div m
            /\ \A i \in DOMAIN bars :
                 /\ IsBar(bars[i], (i - 1) * n + 1, i * n,
                          IF i = 1 THEN 0 ELSE ticks[(i - 1) * n])
                 /\ bars[i].revisions = Changes((i - 1) * n + 1, i * n, Base)

\* The bars of the runtime are the bars the script would build of the same
\* ticks, batched or one by one, on a grid that starts anew at a restart and
\* then loses nothing; but the first bar of a call has no sign, and a price
\* change inside a bar always counts as a revision.
LiveBarsMatch ==
    /\ buffer = SubSeq(Upto(Len(ticks)), Len(ticks) - Len(buffer) + 1, Len(ticks))
    /\ Len(buffer) = (Len(ticks) - grid) % LiveTicks
    /\ \A i \in DOMAIN live :
         LET b == live[i] IN
           /\ IsBar(b, b.from, b.from + LiveTicks - 1,
                    IF i \in alone THEN 0 ELSE ticks[b.from - 1])
           /\ b.revisions = Changes(b.from, b.to, LiveTicks)
           /\ b.from > grid => (b.from - grid) % LiveTicks = 1 % LiveTicks
           /\ i \notin alone => live[i - 1].to + 1 = b.from
    /\ Len(live) > 0 /\ Last(live).from > grid =>
           Last(live).to + Len(buffer) = Len(ticks)
=============================================================================
