---------------------------- MODULE FeatureWindow ----------------------------
(***************************************************************************)
(* The feature vector of a completed bar: the runtime computes it from the *)
(* rows that append_bar and its pruning have left in tick_bars, research   *)
(* from the whole history, both by compute_feature_matrix_from_bars.       *)
(*                                                                         *)
(* A number is modelled by what it is computed from.  <<n>> is a quantity  *)
(* of bar n alone, <<n - 1, n>> one of bar n and the close before it; a    *)
(* rolling statistic is the set of the values in its window, NaN left out. *)
(* Equal terms are equal numbers.  range_pips, hour_utc and hl_first are   *)
(* quantities of the bar alone and stand as one, as do the z-scores of     *)
(* spread and tick rate; hl_pos_frac_mean_24 reads as hl_first_mean_24     *)
(* does.  One symbol and bar size; failing appends are in TickFeed.        *)
(***************************************************************************)
EXTENDS Integers, FiniteSets, FiniteSetsExt, Sequences

CONSTANTS VolWindow,     \* 96
          CostWindow,    \* 288
          StructWindow,  \* 24
          MinVol,        \* max(8, vol_window // 3)
          MinCost,       \* max(8, cost_window // 4)
          MinSlip,       \* max(8, cost_window // 6)
          MinStruct,     \* 8
          Keep,          \* rows pruning and the query leave: 600
          Every,         \* appends between two prunes: 100
          MaxBars        \* bound

VARIABLES
    gaps,      \* the bars so far: was there a weekend before it?
    born,      \* the bars before row 0 of the table
    oldest,    \* the oldest bar still in the table
    persist,   \* is the database on disk?
    served     \* the last feature vector and cut-offs, with their rows

vars == <<gaps, born, oldest, persist, served>>

-----------------------------------------------------------------------------
(* The columns of a frame of bars lo .. hi, at bar n *)

Nan == <<>>
Raw(n) == <<n>>
RawColumn == [j \in DOMAIN gaps |-> Raw(j)]

\* x / y, x - y, ...: NaN if either is.
Combined(x, y) == IF x = Nan \/ y = Nan THEN Nan ELSE <<x, y>>

\* A change against the close of the bar before: NaN in the first row and
\* masked after a weekend.
Change(lo, n) == IF n = lo \/ gaps[n] THEN Nan ELSE <<n - 1, n>>
ChangeColumn(lo) == [j \in DOMAIN gaps |-> Change(lo, j)]

\* rolling(w, min_periods=min).<statistic>().shift(1)
Rolled(column, lo, n, w, min) ==
    LET seen == {column[j] : j \in Max({lo, n - w}) .. n - 1} \ {Nan}
    IN IF Cardinality(seen) < min THEN Nan ELSE <<seen>>

MicroFeature(lo, n) == Combined(Raw(n), Rolled(RawColumn, lo, n, VolWindow, MinVol))

VelocityFeature(lo, n) ==
    Combined(Change(lo, n), Rolled(ChangeColumn(lo), lo, n, VolWindow, MinVol))

\* fillna(spread.shift(1)).fillna(spread.median())
SpreadRecent(lo, hi, n) ==
    LET recent == Rolled(RawColumn, lo, n, CostWindow, MinCost)
    IN CASE recent # Nan -> recent
         [] recent = Nan /\ n > lo -> <<{Raw(n - 1)}>>
         [] OTHER -> <<{Raw(j) : j \in lo .. hi}>>

\* The opening gaps of the window, else its ranges, else a constant.
Slippage(lo, n) ==
    LET own == Rolled(ChangeColumn(lo), lo, n, CostWindow, MinSlip)
        ranges == Rolled(RawColumn, lo, n, CostWindow, MinSlip)
    IN CASE own # Nan -> <<"gap", own>>
         [] own = Nan /\ ranges # Nan -> <<"range", ranges>>
         [] OTHER -> <<"default", Nan>>

CostFeature(lo, hi, n) == <<SpreadRecent(lo, hi, n), Slippage(lo, n)>>

StructuralFeature(lo, n) == Rolled(RawColumn, lo, n, StructWindow, MinStruct)

\* A row of the matrix.  In the rows past the warm-up a NaN is stored as 0.0;
\* no other row is read.
FeatureRow(lo, hi, n) ==
    [bar |-> Raw(n),
     ret1 |-> Change(lo, n),
     cost |-> CostFeature(lo, hi, n),
     velCost |-> Combined(Change(lo, n), CostFeature(lo, hi, n)),
     retZ |-> VelocityFeature(lo, n),
     micro |-> MicroFeature(lo, n),
     hlMean |-> StructuralFeature(lo, n)]

\* compute_features_from_bars: the last row.
Vector(lo, hi) == FeatureRow(lo, hi, hi)

\* The columns the regime cut-offs are quantiles of: all rows of the frame,
\* also those before the warm-up, NaN dropped.
Regime(lo, hi) ==
    [column \in {"bar", "cost", "velCost", "retZ", "micro"} |->
        {FeatureRow(lo, hi, j)[column] : j \in lo .. hi} \ {Nan}]

-----------------------------------------------------------------------------
(* The runtime *)

None == [bar |-> 0]

\* Mutant of Warmup: the longest window without its lag.
WarmupNoLag == Max({VolWindow, CostWindow})

\* full_warmup_bars: max(vol_window, cost_window) + lag_bars
Warmup == Max({VolWindow, CostWindow}) + 1

newest == Len(gaps)
Count == newest + 1 - oldest     \* bar_count

\* WarmupBoundaryVerifier.check
Deficit == Max({0, Warmup - Count})

\* SELECT ... ORDER BY row_id DESC LIMIT 600
FrameStart == Max({oldest, newest + 1 - Keep})

Init ==
    /\ gaps = <<>> /\ born = 0 /\ oldest = 1 /\ persist \in BOOLEAN
    /\ served = None

\* append_bar: row_id is the number of rows ever appended to this table, and
\* every hundredth append deletes the rows 600 and more behind.
AppendBar(gap) ==
    /\ newest < MaxBars
    /\ gaps' = Append(gaps, gap)
    /\ LET appended == newest + 1 - born
       IN oldest' = IF appended % Every = 0
                    THEN Max({oldest, born + appended - Keep + 1})
                    ELSE oldest
    /\ UNCHANGED <<born, persist, served>>

\* StateManager.compute_features and compute_regime_quantiles.
Computed ==
    [bar |-> newest, rows |-> newest + 1 - FrameStart,
     features |-> Vector(FrameStart, newest),
     regime |-> Regime(FrameStart, newest)]

\* Step 3 of /predict: the vector and the regime cut-offs, by two queries
\* without an await in between.  Below the warm-up compute_features returns
\* None and the step raises 422: nothing changes.
ComputeFeatures ==
    /\ Deficit = 0
    /\ served' = Computed
    /\ UNCHANGED <<gaps, born, oldest, persist>>

\* A server whose database is in memory starts with an empty table.
Restart ==
    /\ ~persist /\ oldest <= newest
    /\ born' = newest /\ oldest' = newest + 1
    /\ UNCHANGED <<gaps, persist, served>>

Next == (\E gap \in BOOLEAN : AppendBar(gap)) \/ ComputeFeatures \/ Restart

Spec == Init /\ [][Next]_vars

-----------------------------------------------------------------------------
(* Properties *)

\* What the runtime computed from its rows is what research computes for that
\* bar from the whole history, however many bars follow: pruning, the limit of
\* the query, weekends and the nesting of windows take nothing away, and no
\* column looks ahead.  With exactly the warm-up's number of rows (one less
\* than the opening gaps need) this holds of all but the cost columns.  The
\* cut-offs a value is compared with are those of columns it is a row of.
LiveFeaturesExact ==
    served # None =>
        LET research == FeatureRow(1, newest, served.bar)
            live == served.features
            short == IF served.rows > Warmup THEN {} ELSE {"cost", "velCost"}
        IN /\ \A column \in DOMAIN research \ short :
                 live[column] = research[column]
           /\ \A column \in DOMAIN served.regime :
                 live[column] \in served.regime[column] \union {Nan}

=============================================================================
