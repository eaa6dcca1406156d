---------------------------- MODULE XsWalkForward ----------------------------
(***************************************************************************)
(* The cross-sectional pipeline over a universe of symbols: bars, their    *)
(* features, the pooled matrix, targets, walk-forward folds and the        *)
(* meta-labeler.                                                           *)
(*                                                                         *)
(* A bar is <<symbol, n>>.  A number is modelled by the bars it is         *)
(* computed from, a row of the matrix by its bar, a model by the rows it   *)
(* was trained on.  The rolling windows stand as one; the MAD of the whole *)
(* sample that scales vol_std, flags, their thresholds and subsamples of   *)
(* the training rows are left out.  No feature is NaN throughout, so that  *)
(* the filter of the targets, which looks at all of them, is that of the   *)
(* rows; and every fold has rows enough to train on.                       *)
(***************************************************************************)
EXTENDS Integers, FiniteSets, FiniteSetsExt, Sequences, SequencesExt

CONSTANTS Symbols,    \* 1 .. Symbols, in the order of sorted(universe): 21
          Window,     \* the longest window: 250, of the OLS residual
          MinCount,   \* symbols a cross section needs: 4
          Horizons,   \* 1 .. 5
          NFolds,     \* _N_FOLDS: 5
          MaxTimes,   \* bound
          MaxFlats    \* bound: bars without a range

VARIABLES
    closed,    \* at each time so far, the symbols that closed a bar
    flats,     \* the bars whose high is their low
    matrix     \* the pooled rows and their targets, once the pipeline has run

vars == <<closed, flats, matrix>>

Symbol == 1 .. Symbols

-----------------------------------------------------------------------------
(* Bars and features *)

\* The times of the bars of s: close_ts is the minute a bar ends in.
Times(s) == {t \in DOMAIN closed : s \in closed[t]}
Bars(s) == Cardinality(Times(s))

\* The n-th smallest of a set of numbers.
Nth(set, n) == CHOOSE x \in set : Cardinality({y \in set : y <= x}) = n

TimeOf(b) == Nth(Times(b[1]), b[2])

\* join_asof(strategy="backward"): the number of p's last bar by then, or 0.
AsOf(p, t) == Cardinality({u \in Times(p) : u <= t})

\* A row of full_mat: the bar and its peers as of its close, those that have a
\* return.
Cross(b) ==
    {x \in {b} \union {<<p, AsOf(p, TimeOf(b))>> : p \in Symbol \ {b[1]}} : x[2] > 1}

Rolling(b) == {<<b[1], n>> : n \in Max({1, b[2] - Window + 1}) .. b[2]}

\* The symbol with the most bars, the first of several.
RefSym == Min({s \in Symbol : \A p \in Symbol : Bars(p) <= Bars(s)})
RefBar(b) == <<RefSym, AsOf(RefSym, TimeOf(b))>>

\* The bars the rolling residual against the basket, and with it every other
\* rolling feature of the row, are computed from.
OwnReads(b) == UNION {Cross(x) \union {x} : x \in Rolling(b)}

\* Those of the mean pair correlation, computed once on the reference symbol.
RefWindow(b) == IF RefBar(b)[2] = 0 THEN {} ELSE Rolling(RefBar(b))
PairCorrReads(b) == UNION {Cross(x) : x \in RefWindow(b)}
PairCorrDefined(b) ==
    /\ RefBar(b)[2] >= Window
    /\ \A p \in Symbol :
           Cardinality({x \in RefWindow(b) : \E y \in Cross(x) : y[1] = p}) >= Window \div 2

Reads(b) == OwnReads(b) \union PairCorrReads(b)

\* No feature of the row is NaN: full windows, no flat bar in them, and enough
\* symbols in each cross section.
Valid(b) ==
    /\ b[2] > Window
    /\ Rolling(b) \intersect flats = {}
    /\ \A x \in Rolling(b) : Cardinality(Cross(x)) >= MinCount
    /\ PairCorrDefined(b)

-----------------------------------------------------------------------------
(* The pooled matrix, its targets and the folds *)

\* The valid rows of a symbol: mat[valid]
Kept(s) ==
    LET valid == {n \in 1 .. Bars(s) : Valid(<<s, n>>)}
    IN [i \in 1 .. Cardinality(valid) |-> <<s, Nth(valid, i)>>]

\* np.argsort(time, kind="stable"): entry r is the one with r - 1 before it.
SortIdx(time) ==
    LET before(i, j) == time[i] < time[j] \/ (time[i] = time[j] /\ i < j)
    IN [r \in DOMAIN time |->
           CHOOSE i \in DOMAIN time :
               Cardinality({j \in DOMAIN time : before(j, i)}) = r - 1]

NaN == {}

\* The h rows after each: their vol_std is summed; NaN at the end.
Forward(rows, h) ==
    [k \in DOMAIN rows |->
        IF k + h <= Len(rows) THEN {rows[j] : j \in k + 1 .. k + h} ELSE NaN]

\* _build_horizon_target_per_symbol
Targets(kept, h) == FlattenSeq([s \in Symbol |-> Forward(kept[s], h)])

\* build_features, and its order applied to the targets.
Matrix ==
    LET kept == [s \in Symbol |-> Kept(s)]
        stacked == FlattenSeq(kept)
        idx == SortIdx([i \in DOMAIN stacked |-> TimeOf(stacked[i])])
        sorted(parts) == [i \in DOMAIN idx |-> parts[idx[i]]]
    IN [rows |-> sorted(stacked),
        targets |-> [h \in Horizons |-> sorted(Targets(kept, h))]]

\* Fold k of n rows.
Fold(n, k, embargo) ==
    LET block == n \div (NFolds + 1)
    IN [train |-> 1 .. block * (k + 1),
        test |-> Min({block * (k + 1) + embargo, block * (k + 2)}) + 1
                    .. Min({block * (k + 2), n})]

Folds == 0 .. NFolds - 1
Rows == matrix.rows
Target(h) == matrix.targets[h]

\* Mutant of ModelFold: no embargo.
ModelFoldAdjacent(k) == Fold(Len(Rows), k, 0)

\* fit_predict(..., embargo=max(horizons)): rows of the pooled matrix.
ModelFold(k) == Fold(Len(Rows), k, Max(Horizons))
MetaFold(k) == Fold(Len(Rows), k, 0)

\* The rows that have a prediction, and those that train model and meta-labeler.
Predicted == UNION {ModelFold(k).test : k \in Folds}
Trained(k, h) == {j \in ModelFold(k).train : Target(h)[j] # NaN}
MetaTrained(k) ==
    IF k = 0 THEN {}
    ELSE {j \in MetaFold(k).train \ MetaFold(0).train :
              j \in Predicted /\ Target(Min(Horizons))[j] # NaN}

-----------------------------------------------------------------------------
None == [rows |-> <<>>, targets |-> [h \in Horizons |-> <<>>]]

Init == closed = <<>> /\ flats = {} /\ matrix = None

\* Bars of the symbols s close in the same minute, those of f without a range.
CloseBars(s, f) ==
    /\ matrix = None /\ Len(closed) < MaxTimes
    /\ closed' = Append(closed, s)
    /\ flats' = flats \union {<<x, Bars(x) + 1>> : x \in f}
    /\ Cardinality(flats') <= MaxFlats
    /\ UNCHANGED matrix

\* run_pipeline: the folds are functions of the matrix.
RunPipeline ==
    /\ matrix = None
    /\ matrix' = Matrix
    /\ UNCHANGED <<closed, flats>>

Next ==
    \/ \E s \in SUBSET Symbol \ {{}} : \E f \in SUBSET s : CloseBars(s, f)
    \/ RunPipeline

Spec == Init /\ [][Next]_vars

-----------------------------------------------------------------------------
(* Properties *)

\* A feature of a row reads no bar that closes after the row's.
FeaturesKnowThePast ==
    \A i \in DOMAIN Rows : \A b \in Reads(Rows[i]) : TimeOf(b) <= TimeOf(Rows[i])

\* After three filters, a concatenation and a sort, target i is made of the
\* next valid bars of the symbol of row i and of no other.
RowsAligned ==
    \A h \in Horizons, i \in DOMAIN Rows :
        LET later == {b \in ToSet(Rows) : b[1] = Rows[i][1] /\ b[2] > Rows[i][2]}
        IN IF Cardinality(later) < h THEN Target(h)[i] = NaN
           ELSE /\ Target(h)[i] \subseteq later /\ Cardinality(Target(h)[i]) = h
                /\ \A b \in Target(h)[i], c \in later \ Target(h)[i] : b[2] < c[2]

\* What an embargo counted in pooled rows guarantees: if it holds h rows of the
\* symbol, the label of a training row has closed by the first row predicted.
EmbargoHolds ==
    \A k \in Folds, h \in Horizons :
        LET last == Cardinality(ModelFold(k).train)
            held(s) == {i \in last + 1 .. last + Max(Horizons) :
                            i \in DOMAIN Rows /\ Rows[i][1] = s}
        IN \A j \in Trained(k, h), i \in ModelFold(k).test :
               Cardinality(held(Rows[j][1])) >= h =>
                   \A b \in Target(h)[j] : TimeOf(b) <= TimeOf(Rows[i])

\* The meta-labeler is trained on predictions alone, each by a model that had
\* not seen the row, and tested on none of its training rows.
MetaOutOfSample ==
    \A k \in Folds : \A j \in MetaTrained(k) :
        /\ j \notin MetaFold(k).test
        /\ \E l \in Folds :
               l < k /\ j \in ModelFold(l).test /\ j \notin ModelFold(l).train

RowsFollowThePast ==
    FeaturesKnowThePast /\ RowsAligned /\ EmbargoHolds /\ MetaOutOfSample

=============================================================================
