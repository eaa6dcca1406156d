----------------------------- MODULE MCResearch -----------------------------
(***************************************************************************)
(* Research against the runtime and against the future, on small           *)
(* instances: the feature vector both compute, and the two walk-forward    *)
(* studies.  None shares state with another: a behaviour runs one of them, *)
(* with the variables of the others empty.                                 *)
(***************************************************************************)
EXTENDS Integers, FiniteSets, Sequences

CONSTANTS VolWindow, CostWindow, StructWindow, MinVol, MinCost, MinSlip,
          MinStruct, Keep, Every, MaxBars,
          NBars, HourLen, HoldHours, MonthLen, Weekend, NFolds, Embargo,
          Symbols, XsWindow, MinCount, Horizons, MaxTimes, MaxFlats

VARIABLES study,
          gaps, born, oldest, persist, served,
          script, weekend, files, bar, blocked, blockedTick, cur, sim, trades,
          closed, flats, matrix

\* Around the close; at a level; through both levels; beyond a stop; crossed.
Quote == {<<0, 0>>, <<-1, 1>>, <<1, 1>>, <<-1, -1>>, <<3, 3>>, <<-3, -3>>, <<1, -1>>}

Features == INSTANCE FeatureWindow
Straddle == INSTANCE StraddleBacktest
Xs == INSTANCE XsWalkForward WITH Window <- XsWindow

ASSUME WindowConstants ==
    /\ {VolWindow, CostWindow, StructWindow, MaxBars} \subseteq Nat \ {0}
    /\ MinVol \in 1 .. VolWindow /\ MinStruct \in 1 .. StructWindow
    /\ {MinCost, MinSlip} \subseteq 1 .. CostWindow
    /\ VolWindow < CostWindow /\ StructWindow < CostWindow
    /\ Keep \in Nat /\ Keep > CostWindow + 1 /\ Every \in Nat \ {0}

ASSUME StraddleConstants ==
    /\ {NBars, HourLen, HoldHours, MonthLen, NFolds, Embargo} \subseteq Nat \ {0}
    /\ HourLen > 1 /\ Weekend \in Nat
    /\ HoldHours * HourLen <= MonthLen

ASSUME XsConstants ==
    /\ {Symbols, XsWindow, MaxTimes} \subseteq Nat \ {0}
    /\ MinCount \in 1 .. Symbols /\ MaxFlats \in Nat
    /\ Horizons \subseteq Nat \ {0} /\ Horizons # {} /\ IsFiniteSet(Horizons)

Idle == <<>>

featuresVars == <<gaps, born, oldest, persist, served>>
straddleVars == <<script, weekend, files, bar, blocked, blockedTick, cur, sim, trades>>
xsVars == <<closed, flats, matrix>>

IdleFeatures ==
    gaps = Idle /\ born = Idle /\ oldest = Idle /\ persist = Idle /\ served = Idle

IdleStraddle ==
    /\ script = Idle /\ weekend = Idle /\ files = Idle /\ bar = Idle
    /\ blocked = Idle /\ blockedTick = Idle /\ cur = Idle /\ sim = Idle
    /\ trades = Idle

IdleXs == closed = Idle /\ flats = Idle /\ matrix = Idle

StudyInit ==
    \/ study = "features" /\ Features!Init /\ IdleStraddle /\ IdleXs
    \/ study = "straddle" /\ Straddle!Init /\ IdleFeatures /\ IdleXs
    \/ study = "xs" /\ Xs!Init /\ IdleFeatures /\ IdleStraddle

StudyNext ==
    /\ \/ study = "features" /\ Features!Next /\ UNCHANGED <<straddleVars, xsVars>>
       \/ study = "straddle" /\ Straddle!Next /\ UNCHANGED <<featuresVars, xsVars>>
       \/ study = "xs" /\ Xs!Next /\ UNCHANGED <<featuresVars, straddleVars>>
    /\ UNCHANGED study

studyVars == <<study, featuresVars, straddleVars, xsVars>>

StudySpec == StudyInit /\ [][StudyNext]_studyVars

\* The property of each, of the behaviours that run it.
FeaturesExact == study = "features" => Features!LiveFeaturesExact
StraddleAnHourAheadAtMost ==
    study = "straddle" => Straddle!TradesAnHourAheadAtMost
XsFollowsThePast == study = "xs" => Xs!RowsFollowThePast
=============================================================================
