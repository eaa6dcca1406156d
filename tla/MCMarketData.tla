---------------------------- MODULE MCMarketData ----------------------------
(***************************************************************************)
(* What research computes from, on small instances: the monthly files of   *)
(* ticks (TickDownload), and the bars cut from ticks (BarBuilding) with    *)
(* base bars of two ticks, aggregated to the four ticks of a runtime bar.  *)
(* They share no state: a behaviour runs one of them, and the other stays  *)
(* at its start.                                                           *)
(***************************************************************************)
EXTENDS BarBuilding, TLC

CONSTANTS p1, p2, s1, Proc, Symbol, SymbolOf, MonthSlots, MaxNow, MaxFaults

VARIABLES part, now, file, lock, proc, faults, done

Download == INSTANCE TickDownload WITH MonthLen <- MonthSlots, Horizon <- MaxNow

ASSUME DownloadConstants ==
    /\ MonthSlots \in Nat \ {0} /\ {MaxNow, MaxFaults} \subseteq Nat
    /\ SymbolOf \in [Proc -> Symbol]

\* Two runs of the default list of symbols; one symbol of these is looked at.
OneSymbol == [p \in Proc |-> s1]

Downloaders == Permutations({p1, p2})

downloadVars == <<now, file, lock, proc, faults, done>>

DataInit == part \in {"bars", "download"} /\ Init /\ Download!Init

DataNext ==
    /\ \/ part = "bars" /\ Next /\ UNCHANGED downloadVars
       \/ part = "download" /\ Download!Next /\ UNCHANGED vars
    /\ UNCHANGED part

DataSpec == DataInit /\ [][DataNext]_<<part, vars, downloadVars>>

\* TickDownload!GapsFilled
GapsFilled == Download!GapsFilled
=============================================================================
