--------------------------- MODULE MCSupervision ---------------------------
(***************************************************************************)
(* What watches over a session, on small instances: the account limits     *)
(* (AccountRisk), with two symbols, days of two slots and a window of one  *)
(* day, so that the first falls out of the window; and the script that     *)
(* runs the two processes (LiveRunner).  They share no state: a behaviour  *)
(* runs one of them, and the other stays at its start.                     *)
(***************************************************************************)
EXTENDS AccountRisk

CONSTANTS MaxSignals, MaxStuck

VARIABLES part, pc, api, java, known, todo, termed, guarded, code, signals, stuck, excused

Runner == INSTANCE LiveRunner WITH MaxFaults <- MaxStuck, faults <- stuck

ASSUME RunnerConstants == {MaxSignals, MaxStuck} \subseteq Nat

runnerVars == <<pc, api, java, known, todo, termed, guarded, code, signals, stuck, excused>>
sessionVars == <<part, vars, runnerVars>>

SessionInit == part \in {"account", "runner"} /\ Init /\ Runner!Init

SessionNext ==
    /\ \/ part = "account" /\ Next /\ UNCHANGED runnerVars
       \/ part = "runner" /\ Runner!Next /\ UNCHANGED vars
    /\ UNCHANGED part

\* The script runs; its waits have time limits.
ScriptRuns == part = "runner" /\ Runner!Script /\ UNCHANGED <<part, vars>>

SessionSpec ==
    SessionInit /\ [][SessionNext]_sessionVars /\ WF_sessionVars(ScriptRuns)

\* LiveRunner!NothingLeftRunning
NothingLeftRunning == Runner!NothingLeftRunning

\* LiveRunner!RunEndsTogether
RunEndsTogether == Runner!RunEndsTogether
=============================================================================
