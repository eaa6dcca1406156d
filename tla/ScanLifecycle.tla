---------------------------- MODULE ScanLifecycle ----------------------------
(***************************************************************************)
(* What the barrier manager promises the predict orchestrator, with bars   *)
(* instead of transactions: a scan is watched, enters the market or is     *)
(* dropped, and leaves the market; the actions of a bar are either all     *)
(* told or, when the bar is interrupted, none of them is, and then no scan *)
(* has left the market either.  BarrierScans.tla implements it.            *)
(***************************************************************************)
EXTENDS Sequences

CONSTANT Scan

VARIABLES stage,    \* stage[s]: where scan s is in its life
          told      \* told[s]: the actions returned to the caller for s

vars == <<stage, told>>

Stage == {"none", "watching", "entered", "exited", "dropped", "forgotten"}
Action == {"OPEN_MARKET", "CLOSE_MARKET", "RELEASE_RESERVATION"}

\* Legacy scans are found at startup; what they told before is history.
Init ==
    /\ stage \in [Scan -> {"none", "watching", "entered"}]
    /\ told = [s \in Scan |->
                 IF stage[s] = "entered" THEN <<"OPEN_MARKET">> ELSE <<>>]

Watch(s) ==
    /\ stage[s] = "none"
    /\ stage' = [stage EXCEPT ![s] = "watching"]
    /\ UNCHANGED told

\* The scans of in enter, those of out are dropped, those of done exit.
Advance(in, out, done) ==
    stage' = [s \in Scan |-> CASE s \in in -> "entered"
                               [] s \in out -> "dropped"
                               [] s \in done -> "exited"
                               [] OTHER -> stage[s]]

Tell(in, freed, done) ==
    told' = [s \in Scan |->
                CASE s \in in -> Append(told[s], "OPEN_MARKET")
                  [] s \in freed -> Append(told[s], "RELEASE_RESERVATION")
                  [] s \in done -> Append(told[s], "CLOSE_MARKET")
                  [] OTHER -> told[s]]

Watching == {s \in Scan : stage[s] = "watching"}
Entered == {s \in Scan : stage[s] = "entered"}

\* freed: the dropped scans that held a reservation.
Bar(in, out, done, freed) ==
    /\ Advance(in, out, done)
    /\ Tell(in, freed, done)

Interrupted(in, out) ==
    /\ Advance(in, out, {})
    /\ UNCHANGED told

\* Scans that cannot be evaluated any more are given up at startup.
Reject(out, freed) ==
    /\ Advance({}, out, {})
    /\ Tell({}, freed, {})

\* The process died with its in-memory table.
Forget ==
    /\ stage' = [s \in Scan |->
                   IF stage[s] = "none" THEN "none" ELSE "forgotten"]
    /\ UNCHANGED told

Next ==
    \/ \E s \in Scan : Watch(s)
    \/ \E in \in SUBSET Watching : \E out \in SUBSET (Watching \ in) :
        \/ \E done \in SUBSET Entered, freed \in SUBSET out :
                Bar(in, out, done, freed)
        \/ Interrupted(in, out)
    \/ \E out \in SUBSET (Watching \union Entered) :
        \E freed \in SUBSET out : Reject(out, freed)
    \/ Forget

Spec == Init /\ [][Next]_vars

=============================================================================
