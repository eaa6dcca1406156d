----------------------------- MODULE LiveRunner -----------------------------
(* run_jforex_live.py: a script starts the API server and the live runner in    *)
(* sessions of their own, watches both, and stops what is left when one of       *)
(* them ends or a signal arrives.  A child is its process group's leader.        *)
EXTENDS Naturals, Sequences

CONSTANTS
    MaxSignals,     \* bound: SIGINT and SIGTERM
    MaxFaults       \* bound: children that survive SIGKILL for ten seconds

VARIABLES
    pc, api, java,
    known,          \* java_proc is assigned
    todo,           \* the children still to be stopped, in order
    termed,         \* SIGTERM was sent to the first of them
    guarded,        \* an exception still reaches "except Exception"
    code,           \* exit code of the script
    signals, faults,
    excused         \* history: what kept a child from being stopped

vars == <<pc, api, java, known, todo, termed, guarded, code, signals, faults, excused>>
children == <<api, java>>
bounds == <<signals, faults, excused>>
stopping == <<todo, termed, guarded, code>>

Init ==
    /\ pc = "init" /\ api = "none" /\ java = "none" /\ known = FALSE
    /\ todo = <<>> /\ termed = FALSE /\ guarded = TRUE /\ code = 0
    /\ signals = 0 /\ faults = 0 /\ excused = {}

-----------------------------------------------------------------------------
(* main *)

\* _start_api; the handlers are installed only after it.
StartApi ==
    /\ pc = "init" /\ pc' = "bare" /\ api' = "up"
    /\ UNCHANGED <<java, known, stopping, bounds>>

Install ==
    /\ pc = "bare" /\ pc' = "polling"
    /\ UNCHANGED <<children, known, stopping, bounds>>

\* The processes are stopped one after the other, then the script exits.
Stops(list, rc) == pc' = "stopping" /\ todo' = list /\ termed' = FALSE /\ code' = rc

Both == IF known THEN <<"java", "api">> ELSE <<"api">>

\* except Exception
Fail == Stops(Both, 1) /\ guarded' = FALSE

\* _poll_health: the server is healthy, or it has exited, or sixty seconds passed.
Poll ==
    /\ pc = "polling"
    /\ \/ api = "up" /\ pc' = "spawning" /\ UNCHANGED stopping
       \/ Fail
    /\ UNCHANGED <<children, known, bounds>>

\* _start_live_runner: Popen raises, or the child runs before java_proc is assigned.
Spawn ==
    /\ pc = "spawning"
    /\ \/ pc' = "spawned" /\ java' = "up" /\ UNCHANGED stopping
       \/ Fail /\ UNCHANGED java
    /\ UNCHANGED <<api, known, bounds>>

Assign ==
    /\ pc = "spawned" /\ pc' = "monitor" /\ known' = TRUE
    /\ UNCHANGED <<children, stopping, bounds>>

\* Mutant of Monitor: the runner is not looked at.
MonitorApiOnly ==
    /\ pc = "monitor" /\ api = "gone" /\ Stops(<<"java">>, 1)
    /\ UNCHANGED <<children, known, guarded, bounds>>

\* Every five seconds
Monitor ==
    /\ pc = "monitor"
    /\ \/ api = "gone" /\ Stops(<<"java">>, 1)
       \/ api # "gone" /\ java = "gone" /\ Stops(<<"api">>, 1)
    /\ UNCHANGED <<children, known, guarded, bounds>>

-----------------------------------------------------------------------------
(* _stop_process for the first of todo *)

Child == IF todo[1] = "api" THEN api ELSE java
Dies(c) == IF c = "api" THEN api' = "gone" /\ UNCHANGED java
           ELSE java' = "gone" /\ UNCHANGED api

\* poll() at the start, or wait() after SIGTERM
Stopped ==
    /\ pc = "stopping" /\ todo # <<>> /\ Child = "gone"
    /\ todo' = Tail(todo) /\ termed' = FALSE
    /\ UNCHANGED <<pc, children, known, guarded, code, bounds>>

Terminate ==
    /\ pc = "stopping" /\ todo # <<>> /\ Child = "up" /\ ~termed
    /\ termed' = TRUE
    /\ UNCHANGED <<pc, children, known, todo, guarded, code, bounds>>

\* Mutant of Kill: a child that ignores SIGTERM is given up.
KillNot ==
    /\ pc = "stopping" /\ todo # <<>> /\ Child = "up" /\ termed
    /\ todo' = Tail(todo) /\ termed' = FALSE
    /\ UNCHANGED <<pc, children, known, guarded, code, bounds>>

\* Ten seconds have passed: SIGKILL, and wait() again.
Kill ==
    /\ pc = "stopping" /\ todo # <<>> /\ Child = "up" /\ termed
    /\ Dies(todo[1])
    /\ todo' = Tail(todo) /\ termed' = FALSE
    /\ UNCHANGED <<pc, known, guarded, code, bounds>>

\* The second wait() times out as well and raises: inside the try block both are
\* stopped again, in the except clause the script ends.
KillFails ==
    /\ pc = "stopping" /\ todo # <<>> /\ Child = "up" /\ termed
    /\ faults < MaxFaults /\ faults' = faults + 1
    /\ excused' = excused \union {"stuck"}
    /\ IF guarded THEN Fail
       ELSE pc' = "over" /\ code' = 1 /\ UNCHANGED <<todo, termed, guarded>>
    /\ UNCHANGED <<children, known, signals>>

Exit ==
    /\ pc = "stopping" /\ todo = <<>> /\ pc' = "over"
    /\ UNCHANGED <<children, known, stopping, bounds>>

-----------------------------------------------------------------------------
\* _shutdown, on top of whatever the main thread does, another _shutdown
\* included; before the handlers are installed the script ends as it is.
Signal ==
    /\ pc \notin {"init", "over"}
    /\ signals < MaxSignals /\ signals' = signals + 1
    /\ IF pc = "bare" THEN pc' = "over" /\ code' = 1 /\ UNCHANGED <<todo, termed>>
       ELSE Stops(Both, 0)
    /\ excused' = excused \union (IF pc = "bare" THEN {"early"} ELSE {})
                          \union (IF pc = "spawned" THEN {"unassigned"} ELSE {})
    /\ UNCHANGED <<children, known, guarded, faults>>

\* A child ends, by itself or after SIGTERM.
ChildEnds ==
    /\ pc # "over"
    /\ \/ api = "up" /\ Dies("api")
       \/ java = "up" /\ Dies("java")
    /\ UNCHANGED <<pc, known, stopping, bounds>>

Script ==
    \/ StartApi \/ Install \/ Poll \/ Spawn \/ Assign \/ Monitor
    \/ Stopped \/ Terminate \/ Kill \/ KillFails \/ Exit
Next == Script \/ Signal \/ ChildEnds

\* The script runs; its waits have time limits.
Spec == Init /\ [][Next]_vars /\ WF_vars(Script)

-----------------------------------------------------------------------------
\* The script leaves no child behind, whatever ends when and however often it is
\* told to stop: but for a signal before the handlers are installed or before
\* java_proc is assigned, and a child that outlives SIGKILL (main, _shutdown,
\* _stop_process).
NothingLeftRunning ==
    pc = "over" =>
        /\ api = "up" => excused \intersect {"early", "stuck"} # {}
        /\ java = "up" => excused \intersect {"unassigned", "stuck"} # {}
        /\ code = 0 => signals > 0

\* Neither child runs on alone for ever: the script ends once one of them has.
RunEndsTogether == "gone" \in {api, java} ~> pc = "over"
=============================================================================
