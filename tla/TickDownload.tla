---------------------------- MODULE TickDownload ----------------------------
(* download_tick_vault_data.py and parallel_download.py: processes under one   *)
(* lock file scan the monthly files of their symbol for missing ranges,         *)
(* download these and merge them.                                               *)
(*                                                                              *)
(* Time is cut into slots, four to a week: Sunday evening, the weekdays, Friday *)
(* up to the close, and the weekend without ticks.  A file holds the slots      *)
(* whose ticks it has; the tolerances of five minutes and the threshold of two  *)
(* hours are below a slot.                                                      *)
EXTENDS Integers, FiniteSetsExt

CONSTANTS
    Proc,       \* downloaders
    Symbol,
    SymbolOf,   \* the symbol a downloader is started for
    MonthLen,   \* slots of a month
    Horizon,    \* bound: the last instant of the clock
    MaxFaults   \* bound: failures of downloads, reads and merges, and kills

VARIABLES
    now,        \* the slots before now are over
    file,       \* month file of a symbol
    lock,       \* download_tick_vault.lock exists
    proc,       \* the downloaders
    faults,
    done        \* history: end_date of the last undisturbed run for a symbol

vars == <<now, file, lock, proc, faults, done>>

-----------------------------------------------------------------------------
(* Sessions and months. *)

Week == 4
IsOpen(t) == t % Week # 0

\* The Friday slot of get_session_bounds_utc: Saturday and Sunday, in New York
\* time, still belong to the Friday before.
CloseOf(t) == CHOOSE c \in t - 2 .. t + 1 : c % Week = 3

\* get_fetchable_end
FetchableEnd(n) == IF IsOpen(n) THEN n ELSE CloseOf(n) + 1

\* is_expected_weekend_gap between a row and the next
WeekendGap(p, q) == p = CloseOf(p) /\ q = CloseOf(p) + 2

MonthOf(t) == (t - 1) \div MonthLen
FirstOf(m) == m * MonthLen + 1
Month == 0 .. MonthOf(Horizon)

NoFile == [state |-> "none", ticks |-> {}]
Torn == [state |-> "torn", ticks |-> {}]
Good(ticks) == [state |-> "good", ticks |-> ticks]

\* find_first_market_gap: the rows that are followed by a hole.  A file that
\* cannot be read has none.
Holes(f) ==
    {p \in f.ticks : \E q \in f.ticks :
        /\ q > p + 1 /\ ~WeekendGap(p, q)
        /\ \A t \in f.ticks : ~(p < t /\ t < q)}

\* get_parquet_info
Last(f) == Max(f.ticks)

-----------------------------------------------------------------------------
(* get_missing_months *)

Capped(a, b) == IF a < b THEN a ELSE b

\* Mutant of AfterHole: the refill ends with the hole.
AfterHoleOnly(f, until) ==
    LET p == Min(Holes(f)) IN <<p + 1, Min({q \in f.ticks : q > p})>>

\* From the first hole everything is loaded again.
AfterHole(f, until) == <<Min(Holes(f)) + 1, until>>

\* The end of a file of a month gone by is suspicious in the middle of a session.
EndsEarly(f, until) ==
    /\ Last(f) < CloseOf(Last(f)) /\ Last(f) + 1 < until

\* The ranges of month m, at most one.
MissingIn(f, m, end, n) ==
    LET until == Capped(FirstOf(m + 1), end)
        fetchable == Capped(until, FetchableEnd(n))
        current == m >= MonthOf(n)
    IN CASE f.state = "none" -> {<<FirstOf(m), until>>}
         [] f.state = "torn" -> {}
         [] f.state = "good" /\ Holes(f) # {} ->
                {AfterHole(f, IF current THEN fetchable ELSE until)}
         [] f.state = "good" /\ Holes(f) = {} /\ current ->
                {r \in {<<Last(f) + 1, fetchable>>} : r[1] < FetchableEnd(n)}
         [] f.state = "good" /\ Holes(f) = {} /\ ~current ->
                {r \in {<<Last(f) + 1, until>>} : EndsEarly(f, until)}

Missing(s, end, n) ==
    {r \in UNION {MissingIn(file[s][m], m, end, n) : m \in {k \in Month : FirstOf(k) <= end}} :
        r[1] < r[2]}

\* Nothing outside the range, the session, or the past.
Available(r, n) == {t \in r[1] .. r[2] - 1 : IsOpen(t) /\ t < n}

-----------------------------------------------------------------------------
Idle == [pc |-> "off", end |-> 0, tries |-> 0, todo |-> {}, got |-> {}, base |-> {},
         listed |-> FALSE, forced |-> FALSE, clean |-> FALSE]

Alive(p) == proc[p].pc \notin {"off", "refused"}
Working(p) == proc[p].pc \in {"scan", "fill", "write"}
Rivals(p) == {q \in Proc \ {p} : Working(q) /\ SymbolOf[q] = SymbolOf[p]}

Goes(p, r) == proc' = [proc EXCEPT ![p] = r]

\* Nothing that was said about the files of a symbol holds any more.
Disturb(P) ==
    [q \in Proc |-> IF q \in P THEN [proc[q] EXCEPT !.clean = FALSE] ELSE proc[q]]
Fault == faults < MaxFaults /\ faults' = faults + 1

Init ==
    /\ now = 1 /\ lock = FALSE /\ faults = 0
    /\ file = [s \in Symbol |-> [m \in Month |-> NoFile]]
    /\ proc = [p \in Proc |-> Idle]
    /\ done = [s \in Symbol |-> 0]

\* parallel_download.py, make, or a hand starts a downloader, with --force or
\* not, by a command that shows the path "scripts/download_tick_vault_data.py" or
\* not.
Launch(p) ==
    /\ ~Alive(p)
    /\ \E forced, listed \in BOOLEAN :
           Goes(p, [Idle EXCEPT !.pc = "check", !.forced = forced, !.listed = listed])
    /\ UNCHANGED <<now, file, lock, faults, done>>

\* should_clear_stale_lock: the list of commands has the caller itself.
Orphaned == \A q \in Proc : ~(Alive(q) /\ proc[q].listed)

\* _handle_existing_lock
Check(p) ==
    /\ proc[p].pc = "check"
    /\ LET met == lock /\ ~proc[p].forced
       IN \/ ~met /\ Goes(p, [proc[p] EXCEPT !.pc = "clear", !.forced = FALSE])
          \/ met /\ Orphaned /\ Goes(p, [proc[p] EXCEPT !.pc = "stale"])
          \/ met /\ ~Orphaned /\ Goes(p, [Idle EXCEPT !.pc = "refused"])
    /\ UNCHANGED <<now, file, lock, faults, done>>

\* The lock may be another one by now; when it is gone, unlink raises.
Unlink(p) ==
    /\ proc[p].pc = "stale" /\ lock' = FALSE
    /\ Goes(p, IF lock THEN [proc[p] EXCEPT !.pc = "clear"] ELSE [Idle EXCEPT !.pc = "refused"])
    /\ UNCHANGED <<now, file, faults, done>>

\* lock_file.touch(), after the check
Touch(p) ==
    /\ proc[p].pc = "clear"
    /\ lock' = TRUE
    /\ proc' = [Disturb(Rivals(p)) EXCEPT
                  ![p] = [proc[p] EXCEPT !.pc = "scan", !.end = now, !.tries = 3,
                                         !.clean = Rivals(p) = {}]]
    /\ done' = IF Rivals(p) = {} THEN done ELSE [done EXCEPT ![SymbolOf[p]] = 0]
    /\ UNCHANGED <<now, file, faults>>

\* process_symbol asks what is missing.
Scan(p) ==
    /\ proc[p].pc = "scan"
    /\ Goes(p, [proc[p] EXCEPT !.pc = "fill",
                               !.todo = Missing(SymbolOf[p], proc[p].end, now)])
    /\ UNCHANGED <<now, file, lock, faults, done>>

NextRange(p) == CHOOSE r \in proc[p].todo : \A o \in proc[p].todo : r[1] <= o[1]
Rest(p) == proc[p].todo \ {NextRange(p)}
FileOf(p) == file[SymbolOf[p]][MonthOf(NextRange(p)[1])]

\* A range is downloaded, read, and the existing file read.  The vendor may
\* leave out chunks (strict=False); the existing file may be unreadable.
Fetch(p) ==
    /\ proc[p].pc = "fill" /\ proc[p].todo # {}
    /\ LET all == Available(NextRange(p), now)
       IN \E got \in (SUBSET all) \ {{}}, readable \in BOOLEAN :
            /\ IF got = all /\ readable THEN UNCHANGED <<faults, done>>
               ELSE Fault /\ done' = [done EXCEPT ![SymbolOf[p]] = 0]
            /\ Goes(p, [proc[p] EXCEPT
                          !.pc = "write", !.got = got,
                          !.base = IF readable THEN FileOf(p).ticks ELSE {},
                          !.clean = @ /\ got = all /\ readable])
    /\ UNCHANGED <<now, file, lock>>

\* read_tick_data raises or has nothing: the loop goes on with the next range.
NothingNew(p) ==
    /\ proc[p].pc = "fill" /\ proc[p].todo # {}
    /\ IF Available(NextRange(p), now) = {} THEN UNCHANGED faults ELSE Fault
    /\ Goes(p, [proc[p] EXCEPT !.todo = Rest(p),
                               !.clean = @ /\ Available(NextRange(p), now) = {}])
    /\ UNCHANGED <<now, file, lock, done>>

\* download_range raises: the symbol is tried again, three times in all.
Fails(p) ==
    /\ proc[p].pc = "fill" /\ proc[p].todo # {} /\ Fault
    /\ Goes(p, IF proc[p].tries > 1
               THEN [proc[p] EXCEPT !.tries = @ - 1, !.pc = "scan", !.todo = {}]
               ELSE [proc[p] EXCEPT !.tries = 0, !.todo = {}, !.clean = FALSE])
    /\ UNCHANGED <<now, file, lock, done>>

\* concat, sort, drop_duplicates
Merged(p) == proc[p].base \union proc[p].got

Write(p) ==
    /\ proc[p].pc = "write"
    /\ file' = [file EXCEPT ![SymbolOf[p]][MonthOf(NextRange(p)[1])] = Good(Merged(p))]
    /\ Goes(p, [proc[p] EXCEPT !.pc = "fill", !.todo = Rest(p), !.got = {}, !.base = {}])
    /\ UNCHANGED <<now, lock, faults, done>>

\* All ranges are done, or given up: the finally clause removes the lock,
\* whoever touched it.
Finish(p) ==
    /\ proc[p].pc = "fill" /\ proc[p].todo = {}
    /\ lock' = FALSE
    /\ Goes(p, Idle)
    /\ done' = IF proc[p].clean THEN [done EXCEPT ![SymbolOf[p]] = proc[p].end] ELSE done
    /\ UNCHANGED <<now, file, faults>>

\* Ctrl+C cancels the task at its next await; the finally clause runs.
Interrupt(p) ==
    /\ proc[p].pc \in {"scan", "fill"}
    /\ lock' = FALSE
    /\ Goes(p, Idle)
    /\ UNCHANGED <<now, file, faults, done>>

\* The process dies where it is: the lock stays, and a file being written is torn.
Kill(p) ==
    /\ Alive(p) /\ Fault
    /\ Goes(p, Idle)
    /\ IF proc[p].pc = "write"
       THEN /\ file' = [file EXCEPT ![SymbolOf[p]][MonthOf(NextRange(p)[1])] = Torn]
            /\ done' = [done EXCEPT ![SymbolOf[p]] = 0]
       ELSE UNCHANGED <<file, done>>
    /\ UNCHANGED <<now, lock>>

Clock ==
    /\ now < Horizon /\ now' = now + 1
    /\ UNCHANGED <<file, lock, proc, faults, done>>

Next ==
    \/ Clock
    \/ \E p \in Proc :
         \/ Launch(p) \/ Check(p) \/ Unlink(p) \/ Touch(p) \/ Scan(p) \/ Fetch(p)
         \/ NothingNew(p) \/ Fails(p) \/ Write(p) \/ Finish(p) \/ Interrupt(p)
         \/ Kill(p)

Spec == Init /\ [][Next]_vars

-----------------------------------------------------------------------------
\* After a run that nothing disturbed, the files hold every tick up to its
\* end_date, but for what get_missing_months does not look for: the head of a
\* file, a file that cannot be read, and the rest of a month gone by whose file
\* ends at a Friday's close or on the Sunday after.
Overlooked(f, m, t) ==
    \/ f.state = "torn"
    \/ f.state = "good" /\ faults > 0 /\ t < Min(f.ticks)
    \/ f.state = "good" /\ m < MonthOf(now)
          /\ t > Last(f) /\ Last(f) >= CloseOf(Last(f))

Expected(m, until) == {t \in FirstOf(m) .. FirstOf(m + 1) - 1 : IsOpen(t) /\ t < until}

GapsFilled ==
    \A s \in Symbol : done[s] # 0 =>
        \A m \in Month : \A t \in Expected(m, done[s]) \ file[s][m].ticks :
            Overlooked(file[s][m], m, t)
=============================================================================
