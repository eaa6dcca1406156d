---------------------- MODULE SessionAndResearchProofs ----------------------
(***************************************************************************)
(* Proofs about the two pairs of models that stand side by side: what      *)
(* watches over a session (AccountRisk and LiveRunner, in MCSupervision),  *)
(* and the research scripts (FeatureWindow, StraddleBacktest and           *)
(* XsWalkForward, in MCResearch).                                          *)
(***************************************************************************)
EXTENDS MCSupervision, MCResearch, Sequences, FiniteSetTheorems, SequenceTheorems,
        WellFoundedInduction, TLAPS

Report == [ts : Nat, balance : Money, equity : Money]
Row == [symbol : Symbol, ts : Nat, balance : Money, equity : Money]

TypeOK ==
    /\ now \in Nat /\ faults \in Nat
    /\ posting = [report |-> posting.report, left |-> posting.left]
    /\ posting.left \subseteq Symbol
    /\ posting.left # {} => posting.report \in reports
    /\ rows \subseteq Row /\ wire \subseteq Row
    /\ reports \subseteq Report

\* The reports are those of different times up to now.
ReportShape ==
    /\ \A r \in reports : r.ts <= now
    /\ \A r, q \in reports : r.ts = q.ts => r = q

\* Any of them have a first and a last, so that CHOOSE finds one.
First(set) == \E first \in set : \A q \in set : first.ts <= q.ts
Last(set) == \E last \in set : \A q \in set : q.ts <= last.ts
Ends == \A set \in SUBSET reports : set # {} => First(set) /\ Last(set)

\* Every row, stored or late, is a report.
RowShape ==
    \A row \in rows \union wire :
        \E r \in reports : row = RowOf(row.symbol, r)

\* Of a symbol that missed none, the table has every report but the one under
\* way.
Complete ==
    \A s \in Symbol \ missed, r \in reports :
        RowOf(s, r) \in rows \/ (s \in posting.left /\ r = posting.report)

IInv == TypeOK /\ ReportShape /\ Ends /\ RowShape /\ Complete

-----------------------------------------------------------------------------
(* The inductive invariant. *)

LEMMA InitIInv == Init => IInv
BY LimitConstants DEF Init, IInv, TypeOK, ReportShape, Ends, RowShape, Complete

\* What RowOf makes of a report is a row that tells it back.
LEMMA RowOfType ==
    ASSUME NEW s \in Symbol, NEW r \in Report
    PROVE  /\ RowOf(s, r) \in Row
           /\ RowOf(s, r).symbol = s
           /\ RowOf(s, r).ts = r.ts
           /\ RowOf(s, r).balance = r.balance
           /\ RowOf(s, r).equity = r.equity
BY DEF RowOf, Row, Report

LEMMA PassIInv == ASSUME IInv, Pass PROVE IInv'
<1> USE LimitConstants DEF IInv, Pass
<1>1. TypeOK'
  BY DEF TypeOK
<1>2. ReportShape'
  BY DEF TypeOK, ReportShape, Report
<1>3. RowShape' /\ Complete' /\ Ends'
  BY DEF RowShape, Complete, Ends
<1> QED BY <1>1, <1>2, <1>3

LEMMA OnAccountIInv == ASSUME IInv, OnAccount PROVE IInv'
<1> USE LimitConstants DEF IInv
<1>1. PICK balance \in Money, equity \in Money :
          LET r == [ts |-> now, balance |-> balance, equity |-> equity]
          IN /\ posting' = [report |-> r, left |-> Symbol]
             /\ reports' = reports \union {r}
  BY DEF OnAccount
<1> DEFINE r == [ts |-> now, balance |-> balance, equity |-> equity]
<1>2. /\ posting' = [report |-> r, left |-> Symbol]
      /\ reports' = reports \union {r}
      /\ posting.left = {} /\ \A q \in reports : q.ts < now
      /\ UNCHANGED <<now, wire, rows, faults, missed>>
  BY <1>1 DEF OnAccount
<1>3. r \in Report /\ r.ts = now
  BY DEF Report, TypeOK
<1> HIDE DEF r
<1>4. TypeOK'
  BY <1>2, <1>3 DEF TypeOK
<1>5. ReportShape'
  BY <1>2, <1>3 DEF TypeOK, ReportShape, Report
<1>6. RowShape'
  BY <1>2 DEF RowShape
<1>7. Complete'
  BY <1>2 DEF Complete
<1>8. Ends'
  <2> SUFFICES ASSUME NEW set \in SUBSET (reports \union {r}), set # {}
               PROVE  First(set) /\ Last(set)
    BY <1>2 DEF Ends, First, Last
  <2>2. \A q \in reports : q.ts \in Nat /\ q.ts < now
    BY <1>2 DEF TypeOK, Report
  <2>3. set \ {r} \in SUBSET reports
    BY <1>2
  <2>4. CASE set \ {r} = {}
    BY <2>4, <1>3 DEF First, Last, TypeOK
  <2>5. CASE set \ {r} # {}
    <3>1. First(set \ {r}) /\ Last(set \ {r})
      BY <2>3, <2>5 DEF Ends
    <3>2. First(set)
      BY <3>1, <2>2, <2>3, <1>3 DEF First, TypeOK
    <3>3. CASE r \in set
      BY <2>2, <3>2, <3>3, <1>3 DEF Last, TypeOK
    <3>4. CASE r \notin set
      BY <3>1, <3>2, <3>4 DEF Last
    <3> QED BY <3>2, <3>3, <3>4
  <2> QED BY <2>4, <2>5
<1> QED BY <1>4, <1>5, <1>6, <1>7, <1>8

LEMMA PostIInv == ASSUME IInv, NEW s \in Symbol, Post(s) PROVE IInv'
<1> USE DEF IInv
<1>1. /\ s \in posting.left /\ posting.report \in reports
      /\ posting'.report = posting.report
      /\ posting'.left = posting.left \ {s}
      /\ posting' = [report |-> posting'.report, left |-> posting'.left]
      /\ rows' = rows \union {RowOf(s, posting.report)}
      /\ UNCHANGED <<now, wire, faults, reports, missed>>
  BY DEF Post, TypeOK
<1>2. posting.report \in Report
  BY <1>1 DEF TypeOK
<1>3. RowOf(s, posting.report) \in Row /\ RowOf(s, posting.report).symbol = s
  BY <1>2, RowOfType
<1>4. TypeOK'
  BY <1>1, <1>3 DEF TypeOK
<1>5. ReportShape' /\ Ends'
  BY <1>1 DEF ReportShape, Ends
<1>6. RowShape'
  BY <1>1, <1>3 DEF RowShape
<1>7. Complete'
  BY <1>1 DEF Complete
<1> QED BY <1>4, <1>5, <1>6, <1>7

LEMMA PostFailsIInv == ASSUME IInv, NEW s \in Symbol, PostFails(s) PROVE IInv'
<1> USE LimitConstants DEF IInv
<1>1. /\ s \in posting.left /\ posting.report \in reports
      /\ posting'.report = posting.report
      /\ posting'.left = posting.left \ {s}
      /\ posting' = [report |-> posting'.report, left |-> posting'.left]
      /\ wire' \subseteq wire \union {RowOf(s, posting.report)}
      /\ faults' = faults + 1 /\ missed' = missed \union {s}
      /\ UNCHANGED <<now, rows, reports>>
  BY DEF PostFails, TypeOK
<1>2. posting.report \in Report
  BY <1>1 DEF TypeOK
<1>3. RowOf(s, posting.report) \in Row /\ RowOf(s, posting.report).symbol = s
  BY <1>2, RowOfType
<1>4. TypeOK'
  BY <1>1, <1>3 DEF TypeOK
<1>5. ReportShape' /\ Ends'
  BY <1>1 DEF ReportShape, Ends
<1>6. RowShape'
  BY <1>1, <1>3 DEF RowShape
<1>7. Complete'
  BY <1>1 DEF Complete
<1> QED BY <1>4, <1>5, <1>6, <1>7

LEMMA ArriveIInv == ASSUME IInv, Arrive PROVE IInv'
<1> USE DEF IInv
<1>1. PICK row \in wire : wire' = wire \ {row} /\ rows' = rows \union {row}
  BY DEF Arrive
<1>2. UNCHANGED <<now, posting, faults, reports, missed>>
  BY DEF Arrive
<1>3. TypeOK' /\ ReportShape' /\ Ends'
  BY <1>1, <1>2 DEF TypeOK, ReportShape, Ends
<1>4. RowShape'
  BY <1>1, <1>2 DEF RowShape
<1>5. Complete'
  BY <1>1, <1>2 DEF Complete
<1> QED BY <1>3, <1>4, <1>5

LEMMA StepIInv == IInv /\ [Next]_vars => IInv'
<1> SUFFICES ASSUME IInv, [Next]_vars PROVE IInv'
  OBVIOUS
<1>1. CASE Pass
  BY <1>1, PassIInv
<1>2. CASE OnAccount
  BY <1>2, OnAccountIInv
<1>3. CASE Arrive
  BY <1>3, ArriveIInv
<1>4. CASE \E s \in Symbol : Post(s) \/ PostFails(s)
  BY <1>4, PostIInv, PostFailsIInv
<1>5. CASE UNCHANGED vars
  BY <1>5 DEF vars, IInv, TypeOK, ReportShape, Ends, RowShape, Complete
<1> QED BY <1>1, <1>2, <1>3, <1>4, <1>5 DEF Next

\* In every state of every execution, each row is a report of the account, and
\* a symbol that missed no report has them all but the one being posted.
THEOREM Inductive == Spec => []IInv
BY InitIInv, StepIInv, PTL DEF Spec

-----------------------------------------------------------------------------
(* From the rows of a symbol to the reports. *)

\* Two times of one trading day are less than its length apart.
LEMMA OneDay ==
    ASSUME NEW t \in Int, NEW u \in Int, Day(t) = Day(u)
    PROVE  t - DayLength < u
<1>1. DayLength \in Nat /\ DayLength > 0
  BY LimitConstants
<1>2. \A x \in Int : /\ (x \div DayLength) \in Int
                     /\ DayLength * (x \div DayLength) <= x
                     /\ x < DayLength * (x \div DayLength) + DayLength
  BY <1>1
<1>3. t \div DayLength = u \div DayLength
  BY DEF Day
<1>4. /\ t < DayLength * (u \div DayLength) + DayLength
      /\ DayLength * (u \div DayLength) <= u
  BY <1>2, <1>3
<1>5. DayLength * (u \div DayLength) \in Int
  BY <1>1, <1>2
<1> QED BY <1>1, <1>4, <1>5

\* What CHOOSE finds where there is a first or a last.
LEMMA OldestOf ==
    ASSUME NEW set, First(set)
    PROVE  Oldest(set) \in set /\ \A q \in set : Oldest(set).ts <= q.ts
BY DEF First, Oldest

LEMMA NewestOf ==
    ASSUME NEW set, Last(set)
    PROVE  Newest(set) \in set /\ \A q \in set : q.ts <= Newest(set).ts
BY DEF Last, Newest

\* Rows of one symbol have a first, which is that of their reports.
LEMMA RowsHaveFirst ==
    ASSUME IInv, NEW s \in Symbol, NEW set \in SUBSET Of(s), set # {}
    PROVE  First(set)
<1> DEFINE told == {r \in reports : RowOf(s, r) \in set}
<1>1. \A row \in set : \E r \in told : row = RowOf(s, r)
  BY DEF IInv, RowShape, Of
<1>2. told # {} /\ told \in SUBSET reports
  BY <1>1
<1>3. PICK first \in told : \A q \in told : first.ts <= q.ts
  <2> HIDE DEF told
  <2> QED BY <1>2 DEF IInv, Ends, First
<1>4. \A r \in told : r.ts = RowOf(s, r).ts
  BY RowOfType DEF IInv, TypeOK
<1>5. \A row \in set : RowOf(s, first).ts <= row.ts
  <2> HIDE DEF told
  <2> QED BY <1>1, <1>3, <1>4
<1> QED BY <1>3, <1>5 DEF First

\* On a day with a report of its own, a symbol is judged by the first of them.
OwnDay ==
    \A s \in Symbol :
        LET today == OfDay(Of(s), now)
        IN today # {} =>
               /\ DayStart(s, now) = Oldest(today)
               /\ Oldest(today) \in today
               /\ \A q \in today : Oldest(today).ts <= q.ts

\* The rows of the day are all among those the window returns.
LEMMA DayInWindow ==
    ASSUME IInv, NEW s \in Symbol, NEW t \in Int, OfDay(Of(s), t) # {}
    PROVE  OfDay(Recent(s, t), t) = OfDay(Of(s), t)
<1>1. \A row \in OfDay(Of(s), t) : row \in Of(s) /\ row.ts >= t - Window
  <2>1. SUFFICES ASSUME NEW row \in OfDay(Of(s), t)
                 PROVE  row \in Of(s) /\ row.ts >= t - Window
    OBVIOUS
  <2>2. row \in Of(s) /\ row.ts \in Int /\ Day(t) = Day(row.ts)
    BY DEF OfDay, Of, IInv, TypeOK, Row
  <2>3. t - DayLength < row.ts
    BY <2>2, OneDay
  <2> QED BY <2>2, <2>3, LimitConstants
<1>2. OfDay(Of(s), t) \subseteq Since(Of(s), t - Window)
  BY <1>1 DEF Since
<1>3. Recent(s, t) = Since(Of(s), t - Window)
  BY <1>2 DEF Recent
<1> QED BY <1>2, <1>3 DEF OfDay, Since

LEMMA DayStartOwn == IInv => OwnDay
<1> SUFFICES ASSUME IInv, NEW s \in Symbol, OfDay(Of(s), now) # {}
             PROVE  /\ DayStart(s, now) = Oldest(OfDay(Of(s), now))
                    /\ Oldest(OfDay(Of(s), now)) \in OfDay(Of(s), now)
                    /\ \A q \in OfDay(Of(s), now) :
                           Oldest(OfDay(Of(s), now)).ts <= q.ts
  BY DEF OwnDay
<1>1. OfDay(Recent(s, now), now) = OfDay(Of(s), now)
  BY DayInWindow DEF IInv, TypeOK
<1>2. DayStart(s, now) = Oldest(OfDay(Of(s), now))
  BY <1>1 DEF DayStart
<1>3. First(OfDay(Of(s), now))
  BY RowsHaveFirst DEF OfDay
<1> QED BY <1>2, <1>3, OldestOf

-----------------------------------------------------------------------------
(* The properties. *)

\* Rows are never deleted.
LEMMA RowsGrow == [Next]_vars => rows \subseteq rows'
BY DEF Next, vars, Pass, OnAccount, Arrive, Post, PostFails

LEMMA StepMovesBack ==
    ASSUME OwnDay, OwnDay', [Next]_vars, NEW s \in Symbol,
           Day(now') = Day(now), OfDay(Of(s), now) # {}
    PROVE  DayStart(s, now)'.ts <= DayStart(s, now).ts
<1>1. OfDay(Of(s), now) \subseteq OfDay(Of(s), now)'
  BY RowsGrow DEF OfDay, Of
<1>2. /\ DayStart(s, now) \in OfDay(Of(s), now)
      /\ \A q \in OfDay(Of(s), now)' : DayStart(s, now)'.ts <= q.ts
  BY <1>1 DEF OwnDay
<1> QED BY <1>1, <1>2

\* For any symbols, limits, day and window, however many reports are late or
\* lost: within a trading day no step replaces the report that losses are
\* measured from by a later one.
THEOREM MovesBack == Spec => DayStartMovesBack
<1>1. OwnDay /\ OwnDay' /\ [Next]_vars =>
      [\A s \in Symbol : Day(now') = Day(now) /\ OfDay(Of(s), now) # {} =>
           DayStart(s, now)'.ts <= DayStart(s, now).ts]_vars
  BY StepMovesBack
<1> QED BY <1>1, Inductive, DayStartOwn, PTL DEF DayStartMovesBack, Spec

\* A symbol that is complete has exactly the reports for rows.
LEMMA CompleteRows ==
    ASSUME IInv, NEW s \in Symbol \ (missed \union posting.left)
    PROVE  Of(s) = {RowOf(s, r) : r \in reports}
<1>1. \A r \in reports : RowOf(s, r) \in rows /\ RowOf(s, r).symbol = s
  BY RowOfType DEF IInv, TypeOK, Complete
<1>2. \A row \in Of(s) : \E r \in reports : row = RowOf(s, r)
  BY DEF Of, IInv, RowShape
<1> QED BY <1>1, <1>2 DEF Of

\* The newest row of a symbol tells of the newest report, and the first row of
\* a day of the first report.
LEMMA NewestRow ==
    ASSUME IInv, NEW s \in Symbol, Of(s) = {RowOf(s, r) : r \in reports},
           reports # {}
    PROVE  Newest(reports) \in reports /\ Latest(s) = RowOf(s, Newest(reports))
<1>1. Last(reports)
  BY DEF IInv, Ends
<1>2. /\ Newest(reports) \in reports
      /\ \A q \in reports : q.ts <= Newest(reports).ts
  BY <1>1, NewestOf
<1> DEFINE newest == RowOf(s, Newest(reports))
<1>3. \A r \in reports : r.ts \in Nat /\ RowOf(s, r).ts = r.ts
  BY RowOfType DEF IInv, TypeOK, Report
<1>4. newest \in Of(s) /\ \A q \in Of(s) : q.ts <= newest.ts
  BY <1>2, <1>3
<1>5. \A row \in Of(s) : (\A q \in Of(s) : q.ts <= row.ts) => row = newest
  <2>1. SUFFICES ASSUME NEW r \in reports,
                        \A q \in Of(s) : q.ts <= RowOf(s, r).ts
                 PROVE  r = Newest(reports)
    OBVIOUS
  <2>2. r.ts = Newest(reports).ts
    BY <1>2, <1>3, <1>4, <2>1
  <2> QED BY <1>2, <2>2 DEF IInv, ReportShape
<1>6. Latest(s) = Newest(Of(s))
  BY <1>4 DEF Latest
<1> QED BY <1>2, <1>4, <1>5, <1>6 DEF Newest

LEMMA OldestRow ==
    ASSUME IInv, NEW s \in Symbol, NEW told \in SUBSET reports, told # {},
           NEW set, set = {RowOf(s, r) : r \in told}
    PROVE  Oldest(told) \in told /\ Oldest(set) = RowOf(s, Oldest(told))
<1>1. First(told)
  BY DEF IInv, Ends
<1>2. Oldest(told) \in told /\ \A q \in told : Oldest(told).ts <= q.ts
  BY <1>1, OldestOf
<1> DEFINE earliest == RowOf(s, Oldest(told))
<1>3. \A r \in told : r.ts \in Nat /\ RowOf(s, r).ts = r.ts
  BY RowOfType DEF IInv, TypeOK, Report
<1>4. earliest \in set /\ \A q \in set : earliest.ts <= q.ts
  BY <1>2, <1>3
<1>5. \A row \in set : (\A q \in set : row.ts <= q.ts) => row = earliest
  <2>1. SUFFICES ASSUME NEW r \in told, \A q \in set : RowOf(s, r).ts <= q.ts
                 PROVE  r = Oldest(told)
    OBVIOUS
  <2>2. r.ts = Oldest(told).ts
    BY <1>2, <1>3, <1>4, <2>1
  <2> QED BY <1>2, <2>2 DEF IInv, ReportShape
<1> QED BY <1>2, <1>4, <1>5 DEF Oldest

\* A complete symbol finds the rows of a day, and no others, whatever the
\* window lets through of the rows of other symbols.
LEMMA CompleteDay ==
    ASSUME IInv, NEW s \in Symbol, Of(s) = {RowOf(s, r) : r \in reports},
           NEW t \in Int
    PROVE  OfDay(Recent(s, t), t) = {RowOf(s, r) : r \in OfDay(reports, t)}
<1>1. \A r \in reports : RowOf(s, r).ts = r.ts
  BY RowOfType DEF IInv, TypeOK
<1>2. OfDay(Of(s), t) = {RowOf(s, r) : r \in OfDay(reports, t)}
  BY <1>1 DEF OfDay
<1>3. CASE OfDay(Of(s), t) # {}
  BY <1>2, <1>3, DayInWindow
<1>4. CASE OfDay(Of(s), t) = {}
  <2>1. ASSUME NEW row \in Recent(s, t), Day(row.ts) = Day(t) PROVE FALSE
    <3>1. row \in rows
      BY DEF Recent, Since, Of
    <3>2. PICK r \in reports : row = RowOf(row.symbol, r)
      BY <3>1 DEF IInv, RowShape
    <3>3. row.ts = r.ts
      BY <3>1, <3>2, RowOfType DEF IInv, TypeOK, Row
    <3> QED BY <1>1, <1>4, <2>1, <3>3 DEF OfDay
  <2> QED BY <1>2, <1>4, <2>1 DEF OfDay
<1> QED BY <1>3, <1>4

LEMMA Gate == IInv => GateFollowsAccount
<1> SUFFICES ASSUME IInv, NEW s \in Symbol \ (missed \union posting.left),
                    NEW t \in {now, now - 1} \ {-1}, reports # {}
             PROVE  LET today == OfDay(reports, t)
                        start == IF today = {} THEN Newest(reports)
                                               ELSE Oldest(today)
                        equity == Newest(reports).equity
                    IN Decision(s, t) = Reason(start.balance - equity,
                                               Initial - equity)
  BY DEF GateFollowsAccount
<1> DEFINE today == OfDay(reports, t)
<1> DEFINE start == IF today = {} THEN Newest(reports) ELSE Oldest(today)
<1>1. t \in Int
  BY DEF IInv, TypeOK
<1>2. Of(s) = {RowOf(s, r) : r \in reports}
  BY CompleteRows
<1>3. Newest(reports) \in reports /\ Latest(s) = RowOf(s, Newest(reports))
  BY <1>2, NewestRow
<1>4. OfDay(Recent(s, t), t) = {RowOf(s, r) : r \in today}
  BY <1>1, <1>2, CompleteDay
<1>5. start \in reports /\ DayStart(s, t) = RowOf(s, start)
  <2>1. CASE today = {}
    BY <1>3, <1>4, <2>1 DEF DayStart
  <2>2. CASE today # {}
    <3>1. today \in SUBSET reports
      BY DEF OfDay
    <3>2. /\ Oldest(today) \in today
          /\ Oldest(OfDay(Recent(s, t), t)) = RowOf(s, Oldest(today))
      <4> HIDE DEF today
      <4> QED BY <1>4, <2>2, <3>1, OldestRow
    <3>3. OfDay(Recent(s, t), t) # {}
      BY <1>4, <2>2
    <3> QED BY <2>2, <3>1, <3>2, <3>3 DEF DayStart
  <2> QED BY <2>1, <2>2
<1>6. rows # {}
  BY <1>2 DEF Of
<1>7. /\ Latest(s).equity = Newest(reports).equity
      /\ DayStart(s, t).balance = start.balance
  BY <1>3, <1>5, RowOfType DEF IInv, TypeOK
<1> QED BY <1>6, <1>7 DEF Decision

\* For any symbols, limits, day and window, and any rows lost, late or half
\* posted: a symbol that has all its reports is judged by the account alone.
THEOREM GateFollows == Spec => []GateFollowsAccount
BY Inductive, Gate, PTL

-----------------------------------------------------------------------------
(* The script: what still runs is on the list of what is to be stopped, or a    *)
(* signal or SIGKILL is to blame.                                               *)

\* A runner the script does not know of is one it is just starting.
RunnerKnown ==
    /\ pc \in {"init", "bare", "polling", "spawning"} => java = "none"
    /\ java = "up" => known \/ pc = "spawned" \/ "unassigned" \in excused

Excuses(set) == excused \intersect set # {}

StopsAll ==
    /\ todo \in {<<>>, <<"api">>, <<"java">>, <<"java", "api">>}
    /\ signals \in Nat
    /\ pc = "stopping" =>
        /\ api = "up" =>
               todo \in {<<"api">>, <<"java", "api">>} \/ Excuses({"early", "stuck"})
        /\ java = "up" =>
               \/ todo \in {<<"java">>, <<"java", "api">>}
               \/ Excuses({"unassigned", "stuck"})
        /\ code = 0 => signals > 0

RunnerInv == RunnerKnown /\ StopsAll /\ NothingLeftRunning

\* Stopping everything covers whatever runs.
LEMMA StopsBoth ==
    ASSUME NEW rc, Runner!Stops(Runner!Both, rc), UNCHANGED <<api, java, known>>,
           excused \subseteq excused', signals' \in Nat, rc = 0 => signals' > 0,
           RunnerInv, pc = "spawned" => "unassigned" \in excused' \/ java # "up"
    PROVE  RunnerInv'
<1>1. /\ pc' = "stopping" /\ code' = rc
      /\ todo' = IF known THEN <<"java", "api">> ELSE <<"api">>
  BY DEF Runner!Stops, Runner!Both
<1>2. RunnerKnown'
  BY <1>1 DEF RunnerInv, RunnerKnown
<1>3. StopsAll'
  <2>1. java' = "up" => known \/ "unassigned" \in excused'
    BY DEF RunnerInv, RunnerKnown
  <2>2. todo' \in {<<"api">>, <<"java", "api">>}
    BY <1>1
  <2>3. java' = "up" => todo' = <<"java", "api">> \/ Excuses({"unassigned", "stuck"})'
    BY <1>1, <2>1 DEF Excuses
  <2> QED BY <1>1, <2>2, <2>3 DEF StopsAll
<1>4. NothingLeftRunning'
  BY <1>1 DEF NothingLeftRunning, Runner!NothingLeftRunning
<1> QED BY <1>2, <1>3, <1>4 DEF RunnerInv

LEMMA RunnerInit == SessionInit => RunnerInv
BY DEF SessionInit, Runner!Init, RunnerInv, RunnerKnown, StopsAll,
       NothingLeftRunning, Runner!NothingLeftRunning

\* Of one child the list is behind: what remains is the rest of the list.
LEMMA StopsRest ==
    ASSUME RunnerInv, pc = "stopping", todo # <<>>, todo' = Tail(todo),
           UNCHANGED <<pc, known, code, signals, excused>>,
           api' \in {api, "gone"}, java' \in {java, "gone"},
           todo[1] = "api" => api' # "up", todo[1] # "api" => java' # "up"
    PROVE  RunnerInv'
<1>1. \/ todo = <<"api">> /\ todo' = <<>> /\ api' # "up"
      \/ todo = <<"java">> /\ todo' = <<>> /\ java' # "up"
      \/ todo = <<"java", "api">> /\ todo' = <<"api">> /\ java' # "up"
  <2>1. CASE todo = <<"api">>
    BY <2>1
  <2>2. CASE todo = <<"java">>
    BY <2>2
  <2>3. CASE todo = <<"java", "api">>
    BY <2>3
  <2> QED BY <2>1, <2>2, <2>3 DEF RunnerInv, StopsAll
<1>2. (api' = "up" => api = "up") /\ (java' = "up" => java = "up")
  OBVIOUS
<1>3. RunnerKnown'
  BY <1>2 DEF RunnerInv, RunnerKnown
<1>4. StopsAll'
  BY <1>1, <1>2 DEF RunnerInv, StopsAll, Excuses
<1>5. NothingLeftRunning'
  BY DEF NothingLeftRunning, Runner!NothingLeftRunning
<1> QED BY <1>3, <1>4, <1>5 DEF RunnerInv

LEMMA RunnerNext == RunnerInv /\ [SessionNext]_sessionVars => RunnerInv'
<1> SUFFICES ASSUME RunnerInv, [SessionNext]_sessionVars PROVE RunnerInv'
  OBVIOUS
<1> USE DEF RunnerInv, RunnerKnown, StopsAll, Excuses,
            NothingLeftRunning, Runner!NothingLeftRunning,
            Runner!bounds, Runner!children, Runner!stopping
<1>1. CASE UNCHANGED runnerVars
  BY <1>1 DEF runnerVars
<1>2. CASE Runner!StartApi \/ Runner!Install
  BY <1>2 DEF Runner!StartApi, Runner!Install
<1>3. ASSUME Runner!Fail, UNCHANGED <<api, java, known, signals>>,
             excused \subseteq excused', pc # "spawned"
      PROVE  RunnerInv'
  <2>1. Runner!Stops(Runner!Both, 1)
    BY <1>3 DEF Runner!Fail
  <2> QED BY <1>3, <2>1, StopsBoth
<1>4. CASE Runner!Poll
  <2>1. CASE pc' = "spawning" /\ UNCHANGED Runner!stopping
    BY <1>4, <2>1 DEF Runner!Poll
  <2>2. CASE Runner!Fail
    BY <1>3, <1>4, <2>2 DEF Runner!Poll
  <2> QED BY <1>4, <2>1, <2>2 DEF Runner!Poll
<1>5. CASE Runner!Spawn
  <2>1. CASE pc' = "spawned" /\ UNCHANGED Runner!stopping
    BY <1>5, <2>1 DEF Runner!Spawn
  <2>2. CASE Runner!Fail /\ UNCHANGED java
    BY <1>3, <1>5, <2>2 DEF Runner!Spawn
  <2> QED BY <1>5, <2>1, <2>2 DEF Runner!Spawn
<1>6. CASE Runner!Assign
  BY <1>6 DEF Runner!Assign
<1>7. CASE Runner!Monitor
  BY <1>7 DEF Runner!Monitor, Runner!Stops
<1>8. CASE Runner!Stopped \/ Runner!Kill
  <2>1. /\ pc = "stopping" /\ todo # <<>> /\ todo' = Tail(todo)
        /\ UNCHANGED <<pc, known, code, signals, excused>>
        /\ api' \in {api, "gone"} /\ java' \in {java, "gone"}
        /\ todo[1] = "api" => api' = "gone"
        /\ todo[1] # "api" => java' = "gone"
    BY <1>8 DEF Runner!Stopped, Runner!Kill, Runner!Child, Runner!Dies
  <2> QED BY <2>1, StopsRest
<1>9. CASE Runner!Terminate
  BY <1>9 DEF Runner!Terminate
<1>10. CASE Runner!KillFails
  <2>1. /\ pc = "stopping" /\ UNCHANGED <<api, java, known, signals>>
        /\ excused' = excused \union {"stuck"}
    BY <1>10 DEF Runner!KillFails
  <2>2. CASE Runner!Fail
    BY <1>3, <2>1, <2>2
  <2>3. CASE pc' = "over" /\ code' = 1 /\ todo' = todo
    BY <2>1, <2>3
  <2> QED BY <1>10, <2>2, <2>3 DEF Runner!KillFails
<1>11. CASE Runner!Exit
  BY <1>11 DEF Runner!Exit
<1>12. CASE Runner!Signal
  <2>1. /\ signals' = signals + 1 /\ UNCHANGED <<api, java, known>>
        /\ excused' = excused \union (IF pc = "bare" THEN {"early"} ELSE {})
                          \union (IF pc = "spawned" THEN {"unassigned"} ELSE {})
    BY <1>12 DEF Runner!Signal
  <2>2. CASE pc = "bare" /\ pc' = "over" /\ code' = 1 /\ todo' = todo
    BY <2>1, <2>2
  <2>3. CASE Runner!Stops(Runner!Both, 0)
    <3>1. /\ excused \subseteq excused' /\ signals' \in Nat /\ signals' > 0
          /\ pc = "spawned" => "unassigned" \in excused'
      BY <2>1
    <3> QED BY <2>1, <2>3, <3>1, StopsBoth
  <2> QED BY <1>12, <2>2, <2>3 DEF Runner!Signal
<1>13. CASE Runner!ChildEnds
  BY <1>13 DEF Runner!ChildEnds, Runner!Dies
<1> QED BY <1>1, <1>2, <1>4, <1>5, <1>6, <1>7, <1>8, <1>9, <1>10, <1>11, <1>12,
           <1>13
        DEF SessionNext, sessionVars, Runner!Next, Runner!Script

\* However many signals arrive and whichever child ends when: the script leaves
\* no child behind but for a signal before the handlers are installed or before
\* java_proc is assigned, and a child that outlives SIGKILL (main, _shutdown,
\* _stop_process).
THEOREM NothingIsLeft == SessionSpec => []NothingLeftRunning
<1>1. RunnerInv => NothingLeftRunning
  BY DEF RunnerInv
<1> QED BY <1>1, RunnerInit, RunnerNext, PTL DEF SessionSpec

-----------------------------------------------------------------------------
(* The research studies: constants. *)

LEMMA MaxOfTwo ==
    ASSUME NEW a \in Int, NEW b \in Int
    PROVE  Features!Max({a, b}) = IF a >= b THEN a ELSE b
BY DEF Features!Max

LEMMA WarmupIs ==
    /\ Features!Warmup = CostWindow + 1
    /\ {VolWindow, CostWindow, StructWindow} \subseteq Nat \ {0}
    /\ VolWindow < CostWindow /\ StructWindow < CostWindow
    /\ Keep \in Nat /\ Keep > CostWindow + 1
<1>1. Features!Max({VolWindow, CostWindow}) = CostWindow
  BY WindowConstants, MaxOfTwo
<1>2. QED  BY <1>1, WindowConstants DEF Features!Warmup

-----------------------------------------------------------------------------
(* The feature vector. *)

\* The vector of bar b from the rows lo .. b, and the cut-offs.
Served(lo, b) ==
    /\ lo \in 1 .. b /\ b \in 1 .. Len(gaps) /\ b + 1 - lo >= Features!Warmup
    /\ served = [bar |-> b, rows |-> b + 1 - lo,
                 features |-> Features!Vector(lo, b),
                 regime |-> Features!Regime(lo, b)]

FeaturesInv ==
    /\ gaps \in Seq(BOOLEAN) /\ born \in 0 .. Len(gaps)
    /\ oldest \in born + 1 .. Len(gaps) + 1
    /\ served # Features!None => \E lo, b \in 1 .. Len(gaps) : Served(lo, b)

\* A rolling statistic is a function of the values in its window.
LEMMA RolledSame ==
    ASSUME NEW c, NEW d, NEW lo, NEW to, NEW n, NEW w, NEW min,
           Features!Max({lo, n - w}) = Features!Max({to, n - w}),
           \A j \in Features!Max({lo, n - w}) .. n - 1 : c[j] = d[j]
    PROVE  Features!Rolled(c, lo, n, w, min) = Features!Rolled(d, to, n, w, min)
<1>1. {c[j] : j \in Features!Max({lo, n - w}) .. n - 1} = {d[j] : j \in Features!Max({to, n - w}) .. n - 1}
  OBVIOUS
<1>2. QED  BY <1>1 DEF Features!Rolled

\* The minimum counts and windows of RolledSame, read from row lo and from row 1.
LEMMA SameRaw ==
    ASSUME gaps \in Seq(BOOLEAN), NEW b \in 1 .. Len(gaps), NEW lo \in 1 .. b,
           NEW w \in 1 .. CostWindow, NEW min, b - w >= lo
    PROVE  Features!Rolled(Features!RawColumn, lo, b, w, min)
           = Features!Rolled(Features!RawColumn, 1, b, w, min)
<1>1. /\ Features!Max({lo, b - w}) = b - w
      /\ Features!Max({1, b - w}) = b - w
  BY WarmupIs, MaxOfTwo
<1>2. QED  BY <1>1, RolledSame

LEMMA SameChanges ==
    ASSUME gaps \in Seq(BOOLEAN), NEW b \in 1 .. Len(gaps), NEW lo \in 1 .. b,
           NEW w \in 1 .. CostWindow, NEW min, b - w > lo
    PROVE  Features!Rolled(Features!ChangeColumn(lo), lo, b, w, min)
           = Features!Rolled(Features!ChangeColumn(1), 1, b, w, min)
<1>1. /\ Features!Max({lo, b - w}) = b - w
      /\ Features!Max({1, b - w}) = b - w
  BY WarmupIs, MaxOfTwo
<1>2. ASSUME NEW j \in b - w .. b - 1
      PROVE  Features!ChangeColumn(lo)[j] = Features!ChangeColumn(1)[j]
  <2>1. j \in DOMAIN gaps /\ j # lo /\ j # 1
    BY <1>2, WarmupIs
  <2>2. QED  BY <2>1 DEF Features!ChangeColumn, Features!Change
<1>3. QED  BY <1>1, <1>2, RolledSame

\* With a row more than the windows reach, row b is the one of the whole history.
LEMMA SameRow ==
    ASSUME gaps \in Seq(BOOLEAN), NEW b \in 1 .. Len(gaps), NEW lo \in 1 .. b,
           b + 1 - lo >= CostWindow + 1
    PROVE  LET live == Features!FeatureRow(lo, b, b)
               whole == Features!FeatureRow(1, Len(gaps), b)
           IN /\ live.bar = whole.bar /\ live.ret1 = whole.ret1
              /\ live.retZ = whole.retZ /\ live.micro = whole.micro
              /\ live.hlMean = whole.hlMean
              /\ b + 1 - lo > CostWindow + 1 =>
                    live.cost = whole.cost /\ live.velCost = whole.velCost
<1>w. /\ VolWindow \in 1 .. CostWindow /\ StructWindow \in 1 .. CostWindow
      /\ CostWindow \in 1 .. CostWindow
      /\ b - VolWindow > lo /\ b - StructWindow > lo /\ b - CostWindow >= lo
      /\ b # lo /\ b # 1
  BY WarmupIs
<1>1. Features!Change(lo, b) = Features!Change(1, b)
  BY <1>w DEF Features!Change
<1>2. Features!MicroFeature(lo, b) = Features!MicroFeature(1, b)
  BY <1>w, SameRaw DEF Features!MicroFeature
<1>3. Features!StructuralFeature(lo, b) = Features!StructuralFeature(1, b)
  BY <1>w, SameRaw DEF Features!StructuralFeature
<1>4. Features!VelocityFeature(lo, b) = Features!VelocityFeature(1, b)
  BY <1>1, <1>w, SameChanges DEF Features!VelocityFeature
<1>5. ASSUME b + 1 - lo > CostWindow + 1
      PROVE  Features!CostFeature(lo, b, b) = Features!CostFeature(1, Len(gaps), b)
  <2>1. Features!SpreadRecent(lo, b, b) = Features!SpreadRecent(1, Len(gaps), b)
    <3>1. Features!Rolled(Features!RawColumn, lo, b, CostWindow, MinCost)
          = Features!Rolled(Features!RawColumn, 1, b, CostWindow, MinCost)
      BY <1>w, SameRaw
    <3>2. b > lo /\ b > 1
      BY <1>w
    <3>3. QED  BY <3>1, <3>2 DEF Features!SpreadRecent
  <2>2. Features!Slippage(lo, b) = Features!Slippage(1, b)
    <3>1. b - CostWindow > lo
      BY <1>5, WarmupIs
    <3>2. QED  BY <1>w, <3>1, SameRaw, SameChanges DEF Features!Slippage
  <2>3. QED  BY <2>1, <2>2 DEF Features!CostFeature
<1>6. QED
  BY <1>1, <1>2, <1>3, <1>4, <1>5 DEF Features!FeatureRow

LEMMA ServedIsExact ==
    ASSUME gaps \in Seq(BOOLEAN), NEW lo, NEW b, Served(lo, b)
    PROVE  Features!LiveFeaturesExact
<1> DEFINE live == Features!FeatureRow(lo, b, b)
           whole == Features!FeatureRow(1, Len(gaps), b)
<1>1. /\ lo \in 1 .. b /\ b \in 1 .. Len(gaps)
      /\ b + 1 - lo >= CostWindow + 1
      /\ served.bar = b /\ served.rows = b + 1 - lo
      /\ served.features = live /\ served.regime = Features!Regime(lo, b)
  BY WarmupIs DEF Served, Features!Vector
<1>2. DOMAIN whole = {"bar", "ret1", "cost", "velCost", "retZ", "micro", "hlMean"}
  BY DEF Features!FeatureRow
<1>3. ASSUME NEW column \in DOMAIN whole,
             served.rows > Features!Warmup \/ column \notin {"cost", "velCost"}
      PROVE  live[column] = whole[column]
  <2> HIDE DEF live, whole
  <2>0. /\ live.bar = whole.bar /\ live.ret1 = whole.ret1
        /\ live.retZ = whole.retZ /\ live.micro = whole.micro
        /\ live.hlMean = whole.hlMean
        /\ b + 1 - lo > CostWindow + 1 =>
              live.cost = whole.cost /\ live.velCost = whole.velCost
    BY <1>1, SameRow DEF live, whole
  <2>1. QED  BY <1>1, <1>2, <1>3, <2>0, WarmupIs
<1>4. ASSUME NEW column \in DOMAIN served.regime
      PROVE  live[column] \in served.regime[column] \union {Features!Nan}
  <2>1. column \in {"bar", "cost", "velCost", "retZ", "micro"}
    BY <1>1, <1>4 DEF Features!Regime
  <2>2. served.regime[column]
        = {Features!FeatureRow(lo, b, j)[column] : j \in lo .. b} \ {Features!Nan}
    BY <1>1, <2>1 DEF Features!Regime
  <2>3. b \in lo .. b
    BY <1>1
  <2>4. QED  BY <2>2, <2>3
<1>5. QED
  BY <1>1, <1>3, <1>4 DEF Features!LiveFeaturesExact, Features!newest

\* Of n bars, what is computed of the first ones stays when a bar is appended.
LEMMA RolledStays ==
    ASSUME NEW c, NEW d, NEW lo \in Nat \ {0}, NEW n \in Nat, NEW w \in Nat, NEW min,
           \A j \in 1 .. n - 1 : c[j] = d[j]
    PROVE  Features!Rolled(c, lo, n, w, min) = Features!Rolled(d, lo, n, w, min)
<1>1. Features!Max({lo, n - w}) >= 1 /\ Features!Max({lo, n - w}) \in Int
  BY MaxOfTwo
<1>2. \A j \in Features!Max({lo, n - w}) .. n - 1 : c[j] = d[j]
  BY <1>1
<1>3. QED  BY <1>2, RolledSame

LEMMA RowStays ==
    ASSUME gaps \in Seq(BOOLEAN), NEW gap \in BOOLEAN, gaps' = Append(gaps, gap),
           NEW hi \in 1 .. Len(gaps), NEW b \in 1 .. hi, NEW lo \in 1 .. b
    PROVE  Features!FeatureRow(lo, hi, b)' = Features!FeatureRow(lo, hi, b)
<1>0. /\ Len(gaps') = Len(gaps) + 1 /\ gaps' \in Seq(BOOLEAN)
      /\ DOMAIN gaps = 1 .. Len(gaps) /\ DOMAIN gaps' = 1 .. Len(gaps')
      /\ \A j \in 1 .. Len(gaps) : gaps'[j] = gaps[j]
      /\ {VolWindow, CostWindow, StructWindow} \subseteq Nat
  BY WarmupIs
<1>1. \A j \in 1 .. b : Features!Change(lo, j)' = Features!Change(lo, j)
  BY <1>0 DEF Features!Change
<1>2. \A j \in 1 .. b - 1 :
          /\ Features!ChangeColumn(lo)'[j] = Features!ChangeColumn(lo)[j]
          /\ Features!RawColumn'[j] = Features!RawColumn[j]
  <2> SUFFICES ASSUME NEW j \in 1 .. b - 1
               PROVE  /\ Features!ChangeColumn(lo)'[j] = Features!ChangeColumn(lo)[j]
                      /\ Features!RawColumn'[j] = Features!RawColumn[j]
    OBVIOUS
  <2>1. j \in DOMAIN gaps /\ j \in DOMAIN gaps' /\ j \in 1 .. b
    BY <1>0
  <2>2. QED  BY <2>1, <1>1 DEF Features!ChangeColumn, Features!RawColumn
<1>t. b \in Nat /\ lo \in Nat \ {0}
  BY <1>0
<1>3. ASSUME NEW w \in Nat, NEW min
      PROVE  /\ Features!Rolled(Features!RawColumn, lo, b, w, min)'
                = Features!Rolled(Features!RawColumn, lo, b, w, min)
             /\ Features!Rolled(Features!ChangeColumn(lo), lo, b, w, min)'
                = Features!Rolled(Features!ChangeColumn(lo), lo, b, w, min)
  <2>1. Features!Rolled(Features!RawColumn', lo, b, w, min)
        = Features!Rolled(Features!RawColumn, lo, b, w, min)
    <3> DEFINE c == Features!RawColumn
               d == Features!RawColumn'
    <3>1. \A j \in 1 .. b - 1 : d[j] = c[j]
      BY <1>2
    <3> HIDE DEF c, d
    <3>2. QED  BY <1>t, <3>1, RolledStays DEF c, d
  <2>2. Features!Rolled(Features!ChangeColumn(lo)', lo, b, w, min)
        = Features!Rolled(Features!ChangeColumn(lo), lo, b, w, min)
    <3> DEFINE c == Features!ChangeColumn(lo)
               d == Features!ChangeColumn(lo)'
    <3>1. \A j \in 1 .. b - 1 : d[j] = c[j]
      BY <1>2
    <3> HIDE DEF c, d
    <3>2. QED  BY <1>t, <3>1, RolledStays DEF c, d
  <2>3. QED  BY <2>1, <2>2 DEF Features!Rolled
<1>4. /\ Features!VelocityFeature(lo, b)' = Features!VelocityFeature(lo, b)
      /\ Features!MicroFeature(lo, b)' = Features!MicroFeature(lo, b)
      /\ Features!StructuralFeature(lo, b)' = Features!StructuralFeature(lo, b)
      /\ Features!SpreadRecent(lo, hi, b)' = Features!SpreadRecent(lo, hi, b)
      /\ Features!Slippage(lo, b)' = Features!Slippage(lo, b)
  <2>1. Features!VelocityFeature(lo, b)' = Features!VelocityFeature(lo, b)
    BY <1>0, <1>t, <1>1, <1>3 DEF Features!VelocityFeature
  <2>2. Features!MicroFeature(lo, b)' = Features!MicroFeature(lo, b)
    BY <1>0, <1>3 DEF Features!MicroFeature
  <2>3. Features!StructuralFeature(lo, b)' = Features!StructuralFeature(lo, b)
    BY <1>0, <1>3 DEF Features!StructuralFeature
  <2>4. Features!SpreadRecent(lo, hi, b)' = Features!SpreadRecent(lo, hi, b)
    BY <1>0, <1>3 DEF Features!SpreadRecent
  <2>5. Features!Slippage(lo, b)' = Features!Slippage(lo, b)
    BY <1>0, <1>3 DEF Features!Slippage
  <2>6. QED  BY <2>1, <2>2, <2>3, <2>4, <2>5
<1>5. Features!Change(lo, b)' = Features!Change(lo, b)
  BY <1>t, <1>1
<1>6. QED
  BY <1>4, <1>5 DEF Features!FeatureRow, Features!CostFeature

\* So what was served stays what it was computed from.
LEMMA ServedStays ==
    ASSUME gaps \in Seq(BOOLEAN), NEW gap \in BOOLEAN, gaps' = Append(gaps, gap),
           served' = served, NEW lo \in 1 .. Len(gaps), NEW b, Served(lo, b)
    PROVE  Served(lo, b)'
<1>0. /\ Len(gaps') = Len(gaps) + 1 /\ lo \in 1 .. b /\ b \in 1 .. Len(gaps)
      /\ Features!Warmup \in Nat /\ b \in 1 .. b
  BY WarmupIs DEF Served
<1>1. Features!Vector(lo, b)' = Features!Vector(lo, b)
  BY <1>0, RowStays DEF Features!Vector
<1>2. Features!Regime(lo, b)' = Features!Regime(lo, b)
  <2>1. ASSUME NEW j \in lo .. b
        PROVE  Features!FeatureRow(lo, b, j)' = Features!FeatureRow(lo, b, j)
    <3>1. j \in 1 .. b /\ lo \in 1 .. j
      BY <1>0
    <3>2. QED  BY <1>0, <3>1, RowStays
  <2>2. ASSUME NEW column
        PROVE  {Features!FeatureRow(lo, b, j)[column] : j \in lo .. b}'
               = {Features!FeatureRow(lo, b, j)[column] : j \in lo .. b}
    BY <2>1
  <2>3. QED  BY <2>2 DEF Features!Regime, Features!Nan
<1>3. QED
  BY <1>0, <1>1, <1>2 DEF Served, Features!Warmup

LEMMA FeaturesStart == Features!Init => FeaturesInv
BY DEF Features!Init, FeaturesInv, Features!None

\* What step 3 computes, it computes from enough rows of the table.
LEMMA ComputedIsServed ==
    ASSUME FeaturesInv, Features!ComputeFeatures
    PROVE  FeaturesInv'
<1> DEFINE lo == Features!FrameStart
           b == Len(gaps)
<1>1. /\ gaps' = gaps /\ born' = born /\ oldest' = oldest
      /\ served' = Features!Computed /\ Features!Deficit = 0
      /\ gaps \in Seq(BOOLEAN) /\ born \in Nat /\ oldest \in Nat \ {0}
      /\ oldest <= b + 1 /\ b \in Nat
  BY DEF FeaturesInv, Features!ComputeFeatures
<1>2. b + 1 - oldest >= Features!Warmup
  <2>1. Features!Max({0, Features!Warmup - Features!Count}) = 0
    BY <1>1 DEF Features!Deficit
  <2>2. Features!Warmup - Features!Count <= 0
    BY <1>1, <2>1, WarmupIs, MaxOfTwo DEF Features!Count, Features!newest
  <2>3. QED  BY <1>1, <2>2, WarmupIs DEF Features!Count, Features!newest
<1>3. lo = IF oldest >= b + 1 - Keep THEN oldest ELSE b + 1 - Keep
  BY <1>1, WarmupIs, MaxOfTwo DEF Features!FrameStart, Features!newest
<1>4. lo \in 1 .. b /\ b \in 1 .. b /\ b + 1 - lo >= Features!Warmup
  <2>1. /\ CostWindow \in Nat \ {0} /\ Features!Warmup = CostWindow + 1
        /\ Keep \in Nat /\ Keep > CostWindow + 1
    BY WarmupIs
  <2> HIDE DEF lo
  <2>3. b \in Nat /\ oldest \in Nat \ {0} /\ b + 1 - oldest >= CostWindow + 1
    BY <1>1, <1>2, <2>1
  <2> HIDE DEF b
  <2>4. QED  BY <1>3, <2>1, <2>3
<1>5. Served(lo, b)'
  <2>1. /\ Features!FrameStart' = Features!FrameStart /\ Len(gaps)' = Len(gaps)
        /\ Features!Vector(lo, b)' = Features!Vector(lo, b)
        /\ Features!Regime(lo, b)' = Features!Regime(lo, b)
        /\ Features!Warmup' = Features!Warmup
    BY <1>1 DEF Features!FrameStart, Features!newest, Features!Vector,
                Features!Regime, Features!FeatureRow, Features!Change,
                Features!CostFeature, Features!SpreadRecent, Features!Slippage,
                Features!VelocityFeature, Features!MicroFeature,
                Features!StructuralFeature, Features!ChangeColumn,
                Features!RawColumn, Features!Warmup
  <2>2. served' = [bar |-> b, rows |-> b + 1 - lo,
                   features |-> Features!Vector(lo, b),
                   regime |-> Features!Regime(lo, b)]
    BY <1>1 DEF Features!Computed, Features!newest
  <2> HIDE DEF lo, b
  <2>3. QED  BY <1>4, <2>1, <2>2 DEF Served, lo, b
<1>6. QED
  <2>1. lo' = lo /\ b' = b
    BY <1>1 DEF Features!FrameStart, Features!newest
  <2>2. \E l, n \in 1 .. Len(gaps') : Served(l, n)'
    BY <1>1, <1>4, <1>5, <2>1
  <2>3. QED  BY <1>1, <2>2 DEF FeaturesInv

LEMMA AppendKeepsServed ==
    ASSUME FeaturesInv, NEW gap \in BOOLEAN, Features!AppendBar(gap)
    PROVE  FeaturesInv'
<1>1. /\ gaps \in Seq(BOOLEAN) /\ gaps' = Append(gaps, gap)
      /\ gaps' \in Seq(BOOLEAN) /\ Len(gaps') = Len(gaps) + 1
      /\ born' = born /\ served' = served
      /\ born \in 0 .. Len(gaps) /\ oldest \in born + 1 .. Len(gaps) + 1
  BY DEF FeaturesInv, Features!AppendBar
<1>2. oldest' \in born' + 1 .. Len(gaps') + 1
  <2>1. \/ oldest' = oldest
        \/ oldest' = Features!Max({oldest, born + (Len(gaps) + 1 - born) - Keep + 1})
    BY DEF Features!AppendBar, Features!newest
  <2> DEFINE n == Len(gaps)
             cut == born + (n + 1 - born) - Keep + 1
  <2>2. /\ n \in Nat /\ born \in Nat /\ oldest \in Int /\ Keep \in Nat /\ Keep >= 1
        /\ born + 1 <= oldest /\ oldest <= n + 1 /\ cut \in Int /\ cut <= n + 1
    BY <1>1, WarmupIs
  <2>3. born' = born /\ Len(gaps') = n + 1
    BY <1>1
  <2>4. oldest' = oldest \/ oldest' = IF oldest >= cut THEN oldest ELSE cut
    BY <2>1, <2>2, MaxOfTwo
  <2> HIDE DEF n, cut
  <2>5. QED  BY <2>2, <2>3, <2>4
<1>3. ASSUME served # Features!None
      PROVE  \E l, n \in 1 .. Len(gaps') : Served(l, n)'
  <2>1. PICK l \in 1 .. Len(gaps), n \in 1 .. Len(gaps) : Served(l, n)
    BY <1>3 DEF FeaturesInv
  <2>2. Served(l, n)'
    BY <1>1, <2>1, ServedStays
  <2>3. QED  BY <1>1, <2>2
<1>4. QED
  BY <1>1, <1>2, <1>3 DEF FeaturesInv, Features!None

LEMMA RestartKeepsServed ==
    ASSUME FeaturesInv, Features!Restart
    PROVE  FeaturesInv'
<1>1. /\ gaps' = gaps /\ served' = served
      /\ born' = Len(gaps) /\ oldest' = Len(gaps) + 1
  BY DEF Features!Restart, Features!newest
<1>2. ASSUME NEW l, NEW n
      PROVE  Served(l, n)' = Served(l, n)
  BY <1>1 DEF Served, Features!Vector,
                Features!Regime, Features!FeatureRow, Features!Change,
                Features!CostFeature, Features!SpreadRecent, Features!Slippage,
                Features!VelocityFeature, Features!MicroFeature,
                Features!StructuralFeature, Features!ChangeColumn,
                Features!RawColumn, Features!Warmup
<1>3. QED
  BY <1>1, <1>2 DEF FeaturesInv, Features!None

LEMMA NothingKeepsServed ==
    ASSUME FeaturesInv, UNCHANGED featuresVars
    PROVE  FeaturesInv'
<1>1. /\ gaps' = gaps /\ served' = served /\ born' = born /\ oldest' = oldest
  BY DEF featuresVars
<1>2. ASSUME NEW l, NEW n
      PROVE  Served(l, n)' = Served(l, n)
  BY <1>1 DEF Served, Features!Vector,
                Features!Regime, Features!FeatureRow, Features!Change,
                Features!CostFeature, Features!SpreadRecent, Features!Slippage,
                Features!VelocityFeature, Features!MicroFeature,
                Features!StructuralFeature, Features!ChangeColumn,
                Features!RawColumn, Features!Warmup
<1>3. QED
  BY <1>1, <1>2 DEF FeaturesInv, Features!None

LEMMA FeaturesStep ==
    ASSUME FeaturesInv, Features!Next
    PROVE  FeaturesInv'
<1>1. CASE \E gap \in BOOLEAN : Features!AppendBar(gap)
  BY <1>1, AppendKeepsServed
<1>2. CASE Features!ComputeFeatures
  BY <1>2, ComputedIsServed
<1>3. CASE Features!Restart
  BY <1>3, RestartKeepsServed
<1>4. QED  BY <1>1, <1>2, <1>3 DEF Features!Next

LEMMA FeaturesFollow == FeaturesInv => Features!LiveFeaturesExact
<1>1. ASSUME FeaturesInv, served # Features!None
      PROVE  Features!LiveFeaturesExact
  BY <1>1, ServedIsExact DEF FeaturesInv
<1>2. served = Features!None => Features!LiveFeaturesExact
  BY DEF Features!LiveFeaturesExact
<1>3. QED  BY <1>1, <1>2

\* In every behaviour of the studies, and so for every length of the history,
\* any windows, any number of rows kept and any prune, the vector /predict
\* computes is the vector research computes.
THEOREM FeaturesAreExact == StudySpec => []FeaturesExact
<1> DEFINE Inv == study = "features" => FeaturesInv
<1>1. StudyInit => Inv
  BY FeaturesStart DEF StudyInit
<1>2. Inv /\ [StudyNext]_studyVars => Inv'
  <2> SUFFICES ASSUME Inv, [StudyNext]_studyVars, study' = "features"
               PROVE  FeaturesInv'
    OBVIOUS
  <2>1. study = "features"
    BY DEF StudyNext, studyVars
  <2>2. CASE Features!Next
    BY <2>1, <2>2, FeaturesStep
  <2>3. CASE UNCHANGED studyVars
    <3>1. UNCHANGED featuresVars
      BY <2>3 DEF studyVars, featuresVars
    <3>2. QED  BY <2>1, <3>1, NothingKeepsServed
  <2>4. QED  BY <2>1, <2>2, <2>3 DEF StudyNext
<1>3. Inv => FeaturesExact
  BY FeaturesFollow DEF FeaturesExact
<1>4. QED  BY <1>1, <1>2, <1>3, PTL DEF StudySpec

(* Least and greatest of a set of numbers, and division. *)
LEMMA Least ==
    ASSUME NEW S \in SUBSET Nat, S # {}
    PROVE  \E x \in S : \A y \in S : x <= y
<1>1. PICK x \in S : \A y \in S : ~ (<<y, x>> \in OpToRel(<, Nat))
  BY NatLessThanWellFounded, WFMin
<1>2. \A y \in S : ~ y < x
  BY <1>1 DEF OpToRel
<1>3. QED  BY <1>2

LEMMA Greatest ==
    ASSUME NEW S \in SUBSET Nat, S # {}, NEW bound \in Nat, \A y \in S : y <= bound
    PROVE  \E x \in S : \A y \in S : y <= x
<1> DEFINE T == {bound - y : y \in S}
<1>1. T \in SUBSET Nat /\ T # {}
  <2>1. \A y \in S : bound - y \in Nat
    OBVIOUS
  <2>2. PICK y \in S : TRUE
    OBVIOUS
  <2>3. bound - y \in T
    OBVIOUS
  <2>4. QED  BY <2>1, <2>3
<1>2. PICK t \in T : \A u \in T : t <= u
  <2> HIDE DEF T
  <2>1. QED  BY <1>1, Least
<1>3. PICK x \in S : t = bound - x
  OBVIOUS
<1>4. ASSUME NEW y \in S PROVE y <= x
  <2>1. bound - y \in T
    OBVIOUS
  <2>2. bound - x <= bound - y
    BY <1>2, <1>3, <2>1
  <2>3. QED  BY <2>2
<1>5. QED  BY <1>4

LEMMA Division ==
    ASSUME NEW n \in Nat, NEW d \in Nat \ {0}
    PROVE  /\ n \div d \in Nat /\ n % d \in 0 .. d - 1
           /\ (n \div d) * d \in Nat /\ n = (n \div d) * d + (n % d)
BY SMTT(30)

LEMMA Products ==
    ASSUME NEW k \in Nat, NEW q \in Nat, NEW d \in Nat \ {0}, k < q
    PROVE  /\ k * d \in Nat /\ (k + 1) * d \in Nat /\ q * d \in Nat
           /\ (k + 1) * d = k * d + d /\ k * d + d <= q * d
BY SMTT(30)

\* A number within q * d .. q * d + d - 1 has quotient q.
LEMMA Quotient ==
    ASSUME NEW q \in Nat, NEW d \in Nat \ {0}, NEW n \in Nat,
           q * d <= n, n < q * d + d
    PROVE  n \div d = q
<1> DEFINE p == n \div d
<1>1. p \in Nat /\ p * d \in Nat /\ p * d <= n /\ n < p * d + d /\ q * d \in Nat
  BY Division, Products
<1> HIDE DEF p
<1>2. ~ p < q
  <2>1. p < q => p * d + d <= q * d
    BY <1>1, Products
  <2> DEFINE x == p * d
             y == q * d
  <2>2. x \in Nat /\ y \in Nat /\ n < x + d /\ y <= n /\ (p < q => x + d <= y)
    BY <1>1, <2>1
  <2> HIDE DEF x, y
  <2>3. QED  BY <2>2
<1>3. ~ q < p
  <2>1. q < p => q * d + d <= p * d
    BY <1>1, Products
  <2> DEFINE x == p * d
             y == q * d
  <2>2. x \in Nat /\ y \in Nat /\ n < y + d /\ x <= n /\ (q < p => y + d <= x)
    BY <1>1, <2>1
  <2> HIDE DEF x, y
  <2>3. QED  BY <2>2
<1>4. p = q
  BY <1>1, <1>2, <1>3
<1>5. QED  BY <1>4 DEF p

\* Within d of each other, two numbers have the same quotient or neighbours.
LEMMA NearQuotients ==
    ASSUME NEW n \in Nat, NEW m \in Nat, NEW d \in Nat \ {0}, n <= m, m <= n + d
    PROVE  m \div d \in {n \div d, (n \div d) + 1}
<1> DEFINE p == n \div d
           x == p * d
<1>1. p \in Nat /\ x \in Nat /\ x <= n /\ n < x + d /\ (p + 1) * d = x + d
  BY Division, Products
<1>2. CASE m < x + d
  <2>1. p * d <= m /\ m < p * d + d
    BY <1>1, <1>2
  <2> HIDE DEF p
  <2>2. m \div d = p
    BY <1>1, <2>1, Quotient
  <2>3. QED  BY <2>2 DEF p
<1>3. CASE x + d <= m
  <2>1. m < x + d + d
    <3> HIDE DEF x
    <3>1. QED  BY <1>1
  <2>2. (p + 1) * d <= m /\ m < (p + 1) * d + d
    BY <1>1, <1>3, <2>1
  <2> HIDE DEF p
  <2>3. p + 1 \in Nat
    BY <1>1
  <2>4. m \div d = p + 1
    BY <2>2, <2>3, Quotient
  <2>5. QED  BY <2>4 DEF p
<1>4. QED  
  <2> HIDE DEF x
  <2>1. QED  BY <1>1, <1>2, <1>3

-----------------------------------------------------------------------------
(* The straddle: bars and their windows. *)

TradeRecord == [bar : Nat, fill : Nat, exit : Nat]

LEMMA Lengths ==
    /\ HourLen \in Nat \ {0} /\ HourLen > 1 /\ MonthLen \in Nat \ {0} /\ Weekend \in Nat
    /\ HoldHours \in Nat \ {0} /\ {NBars, NFolds, Embargo} \subseteq Nat \ {0}
    /\ Straddle!Hold \in Nat \ {0} /\ Straddle!Hold <= MonthLen
<1>1. /\ HourLen \in Nat \ {0} /\ HourLen > 1 /\ MonthLen \in Nat \ {0}
      /\ Weekend \in Nat /\ HoldHours \in Nat \ {0}
      /\ {NBars, NFolds, Embargo} \subseteq Nat \ {0}
      /\ HoldHours * HourLen <= MonthLen
  BY StraddleConstants
<1>2. HoldHours * HourLen \in Nat \ {0}
  BY <1>1, SMTT(30)
<1>3. QED  BY <1>1, <1>2 DEF Straddle!Hold

LEMMA Bars ==
    ASSUME weekend \in 1 .. NBars, NEW i \in Nat
    PROVE  /\ Straddle!Hour(i) \in Nat /\ Straddle!Start(i) \in Nat
           /\ Straddle!Start(i) = Straddle!Hour(i) * HourLen
           /\ Straddle!Close(i) = Straddle!Start(i) + HourLen - 1
           /\ Straddle!End(i) = Straddle!Start(i) + Straddle!Hold
           /\ Straddle!End(i) \in Nat
<1>1. Straddle!Hour(i) \in Nat
  BY Lengths DEF Straddle!Hour
<1>2. Straddle!Hour(i) * HourLen \in Nat
  BY <1>1, Lengths, SMTT(30)
<1>3. QED
  BY <1>1, <1>2, Lengths DEF Straddle!Start, Straddle!Close, Straddle!End

LEMMA LaterBar ==
    ASSUME weekend \in 1 .. NBars, NEW i \in Nat, NEW j \in Nat, i < j
    PROVE  /\ Straddle!Hour(i) < Straddle!Hour(j)
           /\ Straddle!Start(i) + HourLen <= Straddle!Start(j)
<1>1. Straddle!Hour(i) < Straddle!Hour(j)
  BY Lengths DEF Straddle!Hour
<1>2. QED
  BY <1>1, Bars, Lengths, Products

\* All ticks between two bars on one side of the weekend exist.
LEMMA NoWeekendBetween ==
    ASSUME weekend \in 1 .. NBars, NEW i \in Nat, NEW j \in Nat, i <= j,
           weekend \notin i + 1 .. j,
           NEW u \in Nat, Straddle!Start(i) <= u, u < Straddle!Start(j) + HourLen
    PROVE  Straddle!Exists(u)
<1> DEFINE h == u \div HourLen
           x == h * HourLen
           s == Straddle!Start(i)
           t == Straddle!Start(j)
<1>1. /\ h \in Nat /\ x \in Nat /\ x <= u /\ u < x + HourLen
      /\ HourLen \in Nat \ {0}
  <2> DEFINE r == u % HourLen
  <2>1. HourLen \in Nat \ {0}
    BY Lengths
  <2>2. h \in Nat /\ x \in Nat /\ r \in 0 .. HourLen - 1 /\ u = x + r
    BY <2>1, Division
  <2> HIDE DEF h, x, r
  <2>3. QED  BY <2>1, <2>2
<1>2. /\ s \in Nat /\ t \in Nat /\ s <= u /\ u < t + HourLen
      /\ s = Straddle!Hour(i) * HourLen /\ t = Straddle!Hour(j) * HourLen
      /\ Straddle!Hour(i) \in Nat /\ Straddle!Hour(j) \in Nat
  BY Bars
<1>3. /\ h < Straddle!Hour(i) => x + HourLen <= s
      /\ Straddle!Hour(j) < h => t + HourLen <= x
  <2> HIDE DEF h
  <2>1. QED  BY <1>1, <1>2, Products
<1> HIDE DEF x, s, t
<1>4. ~ h < Straddle!Hour(i) /\ ~ Straddle!Hour(j) < h
  BY <1>1, <1>2, <1>3
<1> HIDE DEF h
<1>5. h \notin weekend .. weekend + Weekend - 1
  <2>1. CASE j < weekend
    <3>1. Straddle!Hour(j) = j
      BY <2>1 DEF Straddle!Hour
    <3>2. QED  BY <2>1, <3>1, <1>1, <1>4
  <2>2. CASE weekend <= i
    <3>1. Straddle!Hour(i) = i + Weekend
      BY <2>2 DEF Straddle!Hour
    <3>2. QED  BY <2>2, <3>1, <1>1, <1>4, Lengths
  <2>3. QED  BY <2>1, <2>2
<1>6. QED  BY <1>5 DEF Straddle!Exists, h

\* Where a straddle may look.
LEMMA Windows ==
    ASSUME weekend \in 1 .. NBars, NEW i \in Nat, NEW t \in Straddle!SimWindow(i)
    PROVE  /\ t \in Nat /\ t >= Straddle!Start(i) + 1
           /\ t <= Straddle!End(i) + Weekend * HourLen
           /\ script = "exact" => t <= Straddle!End(i)
<1>1. Weekend * HourLen \in Nat
  BY Lengths, SMTT(30)
<1>2. QED
  BY <1>1, Bars DEF Straddle!SimWindow, Straddle!TickWindow, Straddle!MinuteWindow

\* Each instance of a module has its own name for the library's operators.
LEMMA StraddleCounts ==
    ASSUME NEW S
    PROVE  Straddle!Cardinality(S) = Cardinality(S)
BY DEF Straddle!Cardinality, Cardinality

\* The window of the older script counts minutes: it ends in the hours after a
\* bar only when a weekend lies before that bar.
LEMMA MinutesEnd ==
    ASSUME weekend \in 1 .. NBars, NEW i \in Nat, NEW j \in Nat,
           weekend \notin i + 1 .. j, Straddle!End(i) <= Straddle!Start(j),
           NEW t \in Straddle!MinuteWindow(i)
    PROVE  t <= Straddle!Start(j)
<1> DEFINE s == Straddle!Start(i)
           e == Straddle!End(i)
           seen == {u \in s + 1 .. t : Straddle!Exists(u)}
<1>1. /\ s \in Nat /\ e \in Nat /\ e = s + Straddle!Hold /\ Straddle!Start(j) \in Nat
      /\ Straddle!Hold \in Nat \ {0} /\ HourLen \in Nat \ {0} /\ e <= Straddle!Start(j)
  BY Bars, Lengths
<1>2. /\ t \in Int /\ Straddle!Exists(t) /\ Cardinality(seen) <= Straddle!Hold
  <2>1. /\ t \in s + 1 .. e + Weekend * HourLen /\ Straddle!Exists(t)
        /\ Cardinality(seen) <= Straddle!Hold
    BY StraddleCounts DEF Straddle!MinuteWindow
  <2> DEFINE bound == e + Weekend * HourLen
  <2>2. \A a, b : t \in a .. b => t \in Int
    OBVIOUS
  <2> HIDE DEF s, bound, seen
  <2>3. t \in s + 1 .. bound
    BY <2>1 DEF bound
  <2>4. QED  BY <2>1, <2>2, <2>3
<1>3. i <= j
  <2>1. j < i => Straddle!Start(j) + HourLen <= s
    BY LaterBar
  <2> HIDE DEF s, e
  <2>2. QED  BY <1>1, <2>1
<1>4. SUFFICES ASSUME t > Straddle!Start(j) PROVE FALSE
  BY <1>1, <1>2
<1>5. s + 1 .. e \subseteq seen
  <2> SUFFICES ASSUME NEW u \in s + 1 .. e PROVE u \in seen
    OBVIOUS
  <2>1. u \in Nat /\ s <= u /\ u < Straddle!Start(j) + HourLen /\ u \in s + 1 .. t
    <3> HIDE DEF s, e
    <3>1. QED  BY <1>1, <1>2, <1>4
  <2>2. Straddle!Exists(u)
    BY <1>3, <2>1, NoWeekendBetween
  <2>3. QED  BY <2>1, <2>2
<1>6. t \in seen /\ t \notin s + 1 .. e
  <2>1. t \in s + 1 .. t /\ t \notin s + 1 .. e
    <3> HIDE DEF s, e
    <3>1. QED  BY <1>1, <1>2, <1>4
  <2>2. QED  BY <1>2, <2>1
<1>7. IsFiniteSet(seen)
  <2>1. IsFiniteSet(s + 1 .. t)
    BY <1>1, <1>2, FS_Interval
  <2>2. QED  BY <2>1, FS_Subset
<1>8. /\ IsFiniteSet(s + 1 .. e) /\ Cardinality(s + 1 .. e) = Straddle!Hold
  <2>1. /\ IsFiniteSet(s + 1 .. e)
        /\ Cardinality(s + 1 .. e) = IF s + 1 > e THEN 0 ELSE e - (s + 1) + 1
    <3> DEFINE a == s + 1
    <3>1. a \in Int /\ e \in Int
      BY <1>1
    <3> HIDE DEF a, e
    <3>2. IsFiniteSet(a .. e) /\ Cardinality(a .. e) = IF a > e THEN 0 ELSE e - a + 1
      BY <3>1, FS_Interval
    <3>3. QED  BY <3>2 DEF a
  <2> DEFINE hold == Straddle!Hold
  <2>2. s \in Nat /\ hold \in Nat \ {0} /\ e = s + hold
    BY <1>1
  <2> HIDE DEF s, e, hold
  <2>3. ~ s + 1 > e /\ e - (s + 1) + 1 = hold
    BY <2>2
  <2>4. QED  BY <2>1, <2>3 DEF hold
<1>9. Cardinality((s + 1 .. e) \union {t}) = Straddle!Hold + 1
  <2> HIDE DEF s, e
  <2>1. QED  BY <1>6, <1>8, FS_AddElement
<1>10. Straddle!Hold + 1 <= Cardinality(seen)
  <2>1. (s + 1 .. e) \union {t} \subseteq seen
    BY <1>5, <1>6
  <2> HIDE DEF s, e, seen
  <2>2. QED  BY <1>7, <1>9, <2>1, FS_Subset
<1>11. Cardinality(seen) \in Nat
  BY <1>7, FS_CardinalityType
<1>12. QED
  <2> HIDE DEF seen
  <2>1. QED  BY <1>1, <1>2, <1>10, <1>11

-----------------------------------------------------------------------------
(* The straddle: trades, and what a trade blocks. *)

Simulation == [bar : Nat, seen : Nat, fill : Nat, price : Int]

\* The block of the loop that simulates: the second one has ticks.
Until == IF script = "exact" THEN blockedTick ELSE blocked

\* The trade was filled after its bar's start, and nothing of it, or in the
\* older script of its block, is after t.
Over(row, t) ==
    /\ Straddle!Start(row.bar) < row.fill
    /\ IF script = "exact" THEN row.exit <= t /\ row.fill + Straddle!Hold <= t
       ELSE Straddle!End(row.bar) <= t

\* The ticks in memory are those of the months of some bar's window.
Loaded ==
    \E i \in Nat :
        cur = [month |-> Straddle!Month(Straddle!Start(i)), for |-> i,
               loaded |-> {Straddle!Month(Straddle!Start(i)),
                           Straddle!Month(Straddle!End(i))} \intersect files]

StraddleTypes ==
    /\ script \in {"exact", "proxy"} /\ weekend \in 1 .. NBars
    /\ bar \in Nat /\ blocked \in Nat /\ blockedTick \in Nat
    /\ trades \in Seq(TradeRecord) /\ (sim = Straddle!None \/ sim \in Simulation)
    /\ cur = Straddle!NoMonth \/ Loaded

SimulationInv ==
    sim # Straddle!None =>
        /\ Until <= Straddle!Start(sim.bar)
        /\ sim.fill # 0 => sim.fill > Straddle!Start(sim.bar)
        /\ script = "exact" =>
               Loaded /\ cur.month = Straddle!Month(Straddle!Start(sim.bar))

TradesInv ==
    /\ \A k \in 1 .. Len(trades) : Over(trades[k], Until)
    /\ \A i, j \in 1 .. Len(trades) :
           i < j => Over(trades[i], Straddle!Start(trades[j].bar))
    /\ script = "proxy" =>
           \A k \in 1 .. Len(trades) :
               trades[k].exit \in Straddle!MinuteWindow(trades[k].bar)
                                  \union {Straddle!End(trades[k].bar)}

StraddleInv == StraddleTypes /\ SimulationInv /\ TradesInv

LEMMA BarsStay ==
    ASSUME weekend' = weekend, NEW i
    PROVE  /\ Straddle!Start(i)' = Straddle!Start(i)
           /\ Straddle!End(i)' = Straddle!End(i)
           /\ Straddle!MinuteWindow(i)' = Straddle!MinuteWindow(i)
BY DEF Straddle!Start, Straddle!Hour, Straddle!End, Straddle!MinuteWindow,
       Straddle!Exists, Straddle!Hold, Straddle!Cardinality

LEMMA OverStays ==
    ASSUME script' = script, weekend' = weekend, NEW row, NEW t
    PROVE  Over(row, t)' = Over(row, t)
BY BarsStay DEF Over, Straddle!Hold

\* Without a trade, nothing changes for the trades.
LEMMA TradesStay ==
    ASSUME TradesInv, UNCHANGED <<script, weekend, trades>>, Until' = Until
    PROVE  TradesInv'
<1> DEFINE ts == trades
           u == Until
<1>1. trades' = ts /\ Until' = u /\ script' = script /\ weekend' = weekend
  OBVIOUS
<1>2. /\ \A row, t : Over(row, t)' = Over(row, t)
      /\ \A i : Straddle!Start(i)' = Straddle!Start(i)
      /\ \A i : Straddle!End(i)' = Straddle!End(i)
      /\ \A i : Straddle!MinuteWindow(i)' = Straddle!MinuteWindow(i)
  BY BarsStay, OverStays
<1>3. /\ \A k \in 1 .. Len(ts) : Over(ts[k], u)
      /\ \A i, j \in 1 .. Len(ts) : i < j => Over(ts[i], Straddle!Start(ts[j].bar))
      /\ script = "proxy" =>
             \A k \in 1 .. Len(ts) :
                 ts[k].exit \in Straddle!MinuteWindow(ts[k].bar)
                                \union {Straddle!End(ts[k].bar)}
  BY DEF TradesInv
<1> HIDE DEF ts, u
<1>4. QED  BY <1>1, <1>2, <1>3 DEF TradesInv, Over, Until

LEMMA OverLater ==
    ASSUME weekend \in 1 .. NBars, NEW row \in TradeRecord, NEW t \in Nat, NEW u \in Nat,
           t <= u, Over(row, t)
    PROVE  Over(row, u)
<1>1. row.bar \in Nat /\ row.fill \in Nat /\ row.exit \in Nat
  BY DEF TradeRecord
<1>2. Straddle!End(row.bar) \in Nat /\ Straddle!Hold \in Nat
  BY <1>1, Bars, Lengths
<1>3. QED  BY <1>1, <1>2 DEF Over

\* A trade that blocks no less than those before it comes after all of them.
LEMMA TradeFollows ==
    ASSUME StraddleInv, sim # Straddle!None, UNCHANGED <<script, weekend>>,
           NEW row \in TradeRecord, row.bar = sim.bar, trades' = Append(trades, row),
           Until' \in Nat, Until <= Until', Over(row, Until'),
           script = "proxy" => row.exit \in Straddle!MinuteWindow(row.bar)
                                            \union {Straddle!End(row.bar)}
    PROVE  TradesInv'
<1> DEFINE n == Len(trades)
           ts == trades
           before == Until
           then == Until'
<1>1. /\ n \in Nat /\ ts \in Seq(TradeRecord) /\ weekend \in 1 .. NBars
      /\ before \in Nat /\ then \in Nat /\ before <= then
      /\ Straddle!Start(row.bar) \in Nat /\ before <= Straddle!Start(row.bar)
      /\ \A k \in 1 .. n : Over(ts[k], before)
      /\ \A i, j \in 1 .. n : i < j => Over(ts[i], Straddle!Start(ts[j].bar))
      /\ script = "proxy" =>
             \A k \in 1 .. n : ts[k].exit \in Straddle!MinuteWindow(ts[k].bar)
                                              \union {Straddle!End(ts[k].bar)}
  <2>1. Straddle!Start(row.bar) \in Nat
    BY Bars DEF StraddleInv, StraddleTypes, TradeRecord
  <2>2. QED
    BY <2>1 DEF StraddleInv, StraddleTypes, SimulationInv, TradesInv, Until
<1>2. /\ \A i : Straddle!Start(i)' = Straddle!Start(i)
      /\ \A i : Straddle!End(i)' = Straddle!End(i)
      /\ \A i : Straddle!MinuteWindow(i)' = Straddle!MinuteWindow(i)
      /\ \A x, t : Over(x, t)' = Over(x, t)
  BY BarsStay, OverStays
<1>3. /\ Len(trades') = n + 1 /\ trades'[n + 1] = row
      /\ \A k \in 1 .. n : trades'[k] = ts[k] /\ ts[k] \in TradeRecord
  BY <1>1
<1>4. \A k \in 1 .. n : Over(ts[k], then) /\ Over(ts[k], Straddle!Start(row.bar))
  <2> SUFFICES ASSUME NEW k \in 1 .. n
               PROVE  Over(ts[k], then) /\ Over(ts[k], Straddle!Start(row.bar))
    OBVIOUS
  <2>1. ts[k] \in TradeRecord /\ Over(ts[k], before)
    BY <1>1, <1>3
  <2> HIDE DEF ts, before, then, n
  <2>2. QED  BY <1>1, <2>1, OverLater
<1>5. Over(row, then)
  OBVIOUS
<1> DEFINE us == trades'
<1>6. \A k \in 1 .. n + 1 : Over(us[k], then)
  <2> SUFFICES ASSUME NEW k \in 1 .. n + 1 PROVE Over(us[k], then)
    OBVIOUS
  <2>1. k = n + 1 \/ k \in 1 .. n
    BY <1>1
  <2> HIDE DEF us, then, n, ts
  <2>2. QED  BY <1>3, <1>4, <1>5, <2>1 DEF us
<1>7. \A i, j \in 1 .. n + 1 : i < j => Over(us[i], Straddle!Start(us[j].bar))
  <2> SUFFICES ASSUME NEW i \in 1 .. n + 1, NEW j \in 1 .. n + 1, i < j
               PROVE  Over(us[i], Straddle!Start(us[j].bar))
    OBVIOUS
  <2>0. n \in Nat
    BY <1>1
  <2>1. i \in 1 .. n /\ (j = n + 1 \/ j \in 1 .. n)
    <3> HIDE DEF us, ts, n
    <3>1. QED  BY <2>0
  <2> HIDE DEF ts, n
  <2>2. us[i] = ts[i] /\ Over(ts[i], Straddle!Start(row.bar))
    BY <1>3, <1>4, <2>1
  <2>3. CASE j = n + 1
    <3>1. us[j] = row
      BY <1>3, <2>3
    <3>2. QED  BY <2>2, <3>1
  <2>4. CASE j \in 1 .. n
    <3>1. us[j] = ts[j]
      BY <1>3, <2>4
    <3>2. Over(ts[i], Straddle!Start(ts[j].bar))
      BY <1>1, <2>1, <2>4
    <3>3. QED  BY <2>2, <3>1, <3>2
  <2>5. QED  BY <2>1, <2>3, <2>4
<1>8. script = "proxy" =>
          \A k \in 1 .. n + 1 : us[k].exit \in Straddle!MinuteWindow(us[k].bar)
                                               \union {Straddle!End(us[k].bar)}
  <2> SUFFICES ASSUME script = "proxy", NEW k \in 1 .. n + 1
               PROVE  us[k].exit \in Straddle!MinuteWindow(us[k].bar)
                                     \union {Straddle!End(us[k].bar)}
    OBVIOUS
  <2>1. k = n + 1 \/ k \in 1 .. n
    BY <1>1
  <2> HIDE DEF us, ts, n
  <2>2. QED  BY <1>1, <1>3, <2>1 DEF us
<1> HIDE DEF n, ts, before, us, then
<1>9. Len(trades') = n + 1 /\ script' = script /\ trades' = us /\ Until' = then
  BY <1>3 DEF us, then
<1>10. QED
  <2>1. \A k \in 1 .. Len(trades') : Over(trades[k], Until)'
    BY <1>2, <1>6, <1>9 DEF Over
  <2>2. \A i, j \in 1 .. Len(trades') :
            i < j => Over(trades[i], Straddle!Start(trades[j].bar))'
    BY <1>2, <1>7, <1>9 DEF Over
  <2>3. (script = "proxy" =>
             \A k \in 1 .. Len(trades) :
                 trades[k].exit \in Straddle!MinuteWindow(trades[k].bar)
                                    \union {Straddle!End(trades[k].bar)})'
    BY <1>2, <1>8, <1>9
  <2>4. QED  BY <2>1, <2>2, <2>3 DEF TradesInv

\* The ticks a straddle has not seen come after the bar's time.
LEMMA NextTick ==
    ASSUME StraddleTypes, sim \in Simulation, Straddle!Unseen # {}
    PROVE  /\ Straddle!Min(Straddle!Unseen) \in Straddle!SimWindow(sim.bar)
           /\ Straddle!Min(Straddle!Unseen) \in Nat
           /\ Straddle!Min(Straddle!Unseen) > Straddle!Start(sim.bar)
<1>1. sim.bar \in Nat /\ sim.seen \in Nat /\ weekend \in 1 .. NBars
  BY DEF StraddleTypes, Simulation
<1>2. \A t \in Straddle!SimWindow(sim.bar) : t \in Nat /\ t >= Straddle!Start(sim.bar) + 1
  BY <1>1, Windows
<1>3. Straddle!Unseen \in SUBSET Nat /\ Straddle!Unseen \subseteq Straddle!SimWindow(sim.bar)
  BY <1>2 DEF Straddle!Unseen
<1>4. \E x \in Straddle!Unseen : \A y \in Straddle!Unseen : x <= y
  BY <1>3, Least
<1>5. Straddle!Min(Straddle!Unseen) \in Straddle!Unseen
  <2> DEFINE S == Straddle!Unseen
  <2> HIDE DEF S
  <2>1. (\E x \in S : \A y \in S : x <= y) => Straddle!Min(S) \in S
    BY DEF Straddle!Min
  <2>2. QED  BY <1>4, <2>1 DEF S
<1>6. Straddle!Start(sim.bar) \in Nat
  BY <1>1, Bars
<1>7. QED
  <2> DEFINE t == Straddle!Min(Straddle!Unseen)
             s == Straddle!Start(sim.bar)
  <2>1. t \in Straddle!SimWindow(sim.bar) /\ s \in Nat
    BY <1>3, <1>5, <1>6
  <2>2. t \in Nat /\ t >= s + 1
    BY <1>2, <2>1
  <2> HIDE DEF t, s
  <2>3. t > s
    BY <2>1, <2>2
  <2>4. QED  BY <2>1, <2>2, <2>3 DEF t, s

\* The time barrier is the last tick of the window, or its end.
LEMMA LastTick ==
    ASSUME StraddleTypes, sim \in Simulation
    PROVE  /\ Straddle!Max(Straddle!SimWindow(sim.bar) \union {Straddle!End(sim.bar)})
              \in Straddle!SimWindow(sim.bar) \union {Straddle!End(sim.bar)}
           /\ Straddle!Max(Straddle!SimWindow(sim.bar) \union {Straddle!End(sim.bar)}) \in Nat
<1> DEFINE S == Straddle!SimWindow(sim.bar) \union {Straddle!End(sim.bar)}
           bound == Straddle!End(sim.bar) + Weekend * HourLen
<1>1. sim.bar \in Nat /\ weekend \in 1 .. NBars
  BY DEF StraddleTypes, Simulation
<1>2. Straddle!End(sim.bar) \in Nat /\ Weekend * HourLen \in Nat
  BY <1>1, Bars, Lengths, SMTT(30)
<1>3. \A t \in Straddle!SimWindow(sim.bar) : t \in Nat /\ t <= bound
  BY <1>1, Windows
<1>4. S \in SUBSET Nat /\ S # {} /\ bound \in Nat /\ \A t \in S : t <= bound
  BY <1>2, <1>3
<1> HIDE DEF S, bound
<1>5. \E x \in S : \A y \in S : y <= x
  BY <1>4, Greatest
<1>6. Straddle!Max(S) \in S
  <2>1. \E x \in S : \A y \in S : x >= y
    BY <1>4, <1>5
  <2>2. QED  BY <2>1 DEF Straddle!Max
<1>7. Straddle!Max(S) \in Nat
  BY <1>4, <1>6
<1>8. QED  BY <1>6, <1>7 DEF S

\* A trade's row, and the block that begins with it.
LEMMA TradeKeeps ==
    ASSUME StraddleInv, sim \in Simulation, sim.fill # 0, NEW exit \in Nat,
           exit \in Straddle!SimWindow(sim.bar) \union {Straddle!End(sim.bar)},
           Straddle!Trade(sim.fill, exit), UNCHANGED <<script, weekend, files, bar, cur>>
    PROVE  StraddleInv'
<1> DEFINE row == [bar |-> sim.bar, fill |-> sim.fill, exit |-> exit]
<1>1. /\ row \in TradeRecord /\ row.bar = sim.bar /\ row.exit = exit
      /\ row.fill = sim.fill /\ sim.bar \in Nat /\ sim.fill \in Nat
  BY DEF TradeRecord, Simulation
<1>2. /\ script \in {"exact", "proxy"} /\ weekend \in 1 .. NBars
      /\ bar \in Nat /\ blocked \in Nat /\ blockedTick \in Nat
      /\ trades \in Seq(TradeRecord) /\ (cur = Straddle!NoMonth \/ Loaded)
  BY DEF StraddleInv, StraddleTypes
<1>3. sim # Straddle!None
  BY <1>1 DEF Straddle!None
<1>4. /\ Until <= Straddle!Start(sim.bar) /\ sim.fill > Straddle!Start(sim.bar)
  BY <1>3 DEF StraddleInv, SimulationInv
<1>5. /\ Straddle!Start(sim.bar) \in Nat /\ Straddle!End(sim.bar) \in Nat
      /\ Straddle!End(sim.bar) = Straddle!Start(sim.bar) + Straddle!Hold
      /\ Straddle!Hold \in Nat
  BY <1>1, <1>2, Bars, Lengths
<1>6. /\ trades' = Append(trades, row) /\ sim' = Straddle!None
      /\ script = "exact" => blockedTick' = sim.fill + Straddle!Hold /\ blocked' = blocked
      /\ script = "proxy" => blocked' = Straddle!End(sim.bar) /\ blockedTick' = blockedTick
  BY <1>2 DEF Straddle!Trade, Straddle!Blocked
<1>7. /\ Until' \in Nat /\ Until <= Until' /\ Over(row, Until')
      /\ blocked' \in Nat /\ blockedTick' \in Nat
  <2>1. CASE script = "exact"
    <3>1. exit <= Straddle!End(sim.bar)
      <4>1. \A t \in Straddle!SimWindow(sim.bar) : t <= Straddle!End(sim.bar)
        BY <1>1, <1>2, <2>1, Windows
      <4>2. QED  BY <1>5, <4>1
    <3>2. Until = blockedTick /\ Until' = sim.fill + Straddle!Hold
      BY <1>6, <2>1 DEF Until
    <3>3. QED  BY <1>1, <1>2, <1>4, <1>5, <1>6, <2>1, <3>1, <3>2 DEF Over
  <2>2. CASE script = "proxy"
    <3>1. Until = blocked /\ Until' = Straddle!End(sim.bar)
      BY <1>6, <2>2 DEF Until
    <3>2. QED  BY <1>1, <1>2, <1>4, <1>5, <1>6, <2>2, <3>1 DEF Over
  <2>3. QED  BY <1>2, <2>1, <2>2
<1>8. script = "proxy" => row.exit \in Straddle!MinuteWindow(row.bar)
                                       \union {Straddle!End(row.bar)}
  BY <1>1 DEF Straddle!SimWindow
<1>9. TradesInv'
  <2> HIDE DEF row
  <2>1. QED  BY <1>1, <1>3, <1>6, <1>7, <1>8, TradeFollows
<1>10. trades' \in Seq(TradeRecord)
  <2> HIDE DEF row
  <2>1. QED  BY <1>1, <1>2, <1>6
<1>11. (cur = Straddle!NoMonth \/ Loaded)'
  <2>1. Loaded' = Loaded
    BY DEF Loaded, Straddle!Month, Straddle!Start, Straddle!Hour, Straddle!End, Straddle!Hold
  <2>2. QED  BY <1>2, <2>1 DEF Straddle!NoMonth
<1>12. StraddleTypes'
  BY <1>2, <1>6, <1>7, <1>10, <1>11 DEF StraddleTypes, Straddle!None
<1>13. SimulationInv'
  BY <1>6 DEF SimulationInv, Straddle!None
<1>14. QED  BY <1>9, <1>12, <1>13 DEF StraddleInv

\* The months in memory stay those of a window.
LEMMA LoadedStays ==
    ASSUME UNCHANGED <<weekend, files, cur>>
    PROVE  /\ Loaded' = Loaded
           /\ \A i : Straddle!Start(i)' = Straddle!Start(i)
           /\ \A t : Straddle!Month(t)' = Straddle!Month(t)
BY DEF Loaded, Straddle!Month, Straddle!Start, Straddle!Hour, Straddle!End, Straddle!Hold

\* The straddle ends without a trade, or goes on.
LEMMA SimulationKeeps ==
    ASSUME StraddleInv, bar' \in Nat, UNCHANGED <<script, weekend, files, cur>>,
           UNCHANGED <<trades, blocked, blockedTick>>,
           \/ sim' = Straddle!None
           \/ /\ sim \in Simulation /\ sim' \in Simulation /\ sim'.bar = sim.bar
              /\ sim'.fill = sim.fill \/ sim'.fill > Straddle!Start(sim.bar)
    PROVE  StraddleInv'
<1>1. Until' = Until
  BY DEF Until
<1>2. TradesInv'
  BY <1>1, TradesStay DEF StraddleInv
<1>3. StraddleTypes'
  <2>1. (cur = Straddle!NoMonth \/ Loaded)'
    BY LoadedStays DEF StraddleInv, StraddleTypes, Straddle!NoMonth
  <2>2. (sim = Straddle!None \/ sim \in Simulation)'
    BY DEF Straddle!None, Simulation
  <2>3. QED  BY <2>1, <2>2 DEF StraddleInv, StraddleTypes
<1>4. SimulationInv'
  <2>1. CASE sim' = Straddle!None
    BY <2>1 DEF SimulationInv, Straddle!None
  <2>2. CASE /\ sim \in Simulation /\ sim' \in Simulation /\ sim'.bar = sim.bar
             /\ sim'.fill = sim.fill \/ sim'.fill > Straddle!Start(sim.bar)
    <3>1. sim # Straddle!None
      BY <2>2 DEF Simulation, Straddle!None
    <3>2. /\ Until <= Straddle!Start(sim.bar)
          /\ sim.fill # 0 => sim.fill > Straddle!Start(sim.bar)
          /\ script = "exact" =>
                 Loaded /\ cur.month = Straddle!Month(Straddle!Start(sim.bar))
      BY <3>1 DEF StraddleInv, SimulationInv
    <3> DEFINE b == sim.bar
               c == sim'.bar
               f == sim'.fill
    <3>3. c = b /\ Straddle!Start(b)' = Straddle!Start(b) /\ Loaded' = Loaded
      BY <2>2, LoadedStays
    <3>4. /\ Until' <= Straddle!Start(c)
          /\ f # 0 => f > Straddle!Start(c)
          /\ script = "exact" => Loaded' /\ cur.month = Straddle!Month(Straddle!Start(c))
      BY <1>1, <2>2, <3>2, <3>3
    <3>5. /\ \A i : Straddle!Start(i)' = Straddle!Start(i)
          /\ \A t : Straddle!Month(t)' = Straddle!Month(t)
      BY LoadedStays
    <3>6. QED  BY <3>4, <3>5 DEF SimulationInv
  <2>3. QED  BY <2>1, <2>2
<1>5. QED  BY <1>2, <1>3, <1>4 DEF StraddleInv

\* A new straddle begins after all trades before it.
LEMMA CandidateKeeps ==
    ASSUME StraddleInv, bar' \in Nat, UNCHANGED <<script, weekend, files, trades, blockedTick>>,
           Until' = Until, blocked' \in Nat, sim' \in Simulation,
           sim'.fill = 0, Until <= Straddle!Start(sim'.bar), (cur = Straddle!NoMonth \/ Loaded)',
           script = "exact" =>
               Loaded' /\ cur'.month = Straddle!Month(Straddle!Start(sim'.bar))
    PROVE  StraddleInv'
<1>1. TradesInv'
  BY TradesStay DEF StraddleInv
<1>2. StraddleTypes'
  BY DEF StraddleInv, StraddleTypes, Straddle!None
<1>3. SimulationInv'
  <2>1. /\ \A i : Straddle!Start(i)' = Straddle!Start(i)
        /\ \A t : Straddle!Month(t)' = Straddle!Month(t)
    BY DEF Straddle!Start, Straddle!Hour, Straddle!Month
  <2>2. QED  BY <2>1 DEF SimulationInv
<1>4. QED  BY <1>1, <1>2, <1>3 DEF StraddleInv

LEMMA StraddleStart ==
    ASSUME Straddle!Init
    PROVE  StraddleInv
<1>1. trades = <<>> /\ trades \in Seq(TradeRecord) /\ Len(trades) = 0
  BY DEF Straddle!Init
<1>2. StraddleTypes /\ SimulationInv
  BY <1>1 DEF Straddle!Init, StraddleTypes, SimulationInv, Straddle!None
<1>3. TradesInv
  BY <1>1 DEF TradesInv
<1>4. QED  BY <1>2, <1>3 DEF StraddleInv

LEMMA NothingKeeps ==
    ASSUME StraddleInv, UNCHANGED <<script, weekend, files, blocked, blockedTick, cur, sim, trades>>,
           bar' \in Nat
    PROVE  StraddleInv'
<1>1. CASE sim = Straddle!None
  <2>1. sim' = Straddle!None
    BY <1>1 DEF Straddle!None
  <2>2. QED  BY <2>1, SimulationKeeps
<1>2. CASE sim # Straddle!None
  <2>1. sim \in Simulation
    BY <1>2 DEF StraddleInv, StraddleTypes
  <2>2. QED  BY <2>1, SimulationKeeps
<1>3. QED  BY <1>1, <1>2

LEMMA SkipKeeps ==
    ASSUME StraddleInv, Straddle!Skip
    PROVE  StraddleInv'
<1>1. bar' \in Nat
  BY DEF StraddleInv, StraddleTypes, Straddle!Skip
<1>2. QED  BY <1>1, NothingKeeps DEF Straddle!Skip

LEMMA ProxyCandidateKeeps ==
    ASSUME StraddleInv, Straddle!ProxyCandidate
    PROVE  StraddleInv'
<1>1. /\ bar \in Nat /\ weekend \in 1 .. NBars /\ blocked \in Nat
      /\ cur = Straddle!NoMonth \/ Loaded
  BY DEF StraddleInv, StraddleTypes
<1>2. Straddle!Start(bar) \in Nat
  BY <1>1, Bars
<1>3. /\ script = "proxy" /\ Straddle!Start(bar) >= blocked
      /\ sim' = [bar |-> bar, seen |-> Straddle!Start(bar), fill |-> 0, price |-> 0]
      /\ bar' = bar + 1
      /\ UNCHANGED <<script, weekend, files, blocked, blockedTick, cur, trades>>
  BY DEF Straddle!ProxyCandidate, Straddle!Candidate
<1>4. sim' \in Simulation /\ sim'.fill = 0 /\ sim'.bar = bar
  BY <1>1, <1>2, <1>3 DEF Simulation
<1>5. Until' = Until /\ Until <= Straddle!Start(sim'.bar)
  BY <1>1, <1>2, <1>3, <1>4 DEF Until
<1>6. (cur = Straddle!NoMonth \/ Loaded)'
  BY <1>1, <1>3, LoadedStays DEF Straddle!NoMonth
<1>7. bar' \in Nat /\ blocked' \in Nat
  BY <1>1, <1>3
<1>8. script # "exact"
  BY <1>3
<1>9. QED  BY <1>3, <1>4, <1>5, <1>6, <1>7, <1>8, CandidateKeeps

\* The months loaded for a bar are its own, or in memory for another one of
\* the same month.
LEMMA LoadedForBar ==
    ASSUME StraddleTypes
    PROVE  \E i \in Nat :
               /\ Straddle!LoadedFor(bar) =
                      [month |-> Straddle!Month(Straddle!Start(i)), for |-> i,
                       loaded |-> {Straddle!Month(Straddle!Start(i)),
                                   Straddle!Month(Straddle!End(i))} \intersect files]
               /\ Straddle!Month(Straddle!Start(i)) = Straddle!Month(Straddle!Start(bar))
<1>1. /\ bar \in Nat /\ weekend \in 1 .. NBars /\ (cur = Straddle!NoMonth \/ Loaded)
  BY DEF StraddleTypes
<1>2. CASE cur.month = Straddle!Month(Straddle!Start(bar))
  <2>1. Straddle!Month(Straddle!Start(bar)) \in Nat
    BY <1>1, Bars, Lengths, Division DEF Straddle!Month
  <2>2. cur # Straddle!NoMonth
    BY <1>2, <2>1 DEF Straddle!NoMonth
  <2>3. PICK i \in Nat :
            cur = [month |-> Straddle!Month(Straddle!Start(i)), for |-> i,
                   loaded |-> {Straddle!Month(Straddle!Start(i)),
                               Straddle!Month(Straddle!End(i))} \intersect files]
    BY <1>1, <2>2 DEF Loaded
  <2>4. Straddle!LoadedFor(bar) = cur
    BY <1>2 DEF Straddle!LoadedFor
  <2>5. cur.month = Straddle!Month(Straddle!Start(i))
    BY <2>3
  <2>6. QED  BY <1>2, <2>3, <2>4, <2>5
<1>3. CASE cur.month # Straddle!Month(Straddle!Start(bar))
  BY <1>1, <1>3 DEF Straddle!LoadedFor
<1>4. QED  BY <1>2, <1>3

LEMMA ExactCandidateKeeps ==
    ASSUME StraddleInv, Straddle!ExactCandidate
    PROVE  StraddleInv'
<1>1. /\ bar \in Nat /\ weekend \in 1 .. NBars /\ blocked \in Nat /\ blockedTick \in Nat
      /\ StraddleTypes
  BY DEF StraddleInv, StraddleTypes
<1>2. Straddle!Start(bar) \in Nat /\ Straddle!End(bar) \in Nat
  BY <1>1, Bars
<1>3. /\ script = "exact" /\ blocked' = Straddle!End(bar) /\ bar' = bar + 1
      /\ UNCHANGED <<script, weekend, files, blockedTick, trades>> /\ sim = Straddle!None
  BY DEF Straddle!ExactCandidate, Straddle!Candidate, Straddle!Looking
<1>4. Until' = Until /\ Until = blockedTick /\ bar' \in Nat /\ blocked' \in Nat
  BY <1>1, <1>2, <1>3 DEF Until
<1>5. CASE Straddle!Start(bar) < blockedTick
  <2>1. UNCHANGED <<cur, sim>>
    BY <1>5 DEF Straddle!ExactCandidate
  <2>2. StraddleTypes'
    <3>1. (cur = Straddle!NoMonth \/ Loaded)'
      BY <1>1, <1>3, <2>1, LoadedStays DEF StraddleTypes, Straddle!NoMonth
    <3>2. (sim = Straddle!None \/ sim \in Simulation)'
      BY <1>3, <2>1 DEF Straddle!None
    <3>3. QED  BY <1>1, <1>3, <1>4, <3>1, <3>2 DEF StraddleTypes
  <2>3. SimulationInv'
    BY <1>3, <2>1 DEF SimulationInv, Straddle!None
  <2>4. TradesInv'
    BY <1>3, <1>4, TradesStay DEF StraddleInv
  <2>5. QED  BY <2>2, <2>3, <2>4 DEF StraddleInv
<1>6. CASE ~ Straddle!Start(bar) < blockedTick
  <2>1. /\ cur' = Straddle!LoadedFor(bar)
        /\ sim' = IF cur'.loaded = {} THEN Straddle!None
                  ELSE [bar |-> bar, seen |-> Straddle!Start(bar), fill |-> 0, price |-> 0]
    BY <1>6 DEF Straddle!ExactCandidate
  <2>2. PICK i \in Nat :
            /\ cur' = [month |-> Straddle!Month(Straddle!Start(i)), for |-> i,
                       loaded |-> {Straddle!Month(Straddle!Start(i)),
                                   Straddle!Month(Straddle!End(i))} \intersect files]
            /\ Straddle!Month(Straddle!Start(i)) = Straddle!Month(Straddle!Start(bar))
    BY <1>1, <2>1, LoadedForBar
  <2>3. Loaded'
    BY <1>3, <2>2 DEF Loaded, Straddle!Month, Straddle!Start, Straddle!Hour, Straddle!End,
                      Straddle!Hold
  <2>4. cur'.month = Straddle!Month(Straddle!Start(bar))
    BY <2>2
  <2>5. CASE cur'.loaded = {}
    <3>1. sim' = Straddle!None
      BY <2>1, <2>5
    <3>2. StraddleTypes'
      <4>1. (sim = Straddle!None \/ sim \in Simulation)'
        BY <3>1 DEF Straddle!None
      <4>2. QED  BY <1>1, <1>3, <1>4, <2>3, <4>1 DEF StraddleTypes
    <3>3. SimulationInv'
      BY <3>1 DEF SimulationInv, Straddle!None
    <3>4. TradesInv'
      BY <1>3, <1>4, TradesStay DEF StraddleInv
    <3>5. QED  BY <3>2, <3>3, <3>4 DEF StraddleInv
  <2>6. CASE cur'.loaded # {}
    <3>1. sim' = [bar |-> bar, seen |-> Straddle!Start(bar), fill |-> 0, price |-> 0]
      BY <2>1, <2>6
    <3>2. sim' \in Simulation /\ sim'.fill = 0 /\ sim'.bar = bar
      BY <1>1, <1>2, <3>1 DEF Simulation
    <3>3. Until <= Straddle!Start(bar)
      BY <1>1, <1>2, <1>4, <1>6
    <3>4. QED
      BY <1>3, <1>4, <2>3, <2>4, <3>2, <3>3, CandidateKeeps
  <2>7. QED  BY <2>5, <2>6
<1>7. QED  BY <1>5, <1>6

LEMMA TickKeeps ==
    ASSUME StraddleInv, NEW q \in Quote, Straddle!Tick(q)
    PROVE  StraddleInv'
<1>1. /\ sim # Straddle!None /\ Straddle!Unseen # {}
      /\ UNCHANGED <<script, weekend, files, bar, cur>>
  BY DEF Straddle!Tick
<1>2. sim \in Simulation /\ bar' \in Nat /\ StraddleTypes
  BY <1>1 DEF StraddleInv, StraddleTypes
<1> DEFINE t == Straddle!Min(Straddle!Unseen)
           entry == IF script = "proxy" THEN q[1] ELSE IF Straddle!Upper(q) THEN 1 ELSE -1
<1>3. t \in Straddle!SimWindow(sim.bar) /\ t \in Nat /\ t > Straddle!Start(sim.bar)
  BY <1>1, <1>2, NextTick
<1>4. entry \in Int
  BY DEF Quote
<1>5. \/ Straddle!NoTrade
      \/ Straddle!Goes([sim EXCEPT !.seen = t, !.fill = t, !.price = entry])
      \/ sim.fill # 0 /\ Straddle!Trade(sim.fill, t)
      \/ Straddle!Goes([sim EXCEPT !.seen = t])
  BY DEF Straddle!Tick
<1> HIDE DEF t, entry
<1>6. CASE Straddle!NoTrade
  BY <1>1, <1>2, <1>6, SimulationKeeps DEF Straddle!NoTrade
<1>7. CASE Straddle!Goes([sim EXCEPT !.seen = t, !.fill = t, !.price = entry])
  <2> DEFINE next == [sim EXCEPT !.seen = t, !.fill = t, !.price = entry]
  <2>1. next \in Simulation /\ next.bar = sim.bar /\ next.fill = t
    BY <1>2, <1>3, <1>4 DEF Simulation
  <2> HIDE DEF next
  <2>2. sim' = next /\ UNCHANGED <<trades, blocked, blockedTick>>
    BY <1>7 DEF Straddle!Goes, next
  <2>3. QED  BY <1>1, <1>2, <1>3, <2>1, <2>2, SimulationKeeps
<1>8. CASE sim.fill # 0 /\ Straddle!Trade(sim.fill, t)
  BY <1>1, <1>2, <1>3, <1>8, TradeKeeps
<1>9. CASE Straddle!Goes([sim EXCEPT !.seen = t])
  <2> DEFINE next == [sim EXCEPT !.seen = t]
  <2>1. next \in Simulation /\ next.bar = sim.bar /\ next.fill = sim.fill
    BY <1>2, <1>3 DEF Simulation
  <2> HIDE DEF next
  <2>2. sim' = next /\ UNCHANGED <<trades, blocked, blockedTick>>
    BY <1>9 DEF Straddle!Goes, next
  <2>3. QED  BY <1>1, <1>2, <2>1, <2>2, SimulationKeeps
<1>10. QED  BY <1>5, <1>6, <1>7, <1>8, <1>9

LEMMA EndOfWindowKeeps ==
    ASSUME StraddleInv, Straddle!EndOfWindow
    PROVE  StraddleInv'
<1> DEFINE last == Straddle!Max(Straddle!SimWindow(sim.bar) \union {Straddle!End(sim.bar)})
<1>1. /\ sim # Straddle!None /\ UNCHANGED <<script, weekend, files, bar, cur>>
      /\ \/ Straddle!NoTrade
         \/ sim.fill # 0 /\ Straddle!Trade(sim.fill, last)
  BY DEF Straddle!EndOfWindow
<1>2. sim \in Simulation /\ bar' \in Nat /\ StraddleTypes
  BY <1>1 DEF StraddleInv, StraddleTypes
<1>3. /\ last \in Nat
      /\ last \in Straddle!SimWindow(sim.bar) \union {Straddle!End(sim.bar)}
  BY <1>2, LastTick
<1> HIDE DEF last
<1>4. CASE Straddle!NoTrade
  BY <1>1, <1>2, <1>4, SimulationKeeps DEF Straddle!NoTrade
<1>5. CASE sim.fill # 0 /\ Straddle!Trade(sim.fill, last)
  BY <1>1, <1>2, <1>3, <1>5, TradeKeeps
<1>6. QED  BY <1>1, <1>4, <1>5

LEMMA StraddleStep ==
    ASSUME StraddleInv, Straddle!Next
    PROVE  StraddleInv'
BY SkipKeeps, ExactCandidateKeeps, ProxyCandidateKeeps, TickKeeps, EndOfWindowKeeps
   DEF Straddle!Next

-----------------------------------------------------------------------------
(* What follows. *)

LEMMA TradesOneAtATime ==
    ASSUME StraddleInv
    PROVE  Straddle!OneTradeAtATime
<1> SUFFICES ASSUME NEW k \in 1 .. Len(trades) - 1
             PROVE  LET next == Straddle!Start(trades[k + 1].bar)
                    IN IF script = "exact"
                       THEN trades[k].exit <= next /\ trades[k].fill + Straddle!Hold <= next
                       ELSE \/ trades[k].exit <= next
                            \/ weekend \in trades[k].bar + 1 .. trades[k + 1].bar
  BY DEF Straddle!OneTradeAtATime
<1>1. /\ trades \in Seq(TradeRecord) /\ Len(trades) \in Nat
      /\ script \in {"exact", "proxy"} /\ weekend \in 1 .. NBars
  BY DEF StraddleInv, StraddleTypes
<1>2. k \in 1 .. Len(trades) /\ k + 1 \in 1 .. Len(trades) /\ k < k + 1
  BY <1>1
<1>3. Over(trades[k], Straddle!Start(trades[k + 1].bar))
  BY <1>2 DEF StraddleInv, TradesInv
<1>4. CASE script = "exact"
  BY <1>3, <1>4 DEF Over
<1>5. CASE script = "proxy"
  <2> DEFINE i == trades[k].bar
             j == trades[k + 1].bar
             x == trades[k].exit
  <2>1. i \in Nat /\ j \in Nat
    <3>1. trades[k] \in TradeRecord /\ trades[k + 1] \in TradeRecord
      BY <1>1, <1>2
    <3>2. QED  BY <3>1 DEF TradeRecord
  <2>2. Straddle!End(i) <= Straddle!Start(j)
    BY <1>3, <1>5 DEF Over
  <2>3. x \in Straddle!MinuteWindow(i) \union {Straddle!End(i)}
    BY <1>2, <1>5 DEF StraddleInv, TradesInv
  <2> HIDE DEF i, j, x
  <2>4. weekend \in i + 1 .. j \/ x <= Straddle!Start(j)
    BY <1>1, <2>1, <2>2, <2>3, MinutesEnd
  <2>5. QED  BY <1>5, <2>4 DEF i, j, x
<1>6. QED  BY <1>1, <1>4, <1>5

\* The rows of a fold: those before `from`, and those from there on.
LEMMA Folds ==
    ASSUME NEW n \in Nat, NEW f \in 0 .. NFolds - 1, NEW gap \in Nat
    PROVE  \E from \in Nat :
               /\ Straddle!Fold(n, f, gap).train = 0 .. from - 1
               /\ \A k \in Straddle!Fold(n, f, gap).test :
                      k \in Nat /\ from + gap <= k /\ k < n
<1> DEFINE size == n \div (NFolds + 1)
           from == size * (f + 1)
           to == from + gap + size
           till == Straddle!Min({to, n})
<1>1. size \in Nat /\ f + 1 \in Nat
  BY Lengths, Division
<1>2. from \in Nat
  <2> HIDE DEF size
  <2>1. QED  BY <1>1, SMTT(30)
<1>3. to \in Nat
  <2> HIDE DEF size, from
  <2>1. QED  BY <1>1, <1>2
<1>4. till \in Nat /\ till <= n
  <2> HIDE DEF to
  <2>1. QED  BY <1>3 DEF Straddle!Min
<1>5. /\ Straddle!Fold(n, f, gap).train = 0 .. from - 1
      /\ Straddle!Fold(n, f, gap).test = from + gap .. till - 1
  BY DEF Straddle!Fold
<1> HIDE DEF from, till
<1>6. QED  BY <1>2, <1>4, <1>5

LEMMA SigmaOfThePast ==
    ASSUME StraddleInv
    PROVE  Straddle!SigmaKnowsThePast
<1> SUFFICES ASSUME NEW k \in 1 .. Len(trades), NEW f \in 0 .. NFolds - 1,
                    trades[k].bar \in Straddle!SigmaFold(f).test,
                    NEW j \in Straddle!SigmaFold(f).train
             PROVE  Straddle!Close(j + 1) <= Straddle!Start(trades[k].bar)
  BY DEF Straddle!SigmaKnowsThePast
<1> DEFINE b == trades[k].bar
<1>1. b \in Nat /\ weekend \in 1 .. NBars
  <2>1. trades \in Seq(TradeRecord) /\ weekend \in 1 .. NBars
    BY DEF StraddleInv, StraddleTypes
  <2>2. trades[k] \in TradeRecord
    BY <2>1
  <2>3. QED  BY <2>1, <2>2 DEF TradeRecord
<1>2. NBars \in Nat /\ Embargo \in Nat /\ Embargo >= 1 /\ HourLen \in Nat \ {0}
  BY Lengths
<1>3. PICK from \in Nat :
          /\ Straddle!SigmaFold(f).train = 0 .. from - 1
          /\ \A i \in Straddle!SigmaFold(f).test : i \in Nat /\ from + Embargo <= i
  BY <1>2, Folds DEF Straddle!SigmaFold
<1>4. from + Embargo <= b
  BY <1>3
<1> HIDE DEF b
<1>5. j + 1 \in Nat /\ j + 1 < b
  BY <1>1, <1>2, <1>3, <1>4
<1> DEFINE c == Straddle!Close(j + 1)
           s == Straddle!Start(j + 1)
           t == Straddle!Start(b)
<1>6. s \in Nat /\ t \in Nat /\ c = s + HourLen - 1 /\ s + HourLen <= t
  BY <1>1, <1>5, Bars, LaterBar
<1> HIDE DEF c, s, t
<1>7. c <= t
  BY <1>2, <1>6
<1>8. QED  BY <1>7 DEF c, t, b

LEMMA MetaOfThePast ==
    ASSUME StraddleInv
    PROVE  Straddle!MetaKnowsThePast
<1> DEFINE n == Len(trades)
<1> SUFFICES ASSUME script = "exact", NEW f \in 0 .. NFolds - 1,
                    NEW k \in Straddle!MetaFold(n, f).test,
                    NEW j \in Straddle!MetaFold(n, f).train
             PROVE  trades[j + 1].exit <= Straddle!Start(trades[k + 1].bar)
  BY DEF Straddle!MetaKnowsThePast
<1>1. n \in Nat
  BY DEF StraddleInv, StraddleTypes
<1>2. PICK from \in Nat :
          /\ Straddle!MetaFold(n, f).train = 0 .. from - 1
          /\ \A i \in Straddle!MetaFold(n, f).test : i \in Nat /\ from <= i /\ i < n
  <2> HIDE DEF n
  <2>1. PICK from \in Nat :
            /\ Straddle!Fold(n, f, 0).train = 0 .. from - 1
            /\ \A i \in Straddle!Fold(n, f, 0).test : i \in Nat /\ from + 0 <= i /\ i < n
    BY <1>1, Folds
  <2>2. QED  BY <2>1 DEF Straddle!MetaFold
<1>3. k + 1 \in 1 .. n /\ j + 1 \in 1 .. n /\ j + 1 < k + 1
  <2> HIDE DEF n
  <2>1. QED  BY <1>1, <1>2
<1>4. Over(trades[j + 1], Straddle!Start(trades[k + 1].bar))
  BY <1>3 DEF StraddleInv, TradesInv
<1>5. QED  BY <1>4 DEF Over

LEMMA WindowsAreWhole ==
    ASSUME StraddleInv
    PROVE  Straddle!WindowsWhole
<1> SUFFICES ASSUME sim # Straddle!None, script = "exact"
             PROVE  LET whole == {t \in Straddle!Start(sim.bar) + 1 .. Straddle!End(sim.bar) :
                                      Straddle!Exists(t) /\ Straddle!Month(t) \in files}
                        cached == /\ cur.for # sim.bar
                                  /\ Straddle!Month(Straddle!End(cur.for)) = cur.month
                    IN Straddle!TickWindow(sim.bar) =
                           IF cached THEN {t \in whole : Straddle!Month(t) = cur.month}
                           ELSE whole
  BY DEF Straddle!WindowsWhole
<1> DEFINE b == sim.bar
           m == Straddle!Month(Straddle!Start(b))
<1>1. b \in Nat /\ weekend \in 1 .. NBars
  BY DEF StraddleInv, StraddleTypes, Simulation
<1>2. PICK i \in Nat :
          cur = [month |-> Straddle!Month(Straddle!Start(i)), for |-> i,
                 loaded |-> {Straddle!Month(Straddle!Start(i)),
                             Straddle!Month(Straddle!End(i))} \intersect files]
  BY DEF StraddleInv, SimulationInv, Loaded
<1>3. cur.month = m
  BY DEF StraddleInv, SimulationInv
<1>4. /\ cur.for = i /\ Straddle!Month(Straddle!Start(i)) = m
      /\ cur.loaded = {m, Straddle!Month(Straddle!End(i))} \intersect files
  BY <1>2, <1>3
<1> DEFINE e == Straddle!Month(Straddle!End(i))
<1>5. \A x \in Nat : Straddle!End(x) \in Nat /\ Straddle!Start(x) \in Nat
                     /\ Straddle!Start(x) <= Straddle!End(x)
                     /\ Straddle!End(x) <= Straddle!Start(x) + MonthLen
  BY <1>1, Bars, Lengths
<1>6. m \in Nat
  BY <1>1, <1>5, Lengths, Division DEF Straddle!Month
<1>7. e \in {m, m + 1}
  BY <1>4, <1>5, Lengths, NearQuotients DEF Straddle!Month
<1>8. \A t \in Straddle!Start(b) + 1 .. Straddle!End(b) : Straddle!Month(t) \in {m, m + 1}
  <2> SUFFICES ASSUME NEW t \in Straddle!Start(b) + 1 .. Straddle!End(b)
               PROVE  Straddle!Month(t) \in {m, m + 1}
    OBVIOUS
  <2>1. t \in Nat /\ Straddle!Start(b) <= t /\ t <= Straddle!Start(b) + MonthLen
    BY <1>1, <1>5, Lengths
  <2>2. QED  BY <1>1, <1>5, <2>1, Lengths, NearQuotients DEF Straddle!Month
\* When the bar's own window ends within the month, so does all of it.
<1>9. Straddle!Month(Straddle!End(b)) = m =>
          \A t \in Straddle!Start(b) + 1 .. Straddle!End(b) : Straddle!Month(t) = m
  <2> SUFFICES ASSUME Straddle!Month(Straddle!End(b)) = m,
                      NEW t \in Straddle!Start(b) + 1 .. Straddle!End(b)
               PROVE  Straddle!Month(t) = m
    OBVIOUS
  <2>1. /\ t \in Nat /\ t <= Straddle!End(b) /\ Straddle!End(b) <= t + MonthLen
        /\ Straddle!End(b) \in Nat
    BY <1>1, <1>5, Lengths
  <2> DEFINE q == Straddle!Month(t)
  <2>2. m \in {q, q + 1} /\ q \in {m, m + 1}
    BY <1>8, <2>1, Lengths, NearQuotients DEF Straddle!Month
  <2> HIDE DEF q, m
  <2>3. q = m
    BY <1>6, <2>2
  <2>4. QED  BY <2>3 DEF q
<1> DEFINE whole == {t \in Straddle!Start(b) + 1 .. Straddle!End(b) :
                         Straddle!Exists(t) /\ Straddle!Month(t) \in files}
<1>10. Straddle!TickWindow(b) = {t \in whole : Straddle!Month(t) \in {m, e}}
  BY <1>4 DEF Straddle!TickWindow
<1>11. CASE e = m /\ i # b
  BY <1>3, <1>4, <1>10, <1>11
<1>12. CASE e = m /\ i = b
  BY <1>3, <1>4, <1>9, <1>10, <1>12
<1>13. CASE e = m + 1
  <2>1. ~ e = m
    <3> HIDE DEF e, m
    <3>1. QED  BY <1>6, <1>13
  <2>2. Straddle!TickWindow(b) = whole
    BY <1>8, <1>10, <1>13
  <2>3. QED  BY <1>3, <1>4, <2>1, <2>2
<1>14. QED  BY <1>7, <1>11, <1>12, <1>13

LEMMA AheadOfItsClose ==
    ASSUME StraddleInv
    PROVE  Straddle!OneHourAheadAtMost
<1> SUFFICES ASSUME NEW k \in 1 .. Len(trades),
                    NEW t \in Straddle!Inputs(trades[k].bar), trades[k].fill < t
             PROVE  /\ t = Straddle!Close(trades[k].bar)
                    /\ t - trades[k].fill < HourLen
  BY DEF Straddle!OneHourAheadAtMost
<1> DEFINE b == trades[k].bar
           fill == trades[k].fill
<1>1. b \in Nat /\ fill \in Nat /\ weekend \in 1 .. NBars
  <2>1. trades \in Seq(TradeRecord) /\ weekend \in 1 .. NBars
    BY DEF StraddleInv, StraddleTypes
  <2>2. trades[k] \in TradeRecord
    BY <2>1
  <2>3. QED  BY <2>1, <2>2 DEF TradeRecord
<1>2. Straddle!Start(b) < fill
  BY DEF StraddleInv, TradesInv, Over
<1>3. /\ Straddle!Start(b) \in Nat /\ HourLen \in Nat
      /\ Straddle!Close(b) = Straddle!Start(b) + HourLen - 1
  BY <1>1, Bars, Lengths
<1>4. CASE t = Straddle!Close(b)
  <2> DEFINE s == Straddle!Start(b)
  <2> HIDE DEF b, fill, s
  <2>1. t - fill < HourLen
    BY <1>1, <1>2, <1>3, <1>4 DEF s
  <2>2. QED  BY <1>4, <2>1 DEF b, fill
<1>5. CASE t # Straddle!Close(b)
  <2>1. PICK f \in 0 .. NFolds - 1 :
            /\ b \in Straddle!SigmaFold(f).test
            /\ \E j \in Straddle!SigmaFold(f).train : t = Straddle!Close(j + 1)
    BY <1>5 DEF Straddle!Inputs
  <2>2. PICK j \in Straddle!SigmaFold(f).train : t = Straddle!Close(j + 1)
    BY <2>1
  <2>3. Straddle!SigmaKnowsThePast
    BY SigmaOfThePast
  <2>4. t <= Straddle!Start(b)
    BY <2>1, <2>2, <2>3 DEF Straddle!SigmaKnowsThePast
  <2>5. NBars \in Nat /\ Embargo \in Nat
    BY Lengths
  <2>6. PICK from \in Nat : Straddle!SigmaFold(f).train = 0 .. from - 1
    BY <2>5, Folds DEF Straddle!SigmaFold
  <2>7. j \in Nat /\ j + 1 \in Nat
    BY <2>2, <2>6
  <2>8. t \in Int
    <3> DEFINE i == j + 1
               s == Straddle!Start(i)
    <3>1. i \in Nat
      BY <2>7
    <3>2. t = Straddle!Close(i)
      BY <2>2
    <3> HIDE DEF i
    <3>3. s \in Nat /\ Straddle!Close(i) = s + HourLen - 1
      BY <1>1, <3>1, Bars
    <3> HIDE DEF s
    <3>4. QED  BY <1>3, <3>2, <3>3
  <2>9. QED
    <3> DEFINE s == Straddle!Start(b)
    <3>1. fill < t /\ s < fill /\ t <= s /\ s \in Nat
      BY <1>2, <1>3, <2>4
    <3> HIDE DEF s, fill
    <3>2. QED  BY <1>1, <2>8, <3>1
<1>6. QED  BY <1>4, <1>5

LEMMA StraddleHolds ==
    ASSUME StraddleInv
    PROVE  Straddle!TradesAnHourAheadAtMost
BY TradesOneAtATime, SigmaOfThePast, MetaOfThePast, WindowsAreWhole, AheadOfItsClose
   DEF Straddle!TradesAnHourAheadAtMost

StudyStraddle == study = "straddle" => StraddleInv

\* run_tick_backtest and run_backtest trade one at a time, on models that know
\* nothing of what they predict, on all the ticks but those that the month
\* cache lacks, and fill before the close their levels come from by less than
\* an hour.
THEOREM StraddleIsAnHourAheadAtMost == StudySpec => []StraddleAnHourAheadAtMost
<1>1. StudyInit => StudyStraddle
  BY StraddleStart DEF StudyInit, StudyStraddle
<1>2. StudyStraddle /\ [StudyNext]_studyVars => StudyStraddle'
  <2> SUFFICES ASSUME StudyStraddle, [StudyNext]_studyVars, study' = "straddle"
               PROVE  StraddleInv'
    BY DEF StudyStraddle
  <2>1. CASE StudyNext
    <3>1. study = "straddle" /\ Straddle!Next
      BY <2>1 DEF StudyNext
    <3>2. QED  BY <3>1, StraddleStep DEF StudyStraddle
  <2>2. CASE UNCHANGED studyVars
    <3>1. StraddleInv /\ UNCHANGED straddleVars
      BY <2>2 DEF StudyStraddle, studyVars
    <3>2. /\ bar' \in Nat
          /\ UNCHANGED <<script, weekend, files, blocked, blockedTick, cur, sim, trades>>
      BY <3>1 DEF straddleVars, StraddleInv, StraddleTypes
    <3>3. QED  BY <3>1, <3>2, NothingKeeps
  <2>3. QED  BY <2>1, <2>2
<1>3. StudyStraddle => StraddleAnHourAheadAtMost
  BY StraddleHolds DEF StudyStraddle, StraddleAnHourAheadAtMost
<1>4. QED  BY <1>1, <1>2, <1>3, PTL DEF StudySpec

-----------------------------------------------------------------------------
(* The cross section: the n-th of a set of numbers. *)

LEMMA XsCounts ==
    ASSUME NEW S
    PROVE  Xs!Cardinality(S) = Cardinality(S)
BY DEF Xs!Cardinality, Cardinality

\* As many different numbers as there are: each is one of them.
LEMMA Ranks ==
    ASSUME NEW S, IsFiniteSet(S), NEW f \in [S -> 1 .. Cardinality(S)],
           \A x, y \in S : f[x] = f[y] => x = y
    PROVE  \A r \in 1 .. Cardinality(S) : \E x \in S : f[x] = r
<1> DEFINE n == Cardinality(S)
           T == 1 .. n
<1>1. n \in Nat
  BY FS_CardinalityType
<1> HIDE DEF n
<1>2. IsFiniteSet(T) /\ Cardinality(T) = n
  BY <1>1, FS_Interval
<1>3. f \in Injection(S, T)
  BY DEF Injection, IsInjective, n
<1> HIDE DEF T
<1>4. f \in Surjection(S, T)
  <2>1. Cardinality(S) = Cardinality(T)
    BY <1>2 DEF n
  <2>2. Cardinality(S) = Cardinality(T) <=> f \in Surjection(S, T)
    BY <1>2, <1>3, FS_Injection
  <2>3. QED  BY <2>1, <2>2
<1>5. QED  BY <1>4 DEF Surjection, T, n

\* The numbers of S up to x.
UpTo(S, x) == {y \in S : y <= x}

LEMMA Counting ==
    ASSUME NEW S \in SUBSET Nat, IsFiniteSet(S), NEW x \in Nat
    PROVE  /\ IsFiniteSet(UpTo(S, x)) /\ Cardinality(UpTo(S, x)) \in 0 .. Cardinality(S)
           /\ x \in S => Cardinality(UpTo(S, x)) >= 1
           /\ \A y \in S : x < y => Cardinality(UpTo(S, x)) < Cardinality(UpTo(S, y))
<1>1. /\ IsFiniteSet(UpTo(S, x)) /\ Cardinality(UpTo(S, x)) \in Nat
      /\ Cardinality(UpTo(S, x)) <= Cardinality(S) /\ Cardinality(S) \in Nat
  <2>1. UpTo(S, x) \in SUBSET S
    BY DEF UpTo
  <2>2. QED  BY <2>1, FS_Subset, FS_CardinalityType
<1>2. x \in S => Cardinality(UpTo(S, x)) >= 1
  <2>1. x \in S => x \in UpTo(S, x)
    BY DEF UpTo
  <2>2. Cardinality(UpTo(S, x)) = 0 <=> UpTo(S, x) = {}
    BY <1>1, FS_EmptySet
  <2>3. QED  BY <1>1, <2>1, <2>2
<1>3. ASSUME NEW y \in S, x < y
      PROVE  Cardinality(UpTo(S, x)) < Cardinality(UpTo(S, y))
  <2>1. y \notin UpTo(S, x) /\ y \in UpTo(S, y) /\ UpTo(S, x) \in SUBSET UpTo(S, y)
    <3>1. y \in Nat /\ \A z \in S : z \in Nat
      OBVIOUS
    <3>2. \A z \in S : z <= x => z <= y
      BY <1>3, <3>1
    <3>3. ~ y <= x /\ y <= y
      BY <1>3, <3>1
    <3>4. QED  BY <3>2, <3>3 DEF UpTo
  <2>2. IsFiniteSet(UpTo(S, y))
    <3>1. UpTo(S, y) \in SUBSET S
      BY DEF UpTo
    <3>2. QED  BY <3>1, FS_Subset
  <2>3. /\ Cardinality(UpTo(S, x)) <= Cardinality(UpTo(S, y))
        /\ Cardinality(UpTo(S, x)) # Cardinality(UpTo(S, y))
    BY <2>1, <2>2, FS_Subset
  <2>4. Cardinality(UpTo(S, y)) \in Nat
    BY <2>2, FS_CardinalityType
  <2>5. QED  BY <1>1, <2>3, <2>4
<1>4. QED  BY <1>1, <1>2, <1>3

LEMMA NthIs ==
    ASSUME NEW S \in SUBSET Nat, IsFiniteSet(S), NEW n \in 1 .. Cardinality(S)
    PROVE  Xs!Nth(S, n) \in S /\ Cardinality(UpTo(S, Xs!Nth(S, n))) = n
<1> DEFINE f == [x \in S |-> Cardinality(UpTo(S, x))]
<1>1. f \in [S -> 1 .. Cardinality(S)]
  <2> SUFFICES ASSUME NEW x \in S PROVE Cardinality(UpTo(S, x)) \in 1 .. Cardinality(S)
    OBVIOUS
  <2>1. /\ Cardinality(UpTo(S, x)) \in 0 .. Cardinality(S)
        /\ Cardinality(UpTo(S, x)) >= 1
    BY Counting
  <2>2. Cardinality(S) \in Nat
    BY FS_CardinalityType
  <2>3. QED  BY <2>1, <2>2
<1>2. ASSUME NEW x \in S, NEW y \in S, f[x] = f[y] PROVE x = y
  <2>1. Cardinality(UpTo(S, x)) = Cardinality(UpTo(S, y)) /\ x \in Nat /\ y \in Nat
    BY <1>2
  <2>2. /\ Cardinality(UpTo(S, x)) \in Int /\ Cardinality(UpTo(S, y)) \in Int
        /\ x < y => Cardinality(UpTo(S, x)) < Cardinality(UpTo(S, y))
        /\ y < x => Cardinality(UpTo(S, y)) < Cardinality(UpTo(S, x))
    BY <2>1, Counting
  <2>3. QED  BY <2>1, <2>2
<1> HIDE DEF f
<1>3. \E x \in S : f[x] = n
  BY <1>1, <1>2, Ranks
<1>4. \E x \in S : Cardinality({y \in S : y <= x}) = n
  BY <1>3 DEF f, UpTo
<1>5. Xs!Nth(S, n) = CHOOSE x \in S : Cardinality({y \in S : y <= x}) = n
  BY XsCounts DEF Xs!Nth
<1>6. QED  BY <1>4, <1>5 DEF UpTo

LEMMA NthOrder ==
    ASSUME NEW S \in SUBSET Nat, IsFiniteSet(S),
           NEW m \in 1 .. Cardinality(S), NEW n \in 1 .. Cardinality(S), m < n
    PROVE  Xs!Nth(S, m) < Xs!Nth(S, n)
<1> DEFINE x == Xs!Nth(S, m)
           y == Xs!Nth(S, n)
<1>1. /\ x \in S /\ y \in S /\ x \in Nat /\ y \in Nat
      /\ Cardinality(UpTo(S, x)) = m /\ Cardinality(UpTo(S, y)) = n
  BY NthIs
<1> HIDE DEF x, y
<1>2. m \in Int /\ n \in Int
  OBVIOUS
<1>3. x # y
  BY <1>1
<1>4. ~ y < x
  <2>1. y < x => n < m
    BY <1>1, Counting
  <2>2. QED  BY <1>2, <2>1
<1>5. x < y
  BY <1>1, <1>3, <1>4
<1>6. QED  BY <1>5 DEF x, y

\* Each is the n-th for its own n, and the n-th up to t is not after t.
LEMMA NthCount ==
    ASSUME NEW S \in SUBSET Nat, IsFiniteSet(S), NEW t \in Nat,
           NEW n, n = Cardinality(UpTo(S, t))
    PROVE  /\ n \in 0 .. Cardinality(S)
           /\ n >= 1 => Xs!Nth(S, n) <= t
           /\ t \in S => n >= 1 /\ Xs!Nth(S, n) = t
<1>1. n \in 0 .. Cardinality(S) /\ (t \in S => n >= 1) /\ Cardinality(S) \in Nat
  BY Counting, FS_CardinalityType
<1>2. ASSUME n >= 1
      PROVE  Xs!Nth(S, n) <= t /\ (t \in S => Xs!Nth(S, n) = t)
  <2> DEFINE x == Xs!Nth(S, n)
  <2>1. n \in 1 .. Cardinality(S)
    BY <1>1, <1>2
  <2>2. x \in S /\ x \in Nat /\ Cardinality(UpTo(S, x)) = n
    BY <2>1, NthIs
  <2> HIDE DEF x
  <2>3. ~ t < x
    <3>1. t < x => n < n
      BY <2>2, Counting
    <3>2. QED  BY <1>1, <3>1
  <2>4. t \in S => ~ x < t
    <3>1. t \in S /\ x < t => n < n
      BY <2>2, Counting
    <3>2. QED  BY <1>1, <3>1
  <2>5. x <= t /\ (t \in S => x = t)
    BY <2>2, <2>3, <2>4
  <2>6. QED  BY <2>5 DEF x
<1>3. QED  BY <1>1, <1>2

-----------------------------------------------------------------------------
(* The cross section: the stable sort. *)

\* Entry i comes before entry j.
Before(time, i, j) == time[i] < time[j] \/ (time[i] = time[j] /\ i < j)

LEMMA SortIs ==
    ASSUME NEW time
    PROVE  Xs!SortIdx(time) =
               [r \in DOMAIN time |->
                   CHOOSE i \in DOMAIN time :
                       Cardinality({j \in DOMAIN time : Before(time, j, i)}) = r - 1]
BY DEF Xs!SortIdx, Before, Xs!Cardinality, Cardinality

LEMMA Sorted ==
    ASSUME NEW n \in Nat, NEW time \in [1 .. n -> Nat], NEW idx, idx = Xs!SortIdx(time)
    PROVE  /\ idx \in [1 .. n -> 1 .. n]
           /\ \A i \in 1 .. n : \E r \in 1 .. n : idx[r] = i
           /\ \A r, q \in 1 .. n : idx[r] = idx[q] => r = q
           /\ \A r, q \in 1 .. n : r < q => time[idx[r]] <= time[idx[q]]
<1> DEFINE D == 1 .. n
           prior(i) == {j \in D : Before(time, j, i)}
           rank == [i \in D |-> Cardinality(prior(i)) + 1]
<1>1. IsFiniteSet(D) /\ Cardinality(D) = n
  BY FS_Interval
<1>2. ASSUME NEW i \in D
      PROVE  /\ IsFiniteSet(prior(i)) /\ Cardinality(prior(i)) \in 0 .. n - 1
  <2>1. prior(i) \in SUBSET (D \ {i})
    <3>1. ~ Before(time, i, i)
      BY DEF Before
    <3>2. QED  BY <3>1
  <2>2. IsFiniteSet(D \ {i}) /\ Cardinality(D \ {i}) = n - 1
    <3> HIDE DEF D
    <3>1. QED  BY <1>1, FS_RemoveElement
  <2> HIDE DEF prior
  <2>3. /\ IsFiniteSet(prior(i)) /\ Cardinality(prior(i)) <= n - 1
        /\ Cardinality(prior(i)) \in Nat
    BY <2>1, <2>2, FS_Subset, FS_CardinalityType
  <2>4. QED  BY <2>3
<1>3. ASSUME NEW i \in D, NEW j \in D, i # j
      PROVE  \/ Before(time, i, j) /\ ~ Before(time, j, i)
             \/ Before(time, j, i) /\ ~ Before(time, i, j)
  <2>1. time[i] \in Int /\ time[j] \in Int /\ i \in Int /\ j \in Int
    OBVIOUS
  <2>2. QED  BY <1>3, <2>1 DEF Before
<1>4. ASSUME NEW i \in D, NEW j \in D, Before(time, i, j)
      PROVE  Cardinality(prior(i)) < Cardinality(prior(j))
  <2>1. \A k \in D : Before(time, k, i) => Before(time, k, j)
    <3> SUFFICES ASSUME NEW k \in D, Before(time, k, i) PROVE Before(time, k, j)
      OBVIOUS
    <3>1. /\ time[i] \in Int /\ time[j] \in Int /\ time[k] \in Int
          /\ i \in Int /\ j \in Int /\ k \in Int
      OBVIOUS
    <3>2. QED  BY <1>4, <3>1 DEF Before
  <2>2. ~ Before(time, i, i)
    BY DEF Before
  <2>3. prior(i) \in SUBSET prior(j) /\ i \in prior(j) /\ i \notin prior(i)
    BY <1>4, <2>1, <2>2
  <2>4. /\ IsFiniteSet(prior(i)) /\ Cardinality(prior(i)) \in Int
        /\ IsFiniteSet(prior(j)) /\ Cardinality(prior(j)) \in Int
    <3>1. \A m : m \in 0 .. n - 1 => m \in Int
      OBVIOUS
    <3>2. QED  BY <1>2, <3>1
  <2> HIDE DEF prior
  <2>5. /\ Cardinality(prior(i)) <= Cardinality(prior(j))
        /\ Cardinality(prior(i)) # Cardinality(prior(j))
    BY <2>3, <2>4, FS_Subset
  <2>6. QED  BY <2>4, <2>5
<1>5. rank \in [D -> 1 .. n]
  <2> HIDE DEF prior
  <2>1. \A i \in D : Cardinality(prior(i)) + 1 \in 1 .. n
    BY <1>2
  <2>2. QED  BY <2>1
<1>6. \A i, j \in D : rank[i] = rank[j] => i = j
  <2> SUFFICES ASSUME NEW i \in D, NEW j \in D, rank[i] = rank[j], i # j PROVE FALSE
    OBVIOUS
  <2>1. Cardinality(prior(i)) < Cardinality(prior(j))
        \/ Cardinality(prior(j)) < Cardinality(prior(i))
    BY <1>3, <1>4
  <2> HIDE DEF prior
  <2>2. /\ Cardinality(prior(i)) \in Int /\ Cardinality(prior(j)) \in Int
        /\ Cardinality(prior(i)) + 1 = Cardinality(prior(j)) + 1
    BY <1>2
  <2>3. QED  BY <2>1, <2>2
<1>7. \A r \in D : \E i \in D : rank[i] = r
  <2> HIDE DEF rank, D
  <2>1. n = Cardinality(D)
    BY <1>1
  <2>2. \A r \in 1 .. Cardinality(D) : \E i \in D : rank[i] = r
    BY <1>1, <1>5, <1>6, <2>1, Ranks
  <2>3. QED  BY <2>1, <2>2 DEF D
<1>8. ASSUME NEW r \in D
      PROVE  idx[r] \in D /\ rank[idx[r]] = r
  <2>1. DOMAIN time = D
    OBVIOUS
  <2>2. idx[r] = CHOOSE i \in D : Cardinality(prior(i)) = r - 1
    BY <2>1, SortIs
  <2>3. \E i \in D : Cardinality(prior(i)) = r - 1
    <3>1. PICK i \in D : rank[i] = r
      BY <1>7
    <3> HIDE DEF prior
    <3>2. Cardinality(prior(i)) + 1 = r /\ Cardinality(prior(i)) \in Int
      BY <1>2, <3>1
    <3>3. QED  BY <3>2
  <2> HIDE DEF prior
  <2>4. idx[r] \in D /\ Cardinality(prior(idx[r])) = r - 1
    BY <2>2, <2>3
  <2>5. QED  BY <2>4
<1>9. DOMAIN idx = D
  BY SortIs
<1>10. idx \in [D -> D]
  <2>1. idx = [r \in DOMAIN idx |-> idx[r]]
    BY SortIs
  <2> HIDE DEF D, rank
  <2>2. QED  BY <1>8, <1>9, <2>1
<1>11. \A i \in D : \E r \in D : idx[r] = i
  <2> SUFFICES ASSUME NEW i \in D PROVE \E r \in D : idx[r] = i
    OBVIOUS
  <2>1. rank[i] \in D
    BY <1>5
  <2>2. idx[rank[i]] \in D /\ rank[idx[rank[i]]] = rank[i]
    BY <1>8, <2>1
  <2> HIDE DEF rank, D
  <2>3. QED  BY <1>6, <2>1, <2>2
<1>12. \A r, q \in D : idx[r] = idx[q] => r = q
  <2> HIDE DEF rank, D
  <2>1. QED  BY <1>8
<1>13. ASSUME NEW r \in D, NEW q \in D, r < q
       PROVE  time[idx[r]] <= time[idx[q]]
  <2> DEFINE i == idx[r]
             j == idx[q]
  <2>1. i \in D /\ j \in D /\ rank[i] = r /\ rank[j] = q
    BY <1>8
  <2> HIDE DEF i, j
  <2>2. i # j
    <3> HIDE DEF rank
    <3>1. QED  BY <1>13, <2>1
  <2>3. ~ Before(time, j, i)
    <3>1. Before(time, j, i) => Cardinality(prior(j)) < Cardinality(prior(i))
      BY <1>4, <2>1
    <3> HIDE DEF prior
    <3>2. /\ Cardinality(prior(i)) + 1 = r /\ Cardinality(prior(i)) \in Int
          /\ Cardinality(prior(j)) + 1 = q /\ Cardinality(prior(j)) \in Int
      BY <1>2, <2>1
    <3>3. QED  BY <1>13, <3>1, <3>2
  <2>4. Before(time, i, j)
    BY <1>3, <2>1, <2>2, <2>3
  <2>5. time[i] \in Int /\ time[j] \in Int
    BY <2>1
  <2>6. time[i] <= time[j]
    BY <2>4, <2>5 DEF Before
  <2>7. QED  BY <2>6 DEF i, j
<1>14. QED  BY <1>10, <1>11, <1>12, <1>13

-----------------------------------------------------------------------------
(* The cross section: sequences stacked one after the other. *)

\* Sequence s of the stack has the positions off[s - 1] + 1 .. off[s].
Stacks(L, len, off) ==
    /\ off \in [0 .. L -> Nat] /\ off[0] = 0
    /\ \A s \in 1 .. L : off[s] = off[s - 1] + len[s]

LEMMA Offsets ==
    ASSUME NEW L \in Nat, NEW len \in [1 .. L -> Nat]
    PROVE  \E off : Stacks(L, len, off)
<1> DEFINE bad == {n \in 0 .. L : ~ \E off : Stacks(n, len, off)}
<1>1. ASSUME bad # {} PROVE FALSE
  <2>1. bad \in SUBSET Nat
    OBVIOUS
  <2>2. PICK n \in bad : \A m \in bad : n <= m
    BY <1>1, <2>1, Least
  <2>3. n \in 0 .. L /\ ~ \E off : Stacks(n, len, off)
    BY <2>2
  <2>4. n # 0
    <3>1. Stacks(0, len, [s \in 0 .. 0 |-> 0])
      BY DEF Stacks
    <3>2. QED  BY <2>3, <3>1
  <2>5. n - 1 \in 0 .. L /\ n - 1 < n /\ n \in 1 .. L
    BY <2>3, <2>4
  <2>6. PICK off : Stacks(n - 1, len, off)
    <3>1. n - 1 \notin bad
      BY <2>2, <2>5
    <3>2. QED  BY <2>5, <3>1
  <2> HIDE DEF bad
  <2> DEFINE new == [s \in 0 .. n |-> IF s = n THEN off[n - 1] + len[n] ELSE off[s]]
  <2>7. off[n - 1] \in Nat /\ len[n] \in Nat
    BY <2>5, <2>6 DEF Stacks
  <2>8. new \in [0 .. n -> Nat] /\ new[0] = 0
    BY <2>5, <2>6, <2>7 DEF Stacks
  <2>9. \A s \in 1 .. n : new[s] = new[s - 1] + len[s]
    <3> SUFFICES ASSUME NEW s \in 1 .. n PROVE new[s] = new[s - 1] + len[s]
      OBVIOUS
    <3>1. CASE s = n
      BY <2>5, <3>1
    <3>2. CASE s # n
      <4>1. s \in 1 .. n - 1 /\ s \in 0 .. n /\ s - 1 \in 0 .. n /\ s - 1 # n
        BY <2>5, <3>2
      <4>2. off[s] = off[s - 1] + len[s]
        BY <2>6, <4>1 DEF Stacks
      <4>3. QED  BY <3>2, <4>1, <4>2
    <3>3. QED  BY <3>1, <3>2
  <2> HIDE DEF new
  <2>10. Stacks(n, len, new)
    BY <2>8, <2>9 DEF Stacks
  <2>11. QED  BY <2>3, <2>10
<1>2. QED
  <2>1. L \in 0 .. L
    OBVIOUS
  <2>2. QED  BY <1>1, <2>1

LEMMA OffsetsGrow ==
    ASSUME NEW L \in Nat, NEW len \in [1 .. L -> Nat], NEW off, Stacks(L, len, off),
           NEW s \in 0 .. L
    PROVE  off[s] \in Nat /\ off[L] \in Nat /\ off[s] <= off[L]
<1>1. off \in [0 .. L -> Nat] /\ \A i \in 1 .. L : off[i] = off[i - 1] + len[i]
  BY DEF Stacks
<1>2. \A i \in 0 .. L : off[i] \in Nat
  BY <1>1
<1> DEFINE bad == {i \in 0 .. L : off[L] < off[i]}
<1>3. ASSUME bad # {} PROVE FALSE
  <2>1. bad \in SUBSET Nat /\ \A i \in bad : i <= L
    OBVIOUS
  <2>2. PICK i \in bad : \A j \in bad : j <= i
    BY <1>3, <2>1, Greatest
  <2>3. i \in 0 .. L /\ off[L] < off[i]
    BY <2>2
  <2>4. i # L /\ L \in 0 .. L
    BY <1>2, <2>3
  <2>5. i + 1 \in 1 .. L /\ (i + 1) - 1 = i /\ i + 1 \in 0 .. L
    BY <2>3, <2>4
  <2>6. off[i + 1] = off[i] + len[i + 1] /\ len[i + 1] \in Nat
    BY <1>1, <2>5
  <2>7. off[L] < off[i + 1]
    BY <1>2, <2>3, <2>4, <2>5, <2>6
  <2>8. i + 1 \in bad /\ ~ i + 1 <= i
    BY <2>3, <2>5, <2>7
  <2>9. QED  BY <2>2, <2>8
<1>4. L \in 0 .. L
  OBVIOUS
<1>5. ~ off[L] < off[s]
  BY <1>3
<1>6. QED  BY <1>2, <1>4, <1>5

\* Every position is one of some sequence, and the other way round.
LEMMA Positions ==
    ASSUME NEW L \in Nat, NEW len \in [1 .. L -> Nat], NEW off, Stacks(L, len, off)
    PROVE  /\ \A p \in 1 .. off[L] :
                  \E s \in 1 .. L : \E i \in 1 .. len[s] : p = off[s - 1] + i
           /\ \A s \in 1 .. L : \A i \in 1 .. len[s] : off[s - 1] + i \in 1 .. off[L]
<1>1. /\ \A s \in 0 .. L : off[s] \in Nat /\ off[s] <= off[L]
      /\ \A s \in 1 .. L : off[s] = off[s - 1] + len[s] /\ len[s] \in Nat
      /\ off[0] = 0
  BY OffsetsGrow DEF Stacks
<1>2. ASSUME NEW p \in 1 .. off[L]
      PROVE  \E s \in 1 .. L : \E i \in 1 .. len[s] : p = off[s - 1] + i
  <2> DEFINE S == {s \in 0 .. L : p <= off[s]}
  <2>1. S \in SUBSET Nat /\ L \in S
    BY <1>1
  <2>2. PICK s \in S : \A q \in S : s <= q
    BY <2>1, Least
  <2>3. s \in 0 .. L /\ p <= off[s]
    BY <2>2
  <2>4. s # 0
    BY <1>1, <2>3
  <2>5. s \in 1 .. L /\ s - 1 \in 0 .. L /\ ~ s <= s - 1
    BY <2>3, <2>4
  <2>6. ~ p <= off[s - 1]
    BY <2>2, <2>5
  <2>7. /\ off[s - 1] \in Nat /\ off[s] \in Nat /\ len[s] \in Nat
        /\ off[s] = off[s - 1] + len[s]
    BY <1>1, <2>5
  <2> DEFINE from == off[s - 1]
             to == off[s]
             size == len[s]
             i == p - from
  <2>8. p \in Nat
    BY <1>1
  <2>9. /\ from \in Nat /\ to \in Nat /\ size \in Nat /\ to = from + size
        /\ p <= to /\ ~ p <= from
    BY <2>3, <2>6, <2>7
  <2>10. i \in 1 .. size /\ p = from + i
    <3> HIDE DEF from, to, size, S
    <3>1. QED  BY <2>8, <2>9
  <2> HIDE DEF i
  <2>11. QED  BY <2>5, <2>10
<1>3. ASSUME NEW s \in 1 .. L, NEW i \in 1 .. len[s]
      PROVE  off[s - 1] + i \in 1 .. off[L]
  <2>1. s \in 0 .. L /\ s - 1 \in 0 .. L /\ L \in 0 .. L
    OBVIOUS
  <2>2. /\ off[s] \in Nat /\ off[s - 1] \in Nat /\ off[L] \in Nat /\ off[s] <= off[L]
        /\ off[s] = off[s - 1] + len[s] /\ len[s] \in Nat
    BY <1>1, <2>1
  <2>3. QED  BY <2>2
<1>4. QED  BY <1>2, <1>3

\* What a recursive function on 1 .. L is, when each step has one result.
Flattening(L, seqs, f) ==
    f = [i \in 1 .. L |-> IF i = 1 THEN seqs[i] ELSE f[i - 1] \o seqs[i]]

LEMMA FlattenExists ==
    ASSUME NEW L \in Nat, NEW seqs
    PROVE  \E f : Flattening(L, seqs, f)
<1> DEFINE bad == {n \in 0 .. L : ~ \E f : Flattening(n, seqs, f)}
<1>1. ASSUME bad # {} PROVE FALSE
  <2>1. bad \in SUBSET Nat
    OBVIOUS
  <2>2. PICK n \in bad : \A m \in bad : n <= m
    BY <1>1, <2>1, Least
  <2>3. n \in 0 .. L /\ ~ \E f : Flattening(n, seqs, f)
    BY <2>2
  <2>4. n # 0
    <3>1. Flattening(0, seqs, <<>>)
      BY DEF Flattening
    <3>2. QED  BY <2>3, <3>1
  <2>5. n - 1 \in 0 .. L /\ n - 1 < n /\ n \in 1 .. L
    BY <2>3, <2>4
  <2>6. PICK f : Flattening(n - 1, seqs, f)
    <3>1. n - 1 \notin bad
      BY <2>2, <2>5
    <3>2. QED  BY <2>5, <3>1
  <2> HIDE DEF bad
  <2> DEFINE new == [i \in 1 .. n |->
                        IF i = n THEN IF n = 1 THEN seqs[1] ELSE f[n - 1] \o seqs[n]
                        ELSE f[i]]
  <2>7. \A i \in 1 .. n : new[i] = IF i = 1 THEN seqs[i] ELSE new[i - 1] \o seqs[i]
    <3> SUFFICES ASSUME NEW i \in 1 .. n
                 PROVE  new[i] = IF i = 1 THEN seqs[i] ELSE new[i - 1] \o seqs[i]
      OBVIOUS
    <3>1. CASE i = n
      <4>1. n # 1 => n - 1 \in 1 .. n /\ n - 1 # n
        BY <2>5
      <4>2. n # 1 => new[n - 1] = f[n - 1]
        BY <4>1
      <4>3. new[n] = IF n = 1 THEN seqs[1] ELSE f[n - 1] \o seqs[n]
        BY <2>5
      <4> HIDE DEF new
      <4>4. QED  BY <3>1, <4>2, <4>3
    <3>2. CASE i # n
      <4>1. i \in 1 .. n - 1 /\ (i # 1 => i - 1 \in 1 .. n /\ i - 1 # n)
        BY <2>5, <3>2
      <4>2. f[i] = IF i = 1 THEN seqs[i] ELSE f[i - 1] \o seqs[i]
        BY <2>6, <4>1 DEF Flattening
      <4>3. new[i] = f[i] /\ (i # 1 => new[i - 1] = f[i - 1])
        BY <3>2, <4>1
      <4> HIDE DEF new
      <4>4. QED  BY <4>2, <4>3
    <3>3. QED  BY <3>1, <3>2
  <2>8. new = [i \in 1 .. n |-> new[i]]
    OBVIOUS
  <2> HIDE DEF new
  <2>9. Flattening(n, seqs, new)
    BY <2>7, <2>8 DEF Flattening
  <2>10. QED  BY <2>3, <2>9
<1>2. QED
  <2>1. L \in 0 .. L
    OBVIOUS
  <2>2. QED  BY <1>1, <2>1

LEMMA FlattenIs ==
    ASSUME NEW seqs, NEW L \in Nat, L # 0, Len(seqs) = L
    PROVE  \E f : /\ Xs!FlattenSeq(seqs) = f[L]
                  /\ \A i \in 1 .. L :
                         f[i] = IF i = 1 THEN seqs[i] ELSE f[i - 1] \o seqs[i]
<1> DEFINE f == CHOOSE f : Flattening(L, seqs, f)
<1>1. Flattening(L, seqs, f)
  BY FlattenExists
<1>3. Xs!FlattenSeq(seqs) = f[L]
  BY DEF Xs!FlattenSeq, Flattening
<1> HIDE DEF f
<1>4. \A i \in 1 .. L : f[i] = IF i = 1 THEN seqs[i] ELSE f[i - 1] \o seqs[i]
  BY <1>1 DEF Flattening
<1>5. QED  BY <1>3, <1>4

\* Sequences of elements of X, and where each begins.
Stack(L, X, seqs, len, off) ==
    /\ L \in Nat \ {0} /\ seqs \in [1 .. L -> Seq(X)] /\ len \in [1 .. L -> Nat]
    /\ \A s \in 1 .. L : Len(seqs[s]) = len[s]
    /\ Stacks(L, len, off)

LEMMA Flattened ==
    ASSUME NEW L, NEW X, NEW seqs, NEW len, NEW off, Stack(L, X, seqs, len, off)
    PROVE  /\ Xs!FlattenSeq(seqs) \in Seq(X) /\ Len(Xs!FlattenSeq(seqs)) = off[L]
           /\ \A s \in 1 .. L : \A i \in 1 .. len[s] :
                  Xs!FlattenSeq(seqs)[off[s - 1] + i] = seqs[s][i]
<1>0. /\ L \in Nat /\ L # 0 /\ seqs \in [1 .. L -> Seq(X)] /\ len \in [1 .. L -> Nat]
      /\ \A s \in 1 .. L : Len(seqs[s]) = len[s]
      /\ Stacks(L, len, off)
  BY DEF Stack
<1>1. PICK f : /\ Xs!FlattenSeq(seqs) = f[L]
               /\ \A i \in 1 .. L : f[i] = IF i = 1 THEN seqs[i] ELSE f[i - 1] \o seqs[i]
  <2>1. Len(seqs) = L /\ L \in Nat /\ L # 0
    BY <1>0
  <2>2. QED  BY <2>1, FlattenIs
<1>2. /\ \A s \in 0 .. L : off[s] \in Nat /\ off[s] <= off[L]
      /\ \A s \in 1 .. L : off[s] = off[s - 1] + len[s] /\ len[s] \in Nat
      /\ off[0] = 0
  BY <1>0, OffsetsGrow DEF Stacks
<1> DEFINE Good(n) == /\ f[n] \in Seq(X) /\ Len(f[n]) = off[n]
                      /\ \A s \in 1 .. n : \A i \in 1 .. len[s] :
                             f[n][off[s - 1] + i] = seqs[s][i]
           bad == {n \in 1 .. L : ~ Good(n)}
<1>3. Good(1)
  <2>1. f[1] = seqs[1] /\ 1 \in 1 .. L /\ 1 - 1 = 0
    BY <1>0, <1>1
  <2>2. off[1] = len[1] /\ len[1] \in Nat
    BY <1>2, <2>1
  <2>3. seqs[1] \in Seq(X) /\ Len(seqs[1]) = len[1]
    BY <1>0, <2>1
  <2>4. ASSUME NEW s \in 1 .. 1, NEW i \in 1 .. len[s]
        PROVE  f[1][off[s - 1] + i] = seqs[s][i]
    <3>1. s = 1 /\ off[s - 1] = 0 /\ i \in Int /\ 0 + i = i
      BY <1>2
    <3>2. QED  BY <2>1, <3>1
  <2>5. QED  BY <2>1, <2>2, <2>3, <2>4
<1>4. ASSUME NEW n \in 2 .. L, Good(n - 1) PROVE Good(n)
  <2> DEFINE a == f[n - 1]
             b == seqs[n]
  <2>1. n \in 1 .. L /\ n # 1 /\ n - 1 \in 0 .. L /\ n - 1 \in 1 .. n
    BY <1>0
  <2>2. f[n] = a \o b
    BY <1>1, <2>1
  <2>3. a \in Seq(X) /\ Len(a) = off[n - 1] /\ b \in Seq(X) /\ Len(b) = len[n]
    BY <1>0, <1>4, <2>1
  <2> DEFINE c == a \o b
  <2>4. /\ c \in Seq(X) /\ Len(c) = off[n - 1] + len[n]
        /\ \A i \in 1 .. off[n - 1] + len[n] :
               c[i] = IF i <= off[n - 1] THEN a[i] ELSE b[i - off[n - 1]]
    <3> HIDE DEF a, b
    <3>1. /\ c \in Seq(X) /\ Len(c) = Len(a) + Len(b)
          /\ \A i \in 1 .. Len(a) + Len(b) :
                 c[i] = IF i <= Len(a) THEN a[i] ELSE b[i - Len(a)]
      BY <2>3, ConcatProperties
    <3>2. QED  BY <2>3, <3>1
  <2>5. /\ off[n] = off[n - 1] + len[n] /\ off[n - 1] \in Nat /\ off[n] \in Nat
        /\ len[n] \in Nat
    BY <1>2, <2>1
  <2>6. ASSUME NEW s \in 1 .. n, NEW i \in 1 .. len[s]
        PROVE  c[off[s - 1] + i] = seqs[s][i]
    <3> DEFINE p == off[s - 1] + i
    <3>1. s \in 1 .. L /\ s - 1 \in 0 .. L /\ s \in 0 .. L
      BY <1>0, <2>1
    <3>2. off[s - 1] \in Nat /\ off[s] = off[s - 1] + len[s] /\ len[s] \in Nat
      BY <1>2, <3>1
    <3>3. CASE s = n
      <4>1. /\ p \in 1 .. off[n - 1] + len[n] /\ ~ p <= off[n - 1]
            /\ p - off[n - 1] = i
        BY <3>2, <3>3, <2>5
      <4> HIDE DEF p, c, b, a
      <4>2. c[p] = b[i]
        BY <2>4, <4>1
      <4>3. QED  BY <3>3, <4>2 DEF b, p
    <3>4. CASE s # n
      <4>1. s \in 1 .. n - 1 /\ s \in 0 .. n - 1
        BY <2>1, <3>4
      <4>2. a[p] = seqs[s][i]
        BY <1>4, <4>1
      <4>3. off[s] <= off[n - 1]
        <5> DEFINE m == n - 1
                   lens == [r \in 1 .. m |-> len[r]]
                   offs == [r \in 0 .. m |-> off[r]]
        <5>1. m \in Nat /\ m <= L
          BY <1>0
        <5> HIDE DEF m
        <5>2. lens \in [1 .. m -> Nat] /\ offs \in [0 .. m -> Nat] /\ offs[0] = 0
          BY <1>0, <1>2, <5>1
        <5>3. ASSUME NEW r \in 1 .. m
              PROVE  offs[r] = offs[r - 1] + lens[r]
          <6>1. r \in 1 .. L /\ r \in 0 .. m /\ r - 1 \in 0 .. m
            BY <1>0, <5>1
          <6>2. offs[r] = off[r] /\ offs[r - 1] = off[r - 1] /\ lens[r] = len[r]
            BY <6>1
          <6>3. off[r] = off[r - 1] + len[r]
            BY <1>2, <6>1
          <6>4. QED  BY <6>2, <6>3
        <5>4. s \in 0 .. m
          BY <4>1 DEF m
        <5>5. offs[s] = off[s] /\ offs[m] = off[m]
          BY <5>1, <5>4
        <5> HIDE DEF lens, offs
        <5>6. Stacks(m, lens, offs)
          BY <5>2, <5>3 DEF Stacks
        <5>7. offs[s] <= offs[m]
          BY <5>1, <5>2, <5>4, <5>6, OffsetsGrow
        <5>8. QED  BY <5>5, <5>7 DEF m
      <4>4. p \in 1 .. off[n - 1] + len[n] /\ p <= off[n - 1]
        <5> DEFINE x == off[s - 1]
                   y == off[s]
                   z == off[n - 1]
        <5>1. x \in Nat /\ len[s] \in Nat /\ y = x + len[s] /\ z \in Nat /\ len[n] \in Nat
              /\ i \in 1 .. len[s] /\ y <= z /\ p = x + i
          BY <2>5, <3>2, <4>3
        <5> HIDE DEF x, y, z, p
        <5>2. p \in 1 .. z + len[n] /\ p <= z
          BY <5>1
        <5>3. QED  BY <5>2 DEF z
      <4> HIDE DEF p, c, a
      <4>5. c[p] = a[p]
        BY <2>4, <4>4
      <4>6. QED  BY <4>2, <4>5 DEF p
    <3>5. QED  BY <3>3, <3>4
  <2> HIDE DEF a, b
  <2>7. f[n] = c
    BY <2>2
  <2> HIDE DEF c
  <2>8. QED  BY <2>4, <2>5, <2>6, <2>7
<1>5. ASSUME bad # {} PROVE FALSE
  <2>1. bad \in SUBSET Nat
    <3> HIDE DEF Good
    <3>1. QED  BY <1>0
  <2>2. PICK n \in bad : \A m \in bad : n <= m
    BY <1>5, <2>1, Least
  <2> HIDE DEF Good
  <2>3. n \in 1 .. L /\ ~ Good(n)
    BY <2>2
  <2>4. n # 1
    BY <1>3, <2>3
  <2>5. n \in 2 .. L /\ n - 1 \in 1 .. L /\ ~ n <= n - 1
    BY <1>0, <2>3, <2>4
  <2>6. Good(n - 1)
    BY <2>2, <2>5
  <2>7. QED  BY <1>4, <2>3, <2>5, <2>6
<1>6. Good(L)
  <2>1. L \in 1 .. L
    BY <1>0
  <2> HIDE DEF Good
  <2>2. QED  BY <1>5, <2>1
<1>7. QED  BY <1>1, <1>6

-----------------------------------------------------------------------------
(* The cross section: bars, their times and their features. *)

XsBar == {b \in Xs!Symbol \X Nat : b[2] \in 1 .. Xs!Bars(b[1])}

LEMMA XsTimes ==
    ASSUME closed \in Seq(SUBSET Xs!Symbol), NEW s
    PROVE  /\ Xs!Times(s) \in SUBSET Nat /\ IsFiniteSet(Xs!Times(s))
           /\ Xs!Bars(s) = Cardinality(Xs!Times(s)) /\ Xs!Bars(s) \in Nat
           /\ Xs!Bars(s) <= Len(closed)
<1> DEFINE n == Len(closed)
           S == 1 .. n
<1>1. n \in Nat /\ Xs!Times(s) \in SUBSET S /\ S \in SUBSET Nat
  BY DEF Xs!Times
<1>2. IsFiniteSet(S) /\ Cardinality(S) = n
  <2> HIDE DEF n
  <2>1. QED  BY <1>1, FS_Interval
<1> HIDE DEF S, n
<1>3. /\ IsFiniteSet(Xs!Times(s)) /\ Cardinality(Xs!Times(s)) <= n
      /\ Cardinality(Xs!Times(s)) \in Nat
  BY <1>1, <1>2, FS_Subset, FS_CardinalityType
<1>4. Xs!Bars(s) = Cardinality(Xs!Times(s))
  BY XsCounts DEF Xs!Bars
<1>5. QED  BY <1>1, <1>3, <1>4 DEF n

LEMMA TimeOfBar ==
    ASSUME closed \in Seq(SUBSET Xs!Symbol), NEW b \in XsBar
    PROVE  /\ b = <<b[1], b[2]>> /\ b[1] \in Xs!Symbol /\ b[2] \in Nat
           /\ b[2] \in 1 .. Xs!Bars(b[1])
           /\ Xs!TimeOf(b) = Xs!Nth(Xs!Times(b[1]), b[2])
           /\ Xs!TimeOf(b) \in Xs!Times(b[1]) /\ Xs!TimeOf(b) \in Nat
<1>1. /\ b = <<b[1], b[2]>> /\ b[1] \in Xs!Symbol /\ b[2] \in Nat
      /\ b[2] \in 1 .. Xs!Bars(b[1])
  BY DEF XsBar
<1>2. Xs!TimeOf(b) = Xs!Nth(Xs!Times(b[1]), b[2])
  BY DEF Xs!TimeOf
<1>3. Xs!Nth(Xs!Times(b[1]), b[2]) \in Xs!Times(b[1])
  BY <1>1, XsTimes, NthIs
<1>4. QED  BY <1>1, <1>2, <1>3, XsTimes

LEMMA TimesOrdered ==
    ASSUME closed \in Seq(SUBSET Xs!Symbol), NEW b \in XsBar, NEW c \in XsBar,
           b[1] = c[1]
    PROVE  /\ b[2] < c[2] => Xs!TimeOf(b) < Xs!TimeOf(c)
           /\ Xs!TimeOf(b) < Xs!TimeOf(c) => b[2] < c[2]
           /\ b[2] <= c[2] => Xs!TimeOf(b) <= Xs!TimeOf(c)
<1> DEFINE S == Xs!Times(b[1])
           m == b[2]
           n == c[2]
           t == Xs!TimeOf(b)
           u == Xs!TimeOf(c)
<1>1. /\ S \in SUBSET Nat /\ IsFiniteSet(S) /\ m \in 1 .. Cardinality(S)
      /\ n \in 1 .. Cardinality(S) /\ t = Xs!Nth(S, m) /\ u = Xs!Nth(S, n)
      /\ t \in Nat /\ u \in Nat /\ m \in Nat /\ n \in Nat
  BY XsTimes, TimeOfBar
<1> HIDE DEF S, m, n, t, u
<1>2. (m < n => t < u) /\ (n < m => u < t) /\ (m = n => t = u)
  BY <1>1, NthOrder
<1>3. (m < n => t < u) /\ (t < u => m < n) /\ (m <= n => t <= u)
  BY <1>1, <1>2
<1>4. QED  BY <1>3 DEF m, n, t, u

LEMMA AsOfTime ==
    ASSUME closed \in Seq(SUBSET Xs!Symbol), NEW p \in Xs!Symbol, NEW t \in Nat
    PROVE  /\ Xs!AsOf(p, t) \in Nat
           /\ Xs!AsOf(p, t) >= 1 =>
                  <<p, Xs!AsOf(p, t)>> \in XsBar /\ Xs!TimeOf(<<p, Xs!AsOf(p, t)>>) <= t
<1> DEFINE S == Xs!Times(p)
           n == Xs!AsOf(p, t)
           b == <<p, n>>
<1>1. S \in SUBSET Nat /\ IsFiniteSet(S) /\ Xs!Bars(p) = Cardinality(S)
      /\ Xs!Bars(p) \in Nat
  BY XsTimes
<1>2. n = Cardinality(UpTo(S, t))
  BY XsCounts DEF Xs!AsOf, UpTo
<1>3. b[1] = p /\ b[2] = n /\ Xs!TimeOf(b) = Xs!Nth(S, n)
  BY DEF Xs!TimeOf
<1> HIDE DEF S, n
<1>4. n \in 0 .. Cardinality(S) /\ (n >= 1 => Xs!Nth(S, n) <= t)
  BY <1>1, <1>2, NthCount
<1>5. n \in Nat
  BY <1>1, <1>4
<1>6. n >= 1 => b \in XsBar
  <2>1. n >= 1 => n \in 1 .. Xs!Bars(p)
    BY <1>1, <1>4, <1>5
  <2>2. QED  BY <1>5, <2>1 DEF XsBar
<1>7. QED  BY <1>3, <1>4, <1>5, <1>6 DEF n

\* The bars behind a row of full_mat are not after it.
LEMMA CrossOfThePast ==
    ASSUME closed \in Seq(SUBSET Xs!Symbol), NEW b \in XsBar, NEW x \in Xs!Cross(b)
    PROVE  x \in XsBar /\ Xs!TimeOf(x) <= Xs!TimeOf(b)
<1>1. Xs!TimeOf(b) \in Nat
  BY TimeOfBar
<1>2. \/ x = b
      \/ \E p \in Xs!Symbol : x = <<p, Xs!AsOf(p, Xs!TimeOf(b))>> /\ x[2] > 1
  BY DEF Xs!Cross
<1>3. ASSUME NEW p \in Xs!Symbol, x = <<p, Xs!AsOf(p, Xs!TimeOf(b))>>, x[2] > 1
      PROVE  x \in XsBar /\ Xs!TimeOf(x) <= Xs!TimeOf(b)
  <2> DEFINE n == Xs!AsOf(p, Xs!TimeOf(b))
  <2>1. x = <<p, n>> /\ x[2] = n
    BY <1>3
  <2>2. n \in Nat /\ (n >= 1 => <<p, n>> \in XsBar /\ Xs!TimeOf(<<p, n>>) <= Xs!TimeOf(b))
    BY <1>1, AsOfTime
  <2> HIDE DEF n
  <2>3. n >= 1
    BY <1>3, <2>1, <2>2
  <2>4. QED  BY <2>1, <2>2, <2>3
<1>4. QED  BY <1>1, <1>2, <1>3

LEMMA TwoGreatest ==
    ASSUME NEW a \in Int, NEW b \in Int
    PROVE  Xs!Max({a, b}) = IF a >= b THEN a ELSE b
BY DEF Xs!Max

LEMMA TwoLeast ==
    ASSUME NEW a \in Int, NEW b \in Int
    PROVE  Xs!Min({a, b}) = IF a <= b THEN a ELSE b
BY DEF Xs!Min

LEMMA RollingOfThePast ==
    ASSUME closed \in Seq(SUBSET Xs!Symbol), NEW b \in XsBar, NEW x \in Xs!Rolling(b)
    PROVE  x \in XsBar /\ Xs!TimeOf(x) <= Xs!TimeOf(b)
<1>1. /\ b[1] \in Xs!Symbol /\ b[2] \in Nat /\ b[2] \in 1 .. Xs!Bars(b[1])
      /\ XsWindow \in Nat /\ Xs!Bars(b[1]) \in Nat
  BY TimeOfBar, XsTimes, XsConstants
<1> DEFINE low == Xs!Max({1, b[2] - XsWindow + 1})
<1>2. low \in Int /\ low >= 1
  BY <1>1, TwoGreatest
<1>3. PICK n \in low .. b[2] : x = <<b[1], n>>
  BY DEF Xs!Rolling
<1> HIDE DEF low
<1>4. /\ x[1] = b[1] /\ x[2] = n /\ n \in 1 .. Xs!Bars(b[1]) /\ n \in Nat /\ n <= b[2]
  BY <1>1, <1>2, <1>3
<1>5. x \in XsBar
  BY <1>1, <1>3, <1>4 DEF XsBar
<1>6. QED  BY <1>4, <1>5, TimesOrdered

LEMMA RefSymIs ==
    ASSUME closed \in Seq(SUBSET Xs!Symbol)
    PROVE  Xs!RefSym \in Xs!Symbol
<1> DEFINE counts == {Xs!Bars(s) : s \in Xs!Symbol}
           most == {s \in Xs!Symbol : \A p \in Xs!Symbol : Xs!Bars(p) <= Xs!Bars(s)}
<1>1. /\ Symbols \in Nat /\ 1 \in Xs!Symbol /\ Xs!Symbol \in SUBSET Nat
      /\ Len(closed) \in Nat
  BY XsConstants DEF Xs!Symbol
<1>2. \A s \in Xs!Symbol : Xs!Bars(s) \in Nat /\ Xs!Bars(s) <= Len(closed)
  BY XsTimes
<1>3. counts \in SUBSET Nat /\ counts # {} /\ \A c \in counts : c <= Len(closed)
  BY <1>1, <1>2
<1>4. PICK c \in counts : \A d \in counts : d <= c
  <2> HIDE DEF counts
  <2>1. QED  BY <1>1, <1>3, Greatest
<1>5. most # {}
  <2>1. PICK s \in Xs!Symbol : c = Xs!Bars(s)
    BY <1>4
  <2>2. s \in most
    BY <1>4, <2>1
  <2>3. QED  BY <2>2
<1>6. most \in SUBSET Nat /\ most \in SUBSET Xs!Symbol
  BY <1>1
<1> HIDE DEF most
<1>7. Xs!Min(most) \in most
  BY <1>5, <1>6, Least DEF Xs!Min
<1>8. QED  BY <1>6, <1>7 DEF most, Xs!RefSym

\* No feature of a bar reads a bar after it.
LEMMA ReadsOfThePast ==
    ASSUME closed \in Seq(SUBSET Xs!Symbol), NEW b \in XsBar, NEW x \in Xs!Reads(b)
    PROVE  Xs!TimeOf(x) <= Xs!TimeOf(b)
<1>1. Xs!TimeOf(b) \in Nat
  BY TimeOfBar
<1>2. \A y \in Xs!Rolling(b) : y \in XsBar /\ Xs!TimeOf(y) <= Xs!TimeOf(b)
  BY RollingOfThePast
<1>3. ASSUME NEW y \in Xs!RefWindow(b)
      PROVE  y \in XsBar /\ Xs!TimeOf(y) <= Xs!TimeOf(b)
  <2> DEFINE n == Xs!AsOf(Xs!RefSym, Xs!TimeOf(b))
             ref == <<Xs!RefSym, n>>
  <2>1. Xs!RefBar(b) = ref /\ ref[2] = n
    BY DEF Xs!RefBar
  <2>2. n \in Nat /\ (n >= 1 => ref \in XsBar /\ Xs!TimeOf(ref) <= Xs!TimeOf(b))
    BY <1>1, RefSymIs, AsOfTime
  <2> HIDE DEF ref, n
  <2>3. n # 0 /\ y \in Xs!Rolling(ref)
    BY <1>3, <2>1 DEF Xs!RefWindow
  <2>4. ref \in XsBar /\ Xs!TimeOf(ref) <= Xs!TimeOf(b)
    BY <2>2, <2>3
  <2>5. y \in XsBar /\ Xs!TimeOf(y) <= Xs!TimeOf(ref)
    BY <2>3, <2>4, RollingOfThePast
  <2>6. Xs!TimeOf(y) \in Nat /\ Xs!TimeOf(ref) \in Nat
    BY <2>4, <2>5, TimeOfBar
  <2>7. QED  BY <1>1, <2>4, <2>5, <2>6
<1>4. \E y \in XsBar : Xs!TimeOf(y) <= Xs!TimeOf(b) /\ x \in Xs!Cross(y) \union {y}
  <2>1. \/ \E y \in Xs!Rolling(b) : x \in Xs!Cross(y) \union {y}
        \/ \E y \in Xs!RefWindow(b) : x \in Xs!Cross(y)
    BY DEF Xs!Reads, Xs!OwnReads, Xs!PairCorrReads
  <2>2. QED  BY <1>2, <1>3, <2>1
<1>5. PICK y \in XsBar : Xs!TimeOf(y) <= Xs!TimeOf(b) /\ x \in Xs!Cross(y) \union {y}
  BY <1>4
<1>6. Xs!TimeOf(y) \in Nat
  BY <1>5, TimeOfBar
<1>7. x \in XsBar /\ Xs!TimeOf(x) <= Xs!TimeOf(y)
  BY <1>5, <1>6, CrossOfThePast
<1>8. Xs!TimeOf(x) \in Nat
  BY <1>7, TimeOfBar
<1>9. QED  BY <1>1, <1>5, <1>6, <1>7, <1>8

-----------------------------------------------------------------------------
(* The cross section: the pooled matrix. *)

Valids(s) == {n \in 1 .. Xs!Bars(s) : Xs!Valid(<<s, n>>)}
Count(s) == Cardinality(Valids(s))

\* The k-th valid row of a symbol.
RowAt(s, k) == <<s, Xs!Nth(Valids(s), k)>>

TargetAt(s, k, h) ==
    IF k + h <= Count(s) THEN {RowAt(s, j) : j \in k + 1 .. k + h} ELSE Xs!NaN

LEMMA ValidRows ==
    ASSUME closed \in Seq(SUBSET Xs!Symbol), NEW s \in Xs!Symbol
    PROVE  /\ Valids(s) \in SUBSET Nat /\ IsFiniteSet(Valids(s)) /\ Count(s) \in Nat
           /\ \A k \in 1 .. Count(s) :
                  /\ RowAt(s, k) \in XsBar /\ RowAt(s, k)[1] = s
                  /\ RowAt(s, k)[2] = Xs!Nth(Valids(s), k)
           /\ \A j, k \in 1 .. Count(s) : j < k <=> RowAt(s, j)[2] < RowAt(s, k)[2]
           /\ \A j, k \in 1 .. Count(s) : RowAt(s, j) = RowAt(s, k) => j = k
<1> DEFINE S == Valids(s)
           b == Xs!Bars(s)
           I == 1 .. b
<1>1. b \in Nat /\ S \in SUBSET I /\ I \in SUBSET Nat
  BY XsTimes DEF Valids
<1>2. IsFiniteSet(I)
  <2> HIDE DEF b
  <2>1. QED  BY <1>1, FS_Interval
<1>3. S \in SUBSET Nat /\ IsFiniteSet(S) /\ Count(s) \in Nat /\ Count(s) = Cardinality(S)
  <2> HIDE DEF I
  <2>1. S \in SUBSET Nat /\ IsFiniteSet(S)
    BY <1>1, <1>2, FS_Subset
  <2>2. QED  BY <2>1, FS_CardinalityType DEF Count
<1>4. ASSUME NEW k \in 1 .. Count(s)
      PROVE  /\ RowAt(s, k) \in XsBar /\ RowAt(s, k)[1] = s
             /\ RowAt(s, k)[2] = Xs!Nth(S, k) /\ Xs!Nth(S, k) \in Nat
  <2> DEFINE n == Xs!Nth(S, k)
  <2>1. n \in S
    BY <1>3, NthIs
  <2>2. RowAt(s, k) = <<s, n>>
    BY DEF RowAt
  <2> HIDE DEF n
  <2>3. n \in 1 .. b /\ n \in Nat
    BY <1>1, <2>1
  <2>4. <<s, n>> \in XsBar
    BY <2>3 DEF XsBar
  <2>5. QED  BY <2>2, <2>3, <2>4 DEF n
<1>5. ASSUME NEW j \in 1 .. Count(s), NEW k \in 1 .. Count(s), j < k
      PROVE  RowAt(s, j)[2] < RowAt(s, k)[2]
  <2> HIDE DEF S
  <2>1. Xs!Nth(S, j) < Xs!Nth(S, k)
    BY <1>3, <1>5, NthOrder
  <2>2. QED  BY <1>4, <2>1
<1>6. ASSUME NEW j \in 1 .. Count(s), NEW k \in 1 .. Count(s)
      PROVE  /\ j < k <=> RowAt(s, j)[2] < RowAt(s, k)[2]
             /\ RowAt(s, j) = RowAt(s, k) => j = k
  <2> DEFINE x == RowAt(s, j)[2]
             y == RowAt(s, k)[2]
  <2>1. x \in Nat /\ y \in Nat /\ (j < k => x < y) /\ (k < j => y < x)
    BY <1>4, <1>5
  <2>2. j \in Int /\ k \in Int
    BY <1>3
  <2>3. (RowAt(s, j) = RowAt(s, k) => x = y) /\ (j = k => x = y)
    OBVIOUS
  <2> HIDE DEF x, y
  <2>4. (j < k <=> x < y) /\ (RowAt(s, j) = RowAt(s, k) => j = k)
    BY <2>1, <2>2, <2>3
  <2>5. QED  BY <2>4 DEF x, y
<1>7. QED  BY <1>3, <1>4, <1>6

LEMMA KeptIs ==
    ASSUME closed \in Seq(SUBSET Xs!Symbol), NEW s \in Xs!Symbol
    PROVE  /\ Xs!Kept(s) \in Seq(XsBar) /\ Len(Xs!Kept(s)) = Count(s)
           /\ \A k \in 1 .. Count(s) : Xs!Kept(s)[k] = RowAt(s, k)
<1>1. Xs!Kept(s) = [k \in 1 .. Count(s) |-> RowAt(s, k)]
  BY XsCounts DEF Xs!Kept, Valids, Count, RowAt
<1>2. Count(s) \in Nat /\ \A k \in 1 .. Count(s) : RowAt(s, k) \in XsBar
  BY ValidRows
<1> DEFINE f == [k \in 1 .. Count(s) |-> RowAt(s, k)]
<1>3. f \in Seq(XsBar) /\ Len(f) = Count(s)
  BY <1>2
<1>4. QED  BY <1>1, <1>3

LEMMA ForwardIs ==
    ASSUME closed \in Seq(SUBSET Xs!Symbol), NEW s \in Xs!Symbol, NEW h \in Nat \ {0}
    PROVE  /\ Xs!Forward(Xs!Kept(s), h) \in Seq(SUBSET XsBar)
           /\ Len(Xs!Forward(Xs!Kept(s), h)) = Count(s)
           /\ \A k \in 1 .. Count(s) : Xs!Forward(Xs!Kept(s), h)[k] = TargetAt(s, k, h)
<1> DEFINE kept == Xs!Kept(s)
           f == Xs!Forward(kept, h)
           c == Count(s)
<1>1. /\ c \in Nat /\ kept \in Seq(XsBar) /\ Len(kept) = c /\ DOMAIN kept = 1 .. c
      /\ \A k \in 1 .. c : kept[k] = RowAt(s, k) /\ RowAt(s, k) \in XsBar
  BY KeptIs, ValidRows
<1> HIDE DEF kept, c
<1>2. f = [k \in 1 .. c |-> IF k + h <= c THEN {kept[j] : j \in k + 1 .. k + h} ELSE Xs!NaN]
  BY <1>1 DEF Xs!Forward
<1>3. ASSUME NEW k \in 1 .. c
      PROVE  f[k] = TargetAt(s, k, h) /\ TargetAt(s, k, h) \in SUBSET XsBar
  <2>1. CASE k + h <= c
    <3>1. \A j \in k + 1 .. k + h : j \in 1 .. c
      BY <1>1, <2>1
    <3>2. {kept[j] : j \in k + 1 .. k + h} = {RowAt(s, j) : j \in k + 1 .. k + h}
      BY <1>1, <3>1
    <3>3. {RowAt(s, j) : j \in k + 1 .. k + h} \in SUBSET XsBar
      BY <1>1, <3>1
    <3>4. f[k] = {kept[j] : j \in k + 1 .. k + h}
      BY <1>2, <2>1
    <3>5. TargetAt(s, k, h) = {RowAt(s, j) : j \in k + 1 .. k + h}
      BY <2>1 DEF TargetAt, c
    <3>6. QED  BY <3>2, <3>3, <3>4, <3>5
  <2>2. CASE ~ k + h <= c
    BY <1>2, <2>2 DEF TargetAt, c, Xs!NaN
  <2>3. QED  BY <2>1, <2>2
<1>4. f = [k \in 1 .. c |-> f[k]]
  BY <1>2
<1> HIDE DEF f
<1>5. f \in Seq(SUBSET XsBar) /\ Len(f) = c
  BY <1>1, <1>3, <1>4
<1>6. QED  BY <1>3, <1>5 DEF f, kept, c

\* What the matrix is made of: every valid row of every symbol once, with its
\* own targets, in the order of their times.
Pooled(m, n) ==
    /\ DOMAIN m.rows = 1 .. n /\ Len(m.rows) = n
    /\ \A i \in 1 .. n : \E s \in Xs!Symbol : \E k \in 1 .. Count(s) :
           /\ m.rows[i] = RowAt(s, k)
           /\ \A h \in Horizons : m.targets[h][i] = TargetAt(s, k, h)
    /\ \A s \in Xs!Symbol : \A k \in 1 .. Count(s) :
           \E i \in 1 .. n : m.rows[i] = RowAt(s, k)
    /\ \A i, j \in 1 .. n : m.rows[i] = m.rows[j] => i = j
    /\ \A i, j \in 1 .. n : i < j => Xs!TimeOf(m.rows[i]) <= Xs!TimeOf(m.rows[j])

\* The rows before the sort.
LEMMA StackOfRows ==
    ASSUME closed \in Seq(SUBSET Xs!Symbol), NEW off,
           Stacks(Symbols, [s \in Xs!Symbol |-> Count(s)], off),
           NEW stacked, stacked = Xs!FlattenSeq([s \in Xs!Symbol |-> Xs!Kept(s)])
    PROVE  /\ stacked \in Seq(XsBar) /\ Len(stacked) = off[Symbols]
           /\ \A s \in Xs!Symbol : \A k \in 1 .. Count(s) : stacked[off[s - 1] + k] = RowAt(s, k)
<1> DEFINE L == Symbols
           seqs == [s \in 1 .. L |-> Xs!Kept(s)]
           len == [s \in 1 .. L |-> Count(s)]
<1>1. L \in Nat \ {0} /\ Xs!Symbol = 1 .. L
  BY XsConstants DEF Xs!Symbol
<1>2. \A s \in 1 .. L : /\ Xs!Kept(s) \in Seq(XsBar) /\ Len(Xs!Kept(s)) = Count(s)
                        /\ Count(s) \in Nat
                        /\ \A k \in 1 .. Count(s) : Xs!Kept(s)[k] = RowAt(s, k)
  BY <1>1, KeptIs, ValidRows
<1>3. /\ seqs \in [1 .. L -> Seq(XsBar)] /\ len \in [1 .. L -> Nat]
      /\ \A s \in 1 .. L : Len(seqs[s]) = len[s] /\ len[s] = Count(s)
      /\ \A s \in 1 .. L : seqs[s] = Xs!Kept(s)
      /\ Stacks(L, len, off) /\ stacked = Xs!FlattenSeq(seqs)
  BY <1>1, <1>2
<1> HIDE DEF L, seqs, len
<1>s. Stack(L, XsBar, seqs, len, off)
  BY <1>1, <1>3 DEF Stack
<1>4. /\ stacked \in Seq(XsBar) /\ Len(stacked) = off[L]
      /\ \A s \in 1 .. L : \A k \in 1 .. len[s] : stacked[off[s - 1] + k] = seqs[s][k]
  <2>1. /\ Xs!FlattenSeq(seqs) \in Seq(XsBar) /\ Len(Xs!FlattenSeq(seqs)) = off[L]
        /\ \A s \in 1 .. L : \A k \in 1 .. len[s] :
               Xs!FlattenSeq(seqs)[off[s - 1] + k] = seqs[s][k]
    BY <1>s, Flattened
  <2>2. QED  BY <1>3, <2>1
<1>5. \A s \in 1 .. L : \A k \in 1 .. Count(s) : stacked[off[s - 1] + k] = RowAt(s, k)
  <2> SUFFICES ASSUME NEW s \in 1 .. L, NEW k \in 1 .. Count(s)
               PROVE  stacked[off[s - 1] + k] = RowAt(s, k)
    OBVIOUS
  <2>1. len[s] = Count(s) /\ seqs[s] = Xs!Kept(s)
    BY <1>3
  <2>2. stacked[off[s - 1] + k] = seqs[s][k]
    BY <1>4, <2>1
  <2>3. QED  BY <1>2, <2>1, <2>2
<1>6. QED  BY <1>1, <1>4, <1>5 DEF L

\* The targets before the sort.
LEMMA StackOfTargets ==
    ASSUME closed \in Seq(SUBSET Xs!Symbol), NEW off, NEW h \in Nat \ {0},
           Stacks(Symbols, [s \in Xs!Symbol |-> Count(s)], off),
           NEW kept, kept = [s \in Xs!Symbol |-> Xs!Kept(s)]
    PROVE  \A s \in Xs!Symbol : \A k \in 1 .. Count(s) :
               Xs!Targets(kept, h)[off[s - 1] + k] = TargetAt(s, k, h)
<1> DEFINE L == Symbols
           seqs == [s \in 1 .. L |-> Xs!Forward(Xs!Kept(s), h)]
           len == [s \in 1 .. L |-> Count(s)]
           stacked == Xs!Targets(kept, h)
           X == SUBSET XsBar
<1>1. L \in Nat \ {0} /\ Xs!Symbol = 1 .. L
  BY XsConstants DEF Xs!Symbol
<1>2. \A s \in 1 .. L :
          /\ Xs!Forward(Xs!Kept(s), h) \in Seq(X)
          /\ Len(Xs!Forward(Xs!Kept(s), h)) = Count(s) /\ Count(s) \in Nat
          /\ \A k \in 1 .. Count(s) : Xs!Forward(Xs!Kept(s), h)[k] = TargetAt(s, k, h)
  BY <1>1, ForwardIs, ValidRows
<1>3. stacked = Xs!FlattenSeq(seqs)
  <2>1. [s \in Xs!Symbol |-> Xs!Forward(kept[s], h)] = seqs
    BY <1>1
  <2> HIDE DEF seqs
  <2>2. QED  BY <2>1 DEF Xs!Targets
<1>4. /\ seqs \in [1 .. L -> Seq(X)] /\ len \in [1 .. L -> Nat]
      /\ \A s \in 1 .. L : Len(seqs[s]) = len[s] /\ len[s] = Count(s)
      /\ \A s \in 1 .. L : seqs[s] = Xs!Forward(Xs!Kept(s), h)
      /\ Stacks(L, len, off)
  <2> HIDE DEF X, stacked
  <2>1. QED  BY <1>1, <1>2
<1> HIDE DEF L, seqs, len, stacked, X
<1>s. Stack(L, X, seqs, len, off)
  BY <1>1, <1>4 DEF Stack
<1>5. \A s \in 1 .. L : \A k \in 1 .. len[s] : stacked[off[s - 1] + k] = seqs[s][k]
  BY <1>3, <1>s, Flattened
<1>6. \A s \in 1 .. L : \A k \in 1 .. Count(s) : stacked[off[s - 1] + k] = TargetAt(s, k, h)
  BY <1>2, <1>4, <1>5
<1>7. QED  BY <1>1, <1>6 DEF L, stacked

LEMMA MatrixIs ==
    ASSUME closed \in Seq(SUBSET Xs!Symbol)
    PROVE  \E n \in Nat : Pooled(Xs!Matrix, n)
<1> DEFINE L == Symbols
           len == [s \in Xs!Symbol |-> Count(s)]
           kept == [s \in Xs!Symbol |-> Xs!Kept(s)]
           stacked == Xs!FlattenSeq(kept)
           time == [i \in DOMAIN stacked |-> Xs!TimeOf(stacked[i])]
           idx == Xs!SortIdx(time)
           m == Xs!Matrix
<1>1. /\ L \in Nat /\ Xs!Symbol = 1 .. L /\ len \in [1 .. L -> Nat]
      /\ Horizons \subseteq Nat \ {0}
      /\ \A s \in 1 .. L : len[s] = Count(s)
  BY XsConstants, ValidRows DEF Xs!Symbol
<1>2. PICK off : Stacks(L, len, off)
  <2> HIDE DEF L, len
  <2>1. QED  BY <1>1, Offsets
<1> DEFINE n == off[L]
<1>3. /\ \A p \in 1 .. n : \E s \in 1 .. L : \E k \in 1 .. len[s] : p = off[s - 1] + k
      /\ \A s \in 1 .. L : \A k \in 1 .. len[s] : off[s - 1] + k \in 1 .. n
      /\ n \in Nat
  <2> HIDE DEF L, len
  <2>1. L \in 0 .. L
    BY <1>1
  <2>2. n \in Nat
    BY <1>1, <1>2, <2>1, OffsetsGrow
  <2>3. /\ \A p \in 1 .. off[L] : \E s \in 1 .. L : \E k \in 1 .. len[s] : p = off[s - 1] + k
        /\ \A s \in 1 .. L : \A k \in 1 .. len[s] : off[s - 1] + k \in 1 .. off[L]
    <3>1. L \in Nat /\ len \in [1 .. L -> Nat] /\ Stacks(L, len, off)
      BY <1>1, <1>2
    <3> HIDE DEF n
    <3>2. QED  BY <3>1, Positions
  <2>4. QED  BY <2>2, <2>3
<1>4. /\ stacked \in Seq(XsBar) /\ Len(stacked) = n
      /\ \A s \in Xs!Symbol : \A k \in 1 .. Count(s) : stacked[off[s - 1] + k] = RowAt(s, k)
  BY <1>2, StackOfRows
<1>5. \A h \in Horizons : \A s \in Xs!Symbol : \A k \in 1 .. Count(s) :
          Xs!Targets(kept, h)[off[s - 1] + k] = TargetAt(s, k, h)
  <2> SUFFICES ASSUME NEW h \in Horizons
               PROVE  \A s \in Xs!Symbol : \A k \in 1 .. Count(s) :
                          Xs!Targets(kept, h)[off[s - 1] + k] = TargetAt(s, k, h)
    OBVIOUS
  <2>1. h \in Nat \ {0}
    BY <1>1
  <2>2. Stacks(Symbols, [s \in Xs!Symbol |-> Count(s)], off)
    BY <1>2
  <2>3. kept = [s \in Xs!Symbol |-> Xs!Kept(s)]
    OBVIOUS
  <2> HIDE DEF L, len, kept, stacked, time, idx, m, n
  <2>4. QED  BY <2>1, <2>2, <2>3, StackOfTargets
<1>6. /\ m.rows = [i \in DOMAIN idx |-> stacked[idx[i]]]
      /\ \A h \in Horizons :
             m.targets[h] = [i \in DOMAIN idx |-> Xs!Targets(kept, h)[idx[i]]]
  BY DEF Xs!Matrix
<1> HIDE DEF kept, m, len
\* Every position has a symbol and a row of it, and these determine it.
<1>7. \A p \in 1 .. n : \E s \in Xs!Symbol : \E k \in 1 .. Count(s) :
          /\ p = off[s - 1] + k /\ stacked[p] = RowAt(s, k)
          /\ \A h \in Horizons : Xs!Targets(kept, h)[p] = TargetAt(s, k, h)
  <2> SUFFICES ASSUME NEW p \in 1 .. n
               PROVE  \E s \in Xs!Symbol : \E k \in 1 .. Count(s) :
                          /\ p = off[s - 1] + k /\ stacked[p] = RowAt(s, k)
                          /\ \A h \in Horizons : Xs!Targets(kept, h)[p] = TargetAt(s, k, h)
    OBVIOUS
  <2> HIDE DEF n, stacked, L
  <2>0. \E s \in 1 .. L : \E k \in 1 .. len[s] : p = off[s - 1] + k
    BY <1>3, Zenon
  <2>1. PICK s \in 1 .. L : \E k \in 1 .. len[s] : p = off[s - 1] + k
    BY <2>0
  <2>2. PICK k \in 1 .. len[s] : p = off[s - 1] + k
    BY <2>1
  <2>3. s \in Xs!Symbol /\ k \in 1 .. Count(s)
    BY <1>1
  <2>4. QED  BY <1>4, <1>5, <2>2, <2>3
<1>8. time \in [1 .. n -> Nat] /\ \A p \in 1 .. n : time[p] = Xs!TimeOf(stacked[p])
  <2> HIDE DEF stacked, n
  <2>1. DOMAIN stacked = 1 .. n /\ \A p \in 1 .. n : stacked[p] \in XsBar
    BY <1>3, <1>4
  <2>2. \A p \in 1 .. n : Xs!TimeOf(stacked[p]) \in Nat
    BY <2>1, TimeOfBar
  <2>3. QED  BY <2>1, <2>2
<1> HIDE DEF stacked, time, n
<1>9. /\ idx \in [1 .. n -> 1 .. n]
      /\ \A p \in 1 .. n : \E r \in 1 .. n : idx[r] = p
      /\ \A r, q \in 1 .. n : idx[r] = idx[q] => r = q
      /\ \A r, q \in 1 .. n : r < q => time[idx[r]] <= time[idx[q]]
  BY <1>3, <1>8, Sorted
<1> HIDE DEF idx
<1>10. /\ DOMAIN m.rows = 1 .. n
       /\ \A i \in 1 .. n : /\ idx[i] \in 1 .. n /\ m.rows[i] = stacked[idx[i]]
                            /\ \A h \in Horizons :
                                   m.targets[h][i] = Xs!Targets(kept, h)[idx[i]]
  <2>1. DOMAIN idx = 1 .. n /\ \A i \in 1 .. n : idx[i] \in 1 .. n
    BY <1>9
  <2>2. DOMAIN m.rows = 1 .. n /\ \A i \in 1 .. n : m.rows[i] = stacked[idx[i]]
    BY <1>6, <2>1
  <2>3. \A i \in 1 .. n, h \in Horizons : m.targets[h][i] = Xs!Targets(kept, h)[idx[i]]
    <3> SUFFICES ASSUME NEW i \in 1 .. n, NEW h \in Horizons
                 PROVE  m.targets[h][i] = Xs!Targets(kept, h)[idx[i]]
      OBVIOUS
    <3> DEFINE ts == Xs!Targets(kept, h)
               us == m.targets[h]
    <3>1. us = [j \in DOMAIN idx |-> ts[idx[j]]]
      BY <1>6
    <3> HIDE DEF ts, us
    <3>2. us[i] = ts[idx[i]]
      BY <2>1, <3>1
    <3>3. QED  BY <3>2 DEF ts, us
  <2>4. QED  BY <2>1, <2>2, <2>3
<1>11. \A i \in 1 .. n : \E s \in Xs!Symbol : \E k \in 1 .. Count(s) :
           /\ m.rows[i] = RowAt(s, k)
           /\ \A h \in Horizons : m.targets[h][i] = TargetAt(s, k, h)
  <2> SUFFICES ASSUME NEW i \in 1 .. n
               PROVE  \E s \in Xs!Symbol : \E k \in 1 .. Count(s) :
                          /\ m.rows[i] = RowAt(s, k)
                          /\ \A h \in Horizons : m.targets[h][i] = TargetAt(s, k, h)
    OBVIOUS
  <2> DEFINE p == idx[i]
  <2>1. /\ p \in 1 .. n /\ m.rows[i] = stacked[p]
        /\ \A h \in Horizons : m.targets[h][i] = Xs!Targets(kept, h)[p]
    BY <1>10
  <2> HIDE DEF p
  <2>2. \E s \in Xs!Symbol : \E k \in 1 .. Count(s) :
            /\ stacked[p] = RowAt(s, k)
            /\ \A h \in Horizons : Xs!Targets(kept, h)[p] = TargetAt(s, k, h)
    BY <1>7, <2>1, Zenon
  <2>3. QED  BY <2>1, <2>2
<1>12. \A s \in Xs!Symbol : \A k \in 1 .. Count(s) : \E i \in 1 .. n : m.rows[i] = RowAt(s, k)
  <2> SUFFICES ASSUME NEW s \in Xs!Symbol, NEW k \in 1 .. Count(s)
               PROVE  \E i \in 1 .. n : m.rows[i] = RowAt(s, k)
    OBVIOUS
  <2> DEFINE p == off[s - 1] + k
  <2>1. p \in 1 .. n /\ stacked[p] = RowAt(s, k)
    BY <1>1, <1>3, <1>4
  <2> HIDE DEF p
  <2>2. PICK i \in 1 .. n : idx[i] = p
    BY <1>9, <2>1
  <2>3. QED  BY <1>10, <2>1, <2>2
<1>13. ASSUME NEW p \in 1 .. n, NEW q \in 1 .. n, stacked[p] = stacked[q]
       PROVE  p = q
  <2>0. \A x \in 1 .. n : \E s \in Xs!Symbol : \E k \in 1 .. Count(s) :
            x = off[s - 1] + k /\ stacked[x] = RowAt(s, k)
    BY <1>7, Zenon
  <2>1. PICK s \in Xs!Symbol : \E k \in 1 .. Count(s) :
            p = off[s - 1] + k /\ stacked[p] = RowAt(s, k)
    BY <2>0, Zenon
  <2>2. PICK t \in Xs!Symbol : \E j \in 1 .. Count(t) :
            q = off[t - 1] + j /\ stacked[q] = RowAt(t, j)
    BY <2>0, Zenon
  <2>k. PICK k \in 1 .. Count(s) : p = off[s - 1] + k /\ stacked[p] = RowAt(s, k)
    BY <2>1
  <2>j. PICK j \in 1 .. Count(t) : q = off[t - 1] + j /\ stacked[q] = RowAt(t, j)
    BY <2>2
  <2>3. RowAt(s, k)[1] = s /\ RowAt(t, j)[1] = t
    BY ValidRows
  <2>4. s = t
    BY <1>13, <2>k, <2>j, <2>3
  <2>5. k = j
    BY <1>13, <2>k, <2>j, <2>4, ValidRows
  <2>6. QED  BY <2>k, <2>j, <2>4, <2>5
<1>14. \A i, j \in 1 .. n : m.rows[i] = m.rows[j] => i = j
  <2> SUFFICES ASSUME NEW i \in 1 .. n, NEW j \in 1 .. n, m.rows[i] = m.rows[j]
               PROVE  i = j
    OBVIOUS
  <2>1. idx[i] = idx[j]
    BY <1>10, <1>13
  <2>2. QED  BY <1>9, <2>1
<1>15. \A i, j \in 1 .. n : i < j => Xs!TimeOf(m.rows[i]) <= Xs!TimeOf(m.rows[j])
  <2> SUFFICES ASSUME NEW i \in 1 .. n, NEW j \in 1 .. n, i < j
               PROVE  Xs!TimeOf(m.rows[i]) <= Xs!TimeOf(m.rows[j])
    OBVIOUS
  <2>1. time[idx[i]] <= time[idx[j]]
    BY <1>9
  <2>2. /\ time[idx[i]] = Xs!TimeOf(m.rows[i]) /\ time[idx[j]] = Xs!TimeOf(m.rows[j])
    BY <1>8, <1>10
  <2>3. QED  BY <2>1, <2>2
<1>l. Len(m.rows) = n
  <2>1. DOMAIN idx = 1 .. n /\ \A i \in 1 .. n : stacked[idx[i]] \in XsBar
    <3>1. DOMAIN stacked = 1 .. n /\ \A p \in 1 .. n : stacked[p] \in XsBar
      BY <1>3, <1>4
    <3>2. QED  BY <1>9, <3>1
  <2> DEFINE e(i) == stacked[idx[i]]
             listed == [i \in 1 .. n |-> e(i)]
  <2>2. m.rows = listed /\ \A i \in 1 .. n : e(i) \in XsBar
    BY <1>6, <2>1
  <2> HIDE DEF e
  <2>3. listed \in Seq(XsBar) /\ Len(listed) = n
    BY <1>3, <2>2
  <2>4. QED  BY <2>2, <2>3
<1>16. Pooled(m, n)
  BY <1>l, <1>10, <1>11, <1>12, <1>14, <1>15 DEF Pooled
<1>17. QED  BY <1>3, <1>16 DEF m

LEMMA PooledFeatures ==
    ASSUME closed \in Seq(SUBSET Xs!Symbol), NEW n \in Nat, Pooled(matrix, n)
    PROVE  Xs!FeaturesKnowThePast
<1> SUFFICES ASSUME NEW i \in DOMAIN matrix.rows, NEW b \in Xs!Reads(matrix.rows[i])
             PROVE  Xs!TimeOf(b) <= Xs!TimeOf(matrix.rows[i])
  BY DEF Xs!FeaturesKnowThePast, Xs!Rows
<1>1. PICK s \in Xs!Symbol : \E k \in 1 .. Count(s) : matrix.rows[i] = RowAt(s, k)
  <2>1. i \in 1 .. n
    BY DEF Pooled
  <2>2. \A j \in 1 .. n : \E s \in Xs!Symbol : \E k \in 1 .. Count(s) :
            /\ matrix.rows[j] = RowAt(s, k)
            /\ \A h \in Horizons : matrix.targets[h][j] = TargetAt(s, k, h)
    BY Zenon DEF Pooled
  <2>3. QED  BY <2>1, <2>2, Zenon
<1>2. matrix.rows[i] \in XsBar
  BY <1>1, ValidRows
<1>3. QED  BY <1>2, ReadsOfThePast

\* As many rows of a symbol as numbers.
LEMMA RowsCounted ==
    ASSUME closed \in Seq(SUBSET Xs!Symbol), NEW s \in Xs!Symbol,
           NEW k \in Nat, NEW l \in Nat, k <= l, l <= Count(s)
    PROVE  /\ IsFiniteSet({RowAt(s, j) : j \in k + 1 .. l})
           /\ Cardinality({RowAt(s, j) : j \in k + 1 .. l}) = l - k
<1> DEFINE I == k + 1 .. l
           R == {RowAt(s, j) : j \in I}
           f == [j \in I |-> RowAt(s, j)]
<1>1. IsFiniteSet(I) /\ Cardinality(I) = l - k
  <2> DEFINE a == k + 1
  <2>1. a \in Int /\ l \in Int /\ (a > l => l - k = 0) /\ (~ a > l => l - a + 1 = l - k)
    OBVIOUS
  <2> HIDE DEF a
  <2>2. IsFiniteSet(a .. l) /\ Cardinality(a .. l) = IF a > l THEN 0 ELSE l - a + 1
    BY <2>1, FS_Interval
  <2>3. QED  BY <2>1, <2>2 DEF a
<1>2. \A j \in I : j \in 1 .. Count(s)
  BY ValidRows
<1>3. \A i, j \in I : f[i] = f[j] => i = j
  BY <1>2, ValidRows
<1>4. f \in [I -> R] /\ \A x \in R : \E j \in I : f[j] = x
  OBVIOUS
<1> HIDE DEF I, R, f
<1>5. f \in Bijection(I, R)
  BY <1>3, <1>4 DEF Bijection, Injection, Surjection, IsInjective
<1>6. IsFiniteSet(R) /\ Cardinality(R) = Cardinality(I)
  BY <1>1, <1>5, FS_Bijection DEF ExistsBijection
<1>7. QED  BY <1>1, <1>6 DEF R, I

\* The rows of a symbol after a row of it.
LEMMA LaterRows ==
    ASSUME closed \in Seq(SUBSET Xs!Symbol), NEW n \in Nat, Pooled(matrix, n),
           NEW s \in Xs!Symbol, NEW k \in 1 .. Count(s)
    PROVE  {b \in Xs!ToSet(matrix.rows) : b[1] = s /\ b[2] > RowAt(s, k)[2]}
           = {RowAt(s, j) : j \in k + 1 .. Count(s)}
<1> DEFINE later == {b \in Xs!ToSet(matrix.rows) : b[1] = s /\ b[2] > RowAt(s, k)[2]}
           c == Count(s)
<1>0. c \in Nat /\ k \in Nat
  BY ValidRows
<1>1. Xs!ToSet(matrix.rows) = {matrix.rows[i] : i \in 1 .. n}
  BY DEF Xs!ToSet, Pooled
<1>2. ASSUME NEW b \in later PROVE \E j \in k + 1 .. c : b = RowAt(s, j)
  <2>1. PICK i \in 1 .. n : b = matrix.rows[i]
    BY <1>1
  <2>2. PICK t \in Xs!Symbol : \E j \in 1 .. Count(t) : matrix.rows[i] = RowAt(t, j)
    BY DEF Pooled
  <2>3. PICK j \in 1 .. Count(t) : b = RowAt(t, j)
    BY <2>1, <2>2
  <2>4. t = s
    BY <2>3, ValidRows
  <2>5. b = RowAt(s, j) /\ j \in 1 .. Count(s) /\ RowAt(s, j)[2] > RowAt(s, k)[2]
    BY <2>3, <2>4
  <2>6. RowAt(s, j)[2] \in Nat /\ RowAt(s, k)[2] \in Nat
    BY <2>5, ValidRows DEF XsBar
  <2>7. k < j
    BY <2>5, <2>6, ValidRows
  <2>8. j \in k + 1 .. c
    BY <1>0, <2>5, <2>7
  <2>9. QED  BY <2>5, <2>8
<1>3. ASSUME NEW j \in k + 1 .. c PROVE RowAt(s, j) \in later
  <2>1. j \in 1 .. Count(s) /\ k < j
    BY <1>0
  <2>2. PICK i \in 1 .. n : matrix.rows[i] = RowAt(s, j)
    BY <2>1 DEF Pooled
  <2>3. RowAt(s, j)[1] = s /\ RowAt(s, k)[2] < RowAt(s, j)[2]
    BY <2>1, ValidRows
  <2>4. RowAt(s, j)[2] \in Nat /\ RowAt(s, k)[2] \in Nat
    BY <2>1, ValidRows DEF XsBar
  <2>5. RowAt(s, j)[2] > RowAt(s, k)[2]
    BY <2>3, <2>4
  <2>6. QED  BY <1>1, <2>2, <2>3, <2>5
<1> HIDE DEF later
<1>4. \A b \in later : b \in {RowAt(s, j) : j \in k + 1 .. c}
  BY <1>2
<1>5. QED
  <2>1. \A b \in {RowAt(s, j) : j \in k + 1 .. c} : b \in later
    BY <1>3
  <2>2. later = {RowAt(s, j) : j \in k + 1 .. c}
    BY <1>4, <2>1
  <2>3. QED  BY <2>2 DEF later

\* The targets of a row are the next rows of its symbol.
LEMMA TargetsNext ==
    ASSUME closed \in Seq(SUBSET Xs!Symbol), NEW n \in Nat, Pooled(matrix, n),
           NEW s \in Xs!Symbol, NEW k \in 1 .. Count(s), NEW h \in Nat \ {0},
           NEW later, later = {b \in Xs!ToSet(matrix.rows) : b[1] = s /\ b[2] > RowAt(s, k)[2]}
    PROVE  IF Cardinality(later) < h THEN TargetAt(s, k, h) = Xs!NaN
           ELSE /\ TargetAt(s, k, h) \subseteq later
                /\ Cardinality(TargetAt(s, k, h)) = h
                /\ \A b \in TargetAt(s, k, h), c \in later \ TargetAt(s, k, h) : b[2] < c[2]
<1> DEFINE c == Count(s)
           t == k + h
<1>1. /\ c \in Nat /\ k \in Nat /\ k <= c /\ later = {RowAt(s, j) : j \in k + 1 .. c}
      /\ t \in Nat /\ k <= t /\ t - k = h
  BY ValidRows, LaterRows
<1>2. Cardinality(later) = c - k
  <2>1. Cardinality({RowAt(s, j) : j \in k + 1 .. c}) = c - k
    <3>1. Count(s) \in Nat /\ k \in Nat /\ k <= Count(s) /\ Count(s) <= Count(s)
      BY <1>1
    <3>2. Cardinality({RowAt(s, j) : j \in k + 1 .. Count(s)}) = Count(s) - k
      BY <3>1, RowsCounted
    <3>3. QED  BY <3>2
  <2> HIDE DEF c
  <2>2. QED  BY <1>1, <2>1
<1>3. CASE c < t
  <2>1. TargetAt(s, k, h) = Xs!NaN
    BY <1>1, <1>3 DEF TargetAt
  <2> HIDE DEF c
  <2>2. c - k < h
    BY <1>1, <1>3
  <2>3. QED  BY <1>2, <2>1, <2>2
<1>4. CASE t <= c
  <2>1. TargetAt(s, k, h) = {RowAt(s, j) : j \in k + 1 .. t}
    BY <1>4 DEF TargetAt
  <2>2. Cardinality(TargetAt(s, k, h)) = h
    <3>1. Cardinality({RowAt(s, j) : j \in k + 1 .. t}) = t - k
      <4> HIDE DEF t
      <4>1. QED  BY <1>1, <1>4, RowsCounted
    <3> HIDE DEF t
    <3>2. QED  BY <1>1, <2>1, <3>1
  <2>3. TargetAt(s, k, h) \subseteq later
    <3>1. \A j \in k + 1 .. t : j \in k + 1 .. c
      <4> HIDE DEF t, c
      <4>1. QED  BY <1>1, <1>4
    <3> HIDE DEF t, c
    <3>2. QED  BY <1>1, <2>1, <3>1
  <2>4. ASSUME NEW b \in TargetAt(s, k, h), NEW d \in later \ TargetAt(s, k, h)
        PROVE  b[2] < d[2]
    <3> HIDE DEF t, c
    <3>1. PICK i \in k + 1 .. t : b = RowAt(s, i)
      BY <2>1
    <3>2. PICK j \in k + 1 .. c : d = RowAt(s, j)
      BY <1>1
    <3>3. j \notin k + 1 .. t
      BY <2>1, <3>2
    <3>4. i < j /\ i \in 1 .. c /\ j \in 1 .. c
      BY <1>1, <1>4, <3>3
    <3>5. QED  BY <3>1, <3>2, <3>4, ValidRows DEF c
  <2>5. ~ c - k < h
    <3> HIDE DEF c
    <3>1. QED  BY <1>1, <1>4
  <2>6. QED  BY <1>2, <2>2, <2>3, <2>4, <2>5
<1>5. QED
  <2> HIDE DEF c, t
  <2>1. QED  BY <1>1, <1>3, <1>4

LEMMA PooledAligned ==
    ASSUME closed \in Seq(SUBSET Xs!Symbol), NEW n \in Nat, Pooled(matrix, n)
    PROVE  Xs!RowsAligned
<1> DEFINE later(i) == {b \in Xs!ToSet(matrix.rows) :
                            b[1] = matrix.rows[i][1] /\ b[2] > matrix.rows[i][2]}
           target(h, i) == matrix.targets[h][i]
<1> SUFFICES ASSUME NEW h \in Horizons, NEW i \in 1 .. n
             PROVE  IF Cardinality(later(i)) < h THEN target(h, i) = Xs!NaN
                    ELSE /\ target(h, i) \subseteq later(i)
                         /\ Cardinality(target(h, i)) = h
                         /\ \A b \in target(h, i), c \in later(i) \ target(h, i) : b[2] < c[2]
  <2>1. DOMAIN matrix.rows = 1 .. n
    BY DEF Pooled
  <2>2. QED  BY <2>1, XsCounts DEF Xs!RowsAligned, Xs!Rows, Xs!Target
<1>1. PICK s \in Xs!Symbol : \E k \in 1 .. Count(s) :
          /\ matrix.rows[i] = RowAt(s, k)
          /\ target(h, i) = TargetAt(s, k, h)
  <2>1. \A j \in 1 .. n : \E s \in Xs!Symbol : \E k \in 1 .. Count(s) :
            /\ matrix.rows[j] = RowAt(s, k)
            /\ \A g \in Horizons : matrix.targets[g][j] = TargetAt(s, k, g)
    BY Zenon DEF Pooled
  <2>2. QED  BY <2>1, Zenon
<1>2. PICK k \in 1 .. Count(s) : /\ matrix.rows[i] = RowAt(s, k)
                                 /\ target(h, i) = TargetAt(s, k, h)
  BY <1>1
<1>3. RowAt(s, k)[1] = s
  BY ValidRows
<1>4. later(i) = {b \in Xs!ToSet(matrix.rows) : b[1] = s /\ b[2] > RowAt(s, k)[2]}
  BY <1>2, <1>3
<1> HIDE DEF later, target
<1>5. h \in Nat \ {0}
  BY XsConstants
<1>6. QED  BY <1>2, <1>4, <1>5, TargetsNext

-----------------------------------------------------------------------------
(* The cross section: folds. *)

LEMMA HorizonsAre ==
    /\ Horizons \subseteq Nat \ {0} /\ Xs!Max(Horizons) \in Nat \ {0}
    /\ \A h \in Horizons : h <= Xs!Max(Horizons)
<1>1. Horizons \in SUBSET Nat /\ Horizons \subseteq Nat \ {0} /\ Horizons # {}
      /\ IsFiniteSet(Horizons)
  BY XsConstants
<1> DEFINE n == Cardinality(Horizons)
           top == Xs!Nth(Horizons, n)
<1>2. n \in Nat /\ n # 0
  BY <1>1, FS_CardinalityType, FS_EmptySet
<1>3. top \in Horizons /\ Cardinality(UpTo(Horizons, top)) = n
  BY <1>1, <1>2, NthIs
<1> HIDE DEF top
<1>4. UpTo(Horizons, top) = Horizons
  <2>1. UpTo(Horizons, top) \in SUBSET Horizons
    BY DEF UpTo
  <2>2. QED  BY <1>1, <1>3, <2>1, FS_Subset
<1>5. \A h \in Horizons : top >= h
  <2>1. \A h \in Horizons : h <= top
    BY <1>4 DEF UpTo
  <2>2. QED  BY <1>1, <1>3, <2>1
<1>6. Xs!Max(Horizons) \in Horizons /\ \A h \in Horizons : Xs!Max(Horizons) >= h
  BY <1>3, <1>5 DEF Xs!Max
<1>7. QED
  <2> DEFINE x == Xs!Max(Horizons)
  <2>1. x \in Horizons /\ \A h \in Horizons : x >= h
    BY <1>6
  <2> HIDE DEF x
  <2>2. x \in Nat \ {0} /\ \A h \in Horizons : h <= x
    BY <1>1, <2>1
  <2>3. QED  BY <1>1, <2>2 DEF x

LEMMA XsFolds ==
    ASSUME NEW n \in Nat, NEW k \in Xs!Folds, NEW gap \in Nat
    PROVE  \E block \in Nat :
               LET last == block * (k + 1)
               IN /\ block = n \div (NFolds + 1) /\ last \in Nat
                  /\ Xs!Fold(n, k, gap).train = 1 .. last
                  /\ \A i \in Xs!Fold(n, k, gap).test : i \in Nat /\ last + gap < i /\ i <= n
<1> DEFINE block == n \div (NFolds + 1)
           last == block * (k + 1)
           till == block * (k + 2)
           from == Xs!Min({last + gap, till})
           to == Xs!Min({till, n})
<1>1. NFolds \in Nat /\ NFolds + 1 \in Nat \ {0} /\ k \in Nat /\ k + 1 \in Nat /\ k + 2 \in Nat
  BY StraddleConstants DEF Xs!Folds
<1>2. block \in Nat
  BY <1>1, Division
<1>3. last \in Nat /\ till \in Nat
  <2> HIDE DEF block
  <2>1. QED  BY <1>1, <1>2, SMTT(30)
<1>4. /\ Xs!Fold(n, k, gap).train = 1 .. last
      /\ Xs!Fold(n, k, gap).test = from + 1 .. to
  BY DEF Xs!Fold
<1> HIDE DEF last, till
<1>5. /\ from = (IF last + gap <= till THEN last + gap ELSE till)
      /\ to = (IF till <= n THEN till ELSE n)
  BY <1>3, TwoLeast
<1> HIDE DEF from, to
<1>6. \A i \in from + 1 .. to : i \in Nat /\ last + gap < i /\ i <= n
  BY <1>3, <1>5
<1>7. QED
  <2> HIDE DEF block
  <2>1. \A i \in Xs!Fold(n, k, gap).test : i \in Nat /\ last + gap < i /\ i <= n
    BY <1>4, <1>6
  <2>2. QED  BY <1>2, <1>3, <1>4, <2>1 DEF last, block

\* The meta-labeler's rows were predicted by a model before them.
LEMMA MetaRowsBefore ==
    ASSUME NEW n \in Nat, Len(matrix.rows) = n
    PROVE  Xs!MetaOutOfSample
<1> DEFINE H == Xs!Max(Horizons)
           block == n \div (NFolds + 1)
           last(k) == block * (k + 1)
<1>1. H \in Nat /\ block \in Nat
  <2>1. NFolds + 1 \in Nat \ {0}
    BY StraddleConstants
  <2>2. QED  BY <2>1, HorizonsAre, Division
<1>2. ASSUME NEW k \in Xs!Folds
      PROVE  /\ k \in Nat /\ last(k) \in Nat
             /\ Xs!ModelFold(k).train = 1 .. last(k) /\ Xs!MetaFold(k).train = 1 .. last(k)
             /\ \A i \in Xs!ModelFold(k).test : i \in Nat /\ last(k) < i
             /\ \A i \in Xs!MetaFold(k).test : i \in Nat /\ last(k) < i
  <2>1. /\ Xs!ModelFold(k) = Xs!Fold(n, k, H) /\ Xs!MetaFold(k) = Xs!Fold(n, k, 0)
    BY DEF Xs!ModelFold, Xs!MetaFold, Xs!Rows
  <2>2. k \in Nat
    BY StraddleConstants DEF Xs!Folds
  <2> HIDE DEF H
  <2>3. /\ last(k) \in Nat /\ Xs!Fold(n, k, H).train = 1 .. last(k)
        /\ \A i \in Xs!Fold(n, k, H).test : i \in Nat /\ last(k) + H < i
    <3>1. PICK b \in Nat :
              LET to == b * (k + 1)
              IN /\ b = n \div (NFolds + 1) /\ to \in Nat
                 /\ Xs!Fold(n, k, H).train = 1 .. to
                 /\ \A i \in Xs!Fold(n, k, H).test : i \in Nat /\ to + H < i /\ i <= n
      BY <1>1, XsFolds
    <3>2. QED  BY <3>1
  <2>4. /\ Xs!Fold(n, k, 0).train = 1 .. last(k)
        /\ \A i \in Xs!Fold(n, k, 0).test : i \in Nat /\ last(k) + 0 < i
    <3>1. PICK b \in Nat :
              LET to == b * (k + 1)
              IN /\ b = n \div (NFolds + 1) /\ to \in Nat
                 /\ Xs!Fold(n, k, 0).train = 1 .. to
                 /\ \A i \in Xs!Fold(n, k, 0).test : i \in Nat /\ to + 0 < i /\ i <= n
      BY XsFolds
    <3>2. QED  BY <3>1
  <2> HIDE DEF last
  <2>5. \A i \in Nat : (last(k) + H < i => last(k) < i) /\ (last(k) + 0 < i => last(k) < i)
    BY <1>1, <2>3
  <2>6. QED  BY <2>1, <2>2, <2>3, <2>4, <2>5
<1>3. ASSUME NEW k \in Xs!Folds, NEW l \in Xs!Folds, last(l) < last(k)
      PROVE  l < k
  <2>1. k \in Nat /\ l \in Nat
    BY <1>2
  <2>2. CASE l = k
    BY <1>2, <1>3, <2>2
  <2>3. CASE k < l
    <3> HIDE DEF block
    <3>1. block = 0 \/ block \in Nat \ {0}
      BY <1>1
    <3>2. block * (k + 1) <= block * (l + 1)
      BY <1>1, <2>1, <2>3, SMTT(30)
    <3> DEFINE a == last(k)
               b == last(l)
    <3>3. a \in Nat /\ b \in Nat /\ b < a /\ a <= b
      BY <1>2, <1>3, <3>2
    <3> HIDE DEF a, b
    <3>4. QED  BY <3>3
  <2>4. QED  BY <2>1, <2>2, <2>3
<1> HIDE DEF last, H, block
<1> SUFFICES ASSUME NEW k \in Xs!Folds, NEW j \in Xs!MetaTrained(k)
             PROVE  /\ j \notin Xs!MetaFold(k).test
                    /\ \E l \in Xs!Folds :
                           l < k /\ j \in Xs!ModelFold(l).test /\ j \notin Xs!ModelFold(l).train
  BY DEF Xs!MetaOutOfSample
<1>4. j \in Xs!MetaFold(k).train /\ j \in Xs!Predicted
  BY DEF Xs!MetaTrained
<1>5. PICK l \in Xs!Folds : j \in Xs!ModelFold(l).test
  BY <1>4 DEF Xs!Predicted
<1> DEFINE a == last(k)
           b == last(l)
<1>6. /\ a \in Nat /\ b \in Nat /\ j \in 1 .. a /\ j \in Nat /\ b < j
      /\ Xs!ModelFold(l).train = 1 .. b
      /\ \A i \in Xs!MetaFold(k).test : i \in Nat /\ a < i
  BY <1>2, <1>4, <1>5
<1> HIDE DEF a, b
<1>7. b < a /\ j \notin 1 .. b /\ ~ a < j
  BY <1>6
<1>8. l < k
  BY <1>3, <1>7 DEF a, b
<1>9. QED  BY <1>5, <1>6, <1>7, <1>8

\* Rows of one symbol between a row and a later time: as many as their bars.
LEMMA HeldRows ==
    ASSUME closed \in Seq(SUBSET Xs!Symbol), NEW n \in Nat, Pooled(matrix, n),
           NEW s \in Xs!Symbol, NEW q \in 1 .. Count(s), NEW x \in 1 .. Count(s), q < x,
           NEW j \in 1 .. n, matrix.rows[j] = RowAt(s, q),
           NEW held \in SUBSET (1 .. n),
           \A p \in held : /\ j < p /\ matrix.rows[p][1] = s
                           /\ Xs!TimeOf(matrix.rows[p]) < Xs!TimeOf(RowAt(s, x))
    PROVE  IsFiniteSet(held) /\ Cardinality(held) <= x - 1 - q
<1> DEFINE I == q + 1 .. x - 1
           f == [p \in held |-> CHOOSE y \in I : matrix.rows[p] = RowAt(s, y)]
<1>1. Count(s) \in Nat /\ q \in Nat /\ x \in Nat
  BY ValidRows
<1>2. ASSUME NEW p \in held
      PROVE  \E y \in I : matrix.rows[p] = RowAt(s, y)
  <2>1. p \in 1 .. n /\ j < p
    OBVIOUS
  <2>2. PICK t \in Xs!Symbol : \E y \in 1 .. Count(t) : matrix.rows[p] = RowAt(t, y)
    BY <2>1 DEF Pooled
  <2>3. PICK y \in 1 .. Count(t) : matrix.rows[p] = RowAt(t, y)
    BY <2>2
  <2>4. t = s
    BY <2>3, ValidRows
  <2>5. y \in 1 .. Count(s) /\ matrix.rows[p] = RowAt(s, y)
    BY <2>3, <2>4
  <2>6. /\ RowAt(s, q) \in XsBar /\ RowAt(s, x) \in XsBar /\ RowAt(s, y) \in XsBar
        /\ RowAt(s, q)[1] = s /\ RowAt(s, x)[1] = s /\ RowAt(s, y)[1] = s
    BY <2>5, ValidRows
  <2>7. y < x
    <3>1. Xs!TimeOf(RowAt(s, y)) < Xs!TimeOf(RowAt(s, x))
      BY <2>5
    <3>2. RowAt(s, y)[2] < RowAt(s, x)[2]
      BY <2>6, <3>1, TimesOrdered
    <3>3. QED  BY <2>5, <3>2, ValidRows
  <2>8. q # y
    <3>1. matrix.rows[p] # matrix.rows[j]
      <4>1. p # j /\ p \in 1 .. n /\ j \in 1 .. n
        BY <2>1
      <4>2. QED  BY <4>1 DEF Pooled
    <3>2. QED  BY <2>5, <3>1
  <2>9. ~ y < q
    <3>1. y < q => RowAt(s, y)[2] < RowAt(s, q)[2]
      BY <2>5, ValidRows
    <3>2. y < q => Xs!TimeOf(RowAt(s, y)) < Xs!TimeOf(RowAt(s, q))
      BY <2>6, <3>1, TimesOrdered
    <3>3. Xs!TimeOf(RowAt(s, q)) <= Xs!TimeOf(RowAt(s, y))
      BY <2>1, <2>5 DEF Pooled
    <3>4. Xs!TimeOf(RowAt(s, q)) \in Nat /\ Xs!TimeOf(RowAt(s, y)) \in Nat
      BY <2>6, TimeOfBar
    <3>5. QED  BY <3>2, <3>3, <3>4
  <2>10. y \in I
    BY <1>1, <2>5, <2>7, <2>8, <2>9
  <2>11. QED  BY <2>5, <2>10
<1>3. \A p \in held : f[p] \in I /\ matrix.rows[p] = RowAt(s, f[p])
  BY <1>2
<1>4. f \in [held -> I]
  BY <1>3
<1> HIDE DEF f, I
<1>5. \A p, r \in held : f[p] = f[r] => p = r
  <2>1. \A p, r \in held : f[p] = f[r] => matrix.rows[p] = matrix.rows[r]
    BY <1>3
  <2>2. QED  BY <2>1 DEF Pooled
<1>6. f \in Injection(held, I)
  BY <1>4, <1>5 DEF Injection, IsInjective
<1>7. IsFiniteSet(I) /\ Cardinality(I) = x - 1 - q
  <2> DEFINE a == q + 1
             b == x - 1
  <2>1. /\ a \in Int /\ b \in Int /\ (a > b => x - 1 - q = 0)
        /\ (~ a > b => b - a + 1 = x - 1 - q)
    BY <1>1
  <2>2. I = a .. b
    BY DEF I
  <2> HIDE DEF a, b
  <2>3. IsFiniteSet(a .. b) /\ Cardinality(a .. b) = IF a > b THEN 0 ELSE b - a + 1
    BY <2>1, FS_Interval
  <2>4. QED  BY <2>1, <2>2, <2>3
<1>8. IsFiniteSet(held) /\ Cardinality(held) <= Cardinality(I)
  BY <1>6, <1>7, FS_Injection
<1>9. QED  BY <1>7, <1>8

\* A target that is there has closed before the rows of the test.
LEMMA PooledEmbargo ==
    ASSUME closed \in Seq(SUBSET Xs!Symbol), NEW n \in Nat, Pooled(matrix, n)
    PROVE  Xs!EmbargoHolds
<1> DEFINE H == Xs!Max(Horizons)
           size(k) == Cardinality(Xs!ModelFold(k).train)
           held(k, s) == {i \in size(k) + 1 .. size(k) + H :
                              i \in DOMAIN matrix.rows /\ matrix.rows[i][1] = s}
<1> SUFFICES ASSUME NEW k \in Xs!Folds, NEW h \in Horizons,
                    NEW j \in Xs!Trained(k, h), NEW i \in Xs!ModelFold(k).test,
                    Cardinality(held(k, matrix.rows[j][1])) >= h,
                    NEW b \in matrix.targets[h][j]
             PROVE  Xs!TimeOf(b) <= Xs!TimeOf(matrix.rows[i])
  BY XsCounts DEF Xs!EmbargoHolds, Xs!Rows, Xs!Target
<1>1. H \in Nat /\ h \in Nat \ {0} /\ DOMAIN matrix.rows = 1 .. n
  BY HorizonsAre DEF Pooled
<1>2. Len(matrix.rows) = n /\ k \in Nat
  BY StraddleConstants DEF Pooled, Xs!Folds
<1>3. PICK last \in Nat :
          /\ Xs!ModelFold(k).train = 1 .. last
          /\ \A x \in Xs!ModelFold(k).test : x \in Nat /\ last + H < x /\ x <= n
  <2>1. Xs!ModelFold(k) = Xs!Fold(n, k, H)
    BY <1>2 DEF Xs!ModelFold, Xs!Rows
  <2> HIDE DEF H
  <2>2. PICK block \in Nat :
            LET to == block * (k + 1)
            IN /\ to \in Nat /\ Xs!Fold(n, k, H).train = 1 .. to
               /\ \A x \in Xs!Fold(n, k, H).test : x \in Nat /\ to + H < x /\ x <= n
    BY <1>1, XsFolds
  <2>3. QED  BY <2>1, <2>2
<1>4. /\ i \in Nat /\ last + H < i /\ i <= n
      /\ j \in 1 .. last /\ matrix.targets[h][j] # {}
  BY <1>3 DEF Xs!Trained, Xs!NaN, Xs!Target
<1>5. size(k) = last
  <2>1. IsFiniteSet(1 .. last) /\ Cardinality(1 .. last) = last
    BY FS_Interval
  <2>2. QED  BY <1>3, <2>1
<1> DEFINE all == matrix.rows
           s0 == all[j][1]
           hold == held(k, s0)
<1>6. /\ hold = {p \in last + 1 .. last + H : p \in 1 .. n /\ all[p][1] = s0}
      /\ Cardinality(hold) >= h
  BY <1>1, <1>5
<1> HIDE DEF H, size, held, hold
<1>7. /\ i \in 1 .. n /\ j \in 1 .. n
      /\ \A p \in hold : p \in 1 .. n /\ j < p /\ p < i /\ all[p][1] = s0
  BY <1>1, <1>4, <1>6
<1>8. PICK s \in Xs!Symbol : \E q \in 1 .. Count(s) :
          /\ matrix.rows[j] = RowAt(s, q)
          /\ \A g \in Horizons : matrix.targets[g][j] = TargetAt(s, q, g)
  BY <1>7 DEF Pooled
<1>9. PICK q \in 1 .. Count(s) :
          /\ matrix.rows[j] = RowAt(s, q)
          /\ \A g \in Horizons : matrix.targets[g][j] = TargetAt(s, q, g)
  BY <1>8
<1>10. b \in TargetAt(s, q, h) /\ s0 = s
  BY <1>9, ValidRows
<1>11. Count(s) \in Nat /\ q \in Nat
  BY ValidRows
<1>12. q + h <= Count(s) /\ \E x \in q + 1 .. q + h : b = RowAt(s, x)
  <2>1. TargetAt(s, q, h) = IF q + h <= Count(s) THEN {RowAt(s, x) : x \in q + 1 .. q + h} ELSE {}
    BY DEF TargetAt, Xs!NaN
  <2>2. CASE q + h <= Count(s)
    BY <1>10, <2>1, <2>2
  <2>3. QED  BY <1>10, <2>1, <2>2
<1>13. PICK x \in q + 1 .. q + h : b = RowAt(s, x)
  BY <1>12
<1>14. /\ x \in 1 .. Count(s) /\ q < x /\ x <= q + h /\ x \in Nat
  BY <1>1, <1>11, <1>12, <1>13
<1>15. \A p \in 1 .. n : all[p] \in XsBar
  <2> SUFFICES ASSUME NEW p \in 1 .. n
               PROVE  all[p] \in XsBar
    OBVIOUS
  <2>1. PICK t \in Xs!Symbol : \E y \in 1 .. Count(t) : matrix.rows[p] = RowAt(t, y)
    BY DEF Pooled
  <2>2. QED  BY <2>1, ValidRows
<1>16. RowAt(s, x) \in XsBar
  BY <1>14, ValidRows
<1> SUFFICES ASSUME ~ Xs!TimeOf(b) <= Xs!TimeOf(all[i])
             PROVE  FALSE
  OBVIOUS
<1>17. \A p \in hold : Xs!TimeOf(all[p]) < Xs!TimeOf(RowAt(s, x))
  <2> SUFFICES ASSUME NEW p \in hold
               PROVE  Xs!TimeOf(all[p]) < Xs!TimeOf(RowAt(s, x))
    OBVIOUS
  <2>1. Xs!TimeOf(all[p]) <= Xs!TimeOf(all[i])
    BY <1>7 DEF Pooled
  <2>2. /\ Xs!TimeOf(all[p]) \in Nat /\ Xs!TimeOf(all[i]) \in Nat
        /\ Xs!TimeOf(RowAt(s, x)) \in Nat
    BY <1>7, <1>15, <1>16, TimeOfBar
  <2>3. QED  BY <1>13, <2>1, <2>2
<1>18. IsFiniteSet(hold) /\ Cardinality(hold) <= x - 1 - q
  <2>1. hold \in SUBSET (1 .. n)
    BY <1>7
  <2>2. \A p \in hold : /\ j < p /\ matrix.rows[p][1] = s
                        /\ Xs!TimeOf(matrix.rows[p]) < Xs!TimeOf(RowAt(s, x))
    BY <1>7, <1>10, <1>17
  <2>3. QED  BY <1>7, <1>9, <1>14, <2>1, <2>2, HeldRows
<1>19. Cardinality(hold) \in Nat
  BY <1>18, FS_CardinalityType
<1>20. QED  BY <1>1, <1>6, <1>11, <1>14, <1>18, <1>19

-----------------------------------------------------------------------------
(* The cross section: the pipeline. *)

\* Before the pipeline has run there is no row.
LEMMA NoRows ==
    ASSUME matrix = Xs!None
    PROVE  Xs!RowsFollowThePast
<1>1. matrix.rows = <<>> /\ DOMAIN matrix.rows = {} /\ Len(matrix.rows) = 0
  BY DEF Xs!None
<1>2. Xs!FeaturesKnowThePast /\ Xs!RowsAligned
  BY <1>1 DEF Xs!FeaturesKnowThePast, Xs!RowsAligned, Xs!Rows
<1>3. Xs!MetaOutOfSample
  BY <1>1, MetaRowsBefore
<1>4. ASSUME NEW k \in Xs!Folds
      PROVE  Xs!ModelFold(k).test = {}
  <2> DEFINE H == Xs!Max(Horizons)
  <2>1. Xs!ModelFold(k) = Xs!Fold(0, k, H) /\ H \in Nat
    BY <1>1, HorizonsAre DEF Xs!ModelFold, Xs!Rows
  <2> HIDE DEF H
  <2>2. PICK block \in Nat :
            LET to == block * (k + 1)
            IN /\ to \in Nat
               /\ \A x \in Xs!Fold(0, k, H).test : x \in Nat /\ to + H < x /\ x <= 0
    BY <2>1, XsFolds
  <2>3. QED  BY <2>1, <2>2
<1>5. Xs!EmbargoHolds
  BY <1>4 DEF Xs!EmbargoHolds
<1>6. QED  BY <1>2, <1>3, <1>5 DEF Xs!RowsFollowThePast

LEMMA PooledHolds ==
    ASSUME closed \in Seq(SUBSET Xs!Symbol), matrix = Xs!Matrix
    PROVE  Xs!RowsFollowThePast
<1>1. PICK n \in Nat : Pooled(matrix, n)
  BY MatrixIs
<1>2. Len(matrix.rows) = n
  BY <1>1 DEF Pooled
<1>3. QED  BY <1>1, <1>2, PooledFeatures, PooledAligned, PooledEmbargo, MetaRowsBefore
           DEF Xs!RowsFollowThePast

\* The matrix is a function of the bars that have closed.
LEMMA MatrixStays ==
    ASSUME closed' = closed, flats' = flats
    PROVE  Xs!Matrix' = Xs!Matrix
<1>1. \A s : Xs!Times(s)' = Xs!Times(s)
  BY DEF Xs!Times
<1>2. \A b : Xs!TimeOf(b)' = Xs!TimeOf(b)
  BY <1>1 DEF Xs!TimeOf
<1>3. \A p, t : Xs!AsOf(p, t)' = Xs!AsOf(p, t)
  BY <1>1 DEF Xs!AsOf
<1>4. \A b : Xs!Cross(b)' = Xs!Cross(b)
  BY <1>2, <1>3 DEF Xs!Cross
<1>5. \A s : Xs!Bars(s)' = Xs!Bars(s)
  BY <1>1 DEF Xs!Bars
<1>6. Xs!RefSym' = Xs!RefSym
  BY <1>5 DEF Xs!RefSym
<1>7. \A b : Xs!RefBar(b)' = Xs!RefBar(b)
  BY <1>2, <1>3, <1>6 DEF Xs!RefBar
<1>8. \A b : Xs!RefWindow(b)' = Xs!RefWindow(b)
  BY <1>7 DEF Xs!RefWindow
<1>9. \A b : Xs!PairCorrDefined(b)' = Xs!PairCorrDefined(b)
  BY <1>4, <1>7, <1>8 DEF Xs!PairCorrDefined
<1>10. \A b : Xs!Valid(b)' = Xs!Valid(b)
  BY <1>4, <1>9 DEF Xs!Valid
<1>11. \A s : Xs!Kept(s)' = Xs!Kept(s)
  BY <1>5, <1>10 DEF Xs!Kept
<1>12. QED  BY <1>2, <1>11 DEF Xs!Matrix

XsInv ==
    /\ closed \in Seq(SUBSET Xs!Symbol)
    /\ matrix = Xs!None \/ matrix = Xs!Matrix

LEMMA XsStep ==
    ASSUME XsInv, Xs!Next \/ UNCHANGED xsVars
    PROVE  XsInv'
<1>1. closed' \in Seq(SUBSET Xs!Symbol)
  <2>1. CASE UNCHANGED closed
    BY <2>1 DEF XsInv, Xs!Symbol
  <2>2. CASE \E s \in SUBSET Xs!Symbol : closed' = Append(closed, s)
    BY <2>2 DEF XsInv, Xs!Symbol
  <2>3. QED  BY <2>1, <2>2 DEF Xs!Next, Xs!CloseBars, Xs!RunPipeline, xsVars
<1>2. Xs!None' = Xs!None
  BY DEF Xs!None
<1>3. CASE \E s \in SUBSET Xs!Symbol \ {{}} : \E f \in SUBSET s : Xs!CloseBars(s, f)
  <2>1. matrix' = Xs!None
    BY <1>3 DEF Xs!CloseBars
  <2>2. QED  BY <1>1, <1>2, <2>1 DEF XsInv, Xs!Symbol
<1>4. CASE Xs!RunPipeline
  <2>1. matrix' = Xs!Matrix /\ UNCHANGED <<closed, flats>>
    BY <1>4 DEF Xs!RunPipeline
  <2>2. matrix' = Xs!Matrix'
    BY <2>1, MatrixStays
  <2>3. QED  BY <1>1, <2>2 DEF XsInv, Xs!Symbol
<1>5. CASE UNCHANGED xsVars
  <2>1. matrix' = matrix /\ UNCHANGED <<closed, flats>>
    BY <1>5 DEF xsVars
  <2>2. Xs!Matrix' = Xs!Matrix
    BY <2>1, MatrixStays
  <2>3. QED  BY <1>1, <1>2, <2>1, <2>2 DEF XsInv, Xs!Symbol
<1>6. QED  BY <1>3, <1>4, <1>5 DEF Xs!Next

StudyXs == study = "xs" => XsInv

\* run_pipeline: a row of the pooled matrix knows nothing of what closes after
\* it, its targets are its symbol's next rows after filters, stacking and sort,
\* and the folds of model and meta-labeler keep them apart, as far as an embargo
\* counted in pooled rows does.
THEOREM XsKnowsThePast == StudySpec => []XsFollowsThePast
<1>1. StudyInit => StudyXs
  BY DEF StudyInit, StudyXs, XsInv, Xs!Init
<1>2. StudyXs /\ [StudyNext]_studyVars => StudyXs'
  <2> SUFFICES ASSUME StudyXs, [StudyNext]_studyVars, study' = "xs"
               PROVE  XsInv'
    BY DEF StudyXs
  <2>1. study = "xs" /\ (Xs!Next \/ UNCHANGED xsVars)
    BY DEF StudyNext, studyVars
  <2>2. QED  BY <2>1, XsStep DEF StudyXs
<1>3. StudyXs => XsFollowsThePast
  BY NoRows, PooledHolds DEF StudyXs, XsInv, XsFollowsThePast
<1>4. QED  BY <1>1, <1>2, <1>3, PTL DEF StudySpec
=============================================================================
