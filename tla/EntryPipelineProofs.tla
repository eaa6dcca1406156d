------------------------- MODULE EntryPipelineProofs -------------------------
(* Proofs about EntryPipeline.tla. *)
EXTENDS EntryPipeline, SequenceTheorems, TLAPS

\* Scan and order: the order comes after the scan entered, the reports of the
\* broker after the order.
OrderShape(e) ==
    /\ scan[e] \in {"none", "watching", "dropped"} =>
         order[e] = "none" /\ <<"OPEN", e>> \notin req.out \union inbox
    /\ <<"OPEN", e>> \in req.out \union inbox =>
         order[e] = "none" /\ scan[e] \in {"entered", "exited", "forgotten"}
    /\ <<"fill", e>> \in reports => order[e] \in {"filled", "closed"}
    /\ <<"close", e>> \in reports => order[e] = "closed"
    /\ trade[e] # "none" => order[e] \in {"filled", "closed"}

\* Reservation, position and trade.
CapitalShape(e) ==
    /\ bound[e] \in {Null, e}
    /\ bound[e] = e => resv[e] \notin {"ABSENT", "PENDING"}
    /\ resv[e] = "OPEN" =>
         /\ bound[e] = e /\ order[e] \in {"filled", "closed"}
         /\ trade[e] = "OPEN" \/ e \in torn
    /\ scan[e] # "none" => resv[e] # "ABSENT"
    /\ resv[e] # "CLOSED"
    /\ scan[e] \in ActiveScan /\ resv[e] = "RELEASED" =>
         /\ order[e] = "closed" /\ trade[e] # "OPEN"
         /\ <<"fill", e>> \notin reports
    /\ trade[e] = "OPEN" /\ scan[e] = "entered" /\ e \notin stray \union torn =>
         resv[e] \in {"OPEN", "EXPIRED"}

\* What the request in progress knows of the entry.
RequestShape(e) ==
    /\ scan[e] \in {"none", "watching"} => told[e] = <<>>
    /\ scan[e] = "entered" => told[e] \in {<<>>, <<"OPEN_MARKET">>}
    /\ e \in req.chosen => resv[e] = "PENDING" /\ scan[e] = "none"
    /\ req.phase = "bars" /\ e \in req.rows => scan[e] = "dropped"

Shape(e) == OrderShape(e) /\ CapitalShape(e) /\ RequestShape(e)

\* The worker waits for its response; step 4 is over when step 5 selects.
PhaseShape ==
    /\ req.phase # "idle" => inbox = {}
    /\ req.phase = "select" /\ req.chosen # {} => req.rows = {}

IInv == TypeOK /\ PhaseShape /\ \A e \in Entry : Shape(e)

-----------------------------------------------------------------------------
(* Facts used by every action. *)

\* What does not concern an entry keeps its shape.
LEMMA Frame ==
    ASSUME NEW e \in Entry, Shape(e),
           resv'[e] = resv[e], bound'[e] = bound[e], scan'[e] = scan[e],
           told'[e] = told[e], order'[e] = order[e], trade'[e] = trade[e],
           e \in stray => e \in stray', e \in torn => e \in torn',
           e \in req'.chosen => e \in req.chosen,
           req'.phase = "bars" /\ e \in req'.rows =>
               req.phase = "bars" /\ e \in req.rows,
           <<"OPEN", e>> \in req'.out \union inbox' =>
               <<"OPEN", e>> \in req.out \union inbox,
           <<"fill", e>> \in reports' => <<"fill", e>> \in reports,
           <<"close", e>> \in reports' => <<"close", e>> \in reports
    PROVE  Shape(e)'
<1>1. OrderShape(e)'
  BY DEF Shape, OrderShape
<1>2. CapitalShape(e)'
  BY DEF Shape, CapitalShape
<1>3. RequestShape(e)'
  BY DEF Shape, RequestShape
<1> QED BY <1>1, <1>2, <1>3 DEF Shape

LEMMA MoveEffect ==
    ASSUME TypeOK, NEW e \in Entry, NEW t \in {"EXPIRED", "RELEASED"},
           Ledger!Move(e, t)
    PROVE  /\ resv' = [resv EXCEPT ![e] = t] /\ bound' = bound
           /\ Ledger!TypeOK'
           /\ resv[e] \in Ledger!ActiveStates
           /\ t = "EXPIRED" => resv[e] = "PENDING"
BY DEF TypeOK, Ledger!TypeOK, Ledger!Move, Ledger!ValidTargets,
       Ledger!ActiveStates, Ledger!RowState, Ledger!ReservationState,
       Ledger!TerminalStates

\* The histories of actions that occur.
LEMMA Stories ==
    /\ \A x : Append(<<>>, x) = <<x>>
    /\ Append(<<"OPEN_MARKET">>, "CLOSE_MARKET")
         = <<"OPEN_MARKET", "CLOSE_MARKET">>
<1> DEFINE o == <<"OPEN_MARKET">>  oc == <<"OPEN_MARKET", "CLOSE_MARKET">>
           A == {"OPEN_MARKET", "CLOSE_MARKET"}
<1>1. o \in Seq(A) /\ oc \in Seq(A) /\ Append(o, "CLOSE_MARKET") \in Seq(A)
  OBVIOUS
<1>2. Len(Append(o, "CLOSE_MARKET")) = 2 /\ Len(oc) = 2
  BY <1>1
<1>3. \A i \in 1..2 : Append(o, "CLOSE_MARKET")[i] = oc[i]
  BY <1>1
<1>4. Append(o, "CLOSE_MARKET") = oc
  BY <1>1, <1>2, <1>3, SeqEqual
<1>5. \A x : Append(<<>>, x) = <<x>>
  OBVIOUS
<1> QED BY <1>4, <1>5

LEMMA InitInv == Init => IInv
<1> SUFFICES ASSUME Init PROVE IInv
  OBVIOUS
<1>0. Null \notin Entry /\ MaxBars \in Nat /\ MaxFaults \in Nat
  BY PipelineConstants
<1>1. TypeOK
  <2>1. Ledger!TypeOK
    BY DEF Init, Ledger!Init, Ledger!TypeOK, Ledger!RowState
  <2>2. req \in Request
    BY <1>0 DEF Init, Request
  <2> QED BY <2>1, <2>2, <1>0 DEF Init, TypeOK, Scans!Stage
<1>2. PhaseShape
  BY DEF Init, PhaseShape
<1>3. \A e \in Entry : Shape(e)
  BY <1>0 DEF Init, Ledger!Init, Shape, OrderShape, CapitalShape, RequestShape, ActiveScan
<1> QED BY <1>1, <1>2, <1>3 DEF IInv

-----------------------------------------------------------------------------
(* /predict *)

LEMMA StartPredictInv ==
    ASSUME IInv, StartPredict
    PROVE  IInv'
<1> USE PipelineConstants
<1>1. PICK n \in 1..MaxBars :
        req' = [Idle EXCEPT !.phase = "select", !.bars = n,
                            !.rows = Pending \intersect old]
  BY DEF StartPredict
<1>2. /\ req'.phase = "select" /\ req'.bars = n /\ req'.chosen = {}
      /\ req'.out = {} /\ req' \in Request
  <2>1. n \in 0..MaxBars
    BY <1>1
  <2>2. Pending \intersect old \subseteq Entry
    BY DEF Pending
  <2> QED BY <1>1, <2>1, <2>2 DEF Idle, Request
<1>3. UNCHANGED <<resv, bound, scan, told, trade, inbox, order, stray, closing,
                  reports, old, torn, faults>> /\ inbox = {}
  BY DEF StartPredict, tables, client
<1>4. TypeOK'
  BY <1>2, <1>3 DEF IInv, TypeOK, Ledger!TypeOK
<1>5. PhaseShape'
  BY <1>2, <1>3 DEF PhaseShape
<1>6. ASSUME NEW q \in Entry PROVE Shape(q)'
  BY <1>2, <1>3, Frame DEF IInv
<1> QED BY <1>4, <1>5, <1>6 DEF IInv

LEMMA ExpireRowInv ==
    ASSUME IInv, NEW e \in Entry, ExpireRow(e)
    PROVE  IInv'
<1>1. /\ resv' = [resv EXCEPT ![e] = "EXPIRED"] /\ bound' = bound
      /\ Ledger!TypeOK' /\ resv[e] = "PENDING"
  BY MoveEffect DEF ExpireRow, IInv
<1>2. /\ req' = [req EXCEPT !.rows = @ \ {e}] /\ req.phase = "select"
      /\ e \in req.rows
      /\ UNCHANGED <<old, scan, told, trade, inbox, order, stray, closing,
                     reports, torn, faults>>
  BY DEF ExpireRow, client
<1>3. /\ req' \in Request /\ req'.phase = "select" /\ req'.chosen = req.chosen
      /\ req'.out = req.out /\ req'.rows = req.rows \ {e} /\ req.chosen = {}
  BY <1>2 DEF IInv, TypeOK, PhaseShape, Request
<1>4. TypeOK'
  BY <1>1, <1>2, <1>3 DEF IInv, TypeOK
<1>5. PhaseShape'
  BY <1>2, <1>3 DEF IInv, PhaseShape
<1>6. Shape(e)'
  <2>1. resv'[e] = "EXPIRED"
    BY <1>1 DEF IInv, TypeOK, Ledger!TypeOK
  <2> QED BY <1>1, <1>2, <1>3, <2>1
          DEF IInv, Shape, OrderShape, CapitalShape, RequestShape
<1>7. ASSUME NEW q \in Entry, q # e PROVE Shape(q)'
  <2>1. resv'[q] = resv[q]
    BY <1>1, <1>7 DEF IInv, TypeOK, Ledger!TypeOK
  <2> QED BY <1>1, <1>2, <1>3, <1>7, <2>1, Frame DEF IInv
<1> QED BY <1>4, <1>5, <1>6, <1>7 DEF IInv

LEMMA SelectInv ==
    ASSUME IInv, NEW e \in Entry, Select(e)
    PROVE  IInv'
<1>1. /\ resv[e] = "ABSENT" /\ resv'[e] = "PENDING" /\ bound' = bound
      /\ \A q \in Entry : q # e => resv'[q] = resv[q]
      /\ Ledger!TypeOK'
  BY DEF Select, Ledger!Create, Ledger!InitialStates, IInv, TypeOK, Ledger!TypeOK,
         Ledger!RowState, Ledger!ReservationState, Ledger!ActiveStates
<1>2. /\ req' = [req EXCEPT !.chosen = @ \union {e}]
      /\ req.phase = "select" /\ req.rows = {}
      /\ UNCHANGED <<old, scan, told, trade, inbox, order, stray, closing,
                     reports, torn, faults>>
  BY DEF Select, client
<1>3. /\ req' \in Request /\ req'.phase = "select" /\ req'.rows = {}
      /\ req'.out = req.out /\ req'.chosen = req.chosen \union {e}
  BY <1>2 DEF IInv, TypeOK, Request
<1>4. TypeOK'
  BY <1>1, <1>2, <1>3 DEF IInv, TypeOK
<1>5. PhaseShape'
  BY <1>2, <1>3 DEF IInv, PhaseShape
<1>6. Shape(e)'
  BY <1>1, <1>2, <1>3
     DEF IInv, Shape, OrderShape, CapitalShape, RequestShape, ActiveScan
<1>7. ASSUME NEW q \in Entry, q # e PROVE Shape(q)'
  BY <1>1, <1>2, <1>3, <1>7, Frame DEF IInv
<1> QED BY <1>4, <1>5, <1>6, <1>7 DEF IInv

\* What a bar may do: enter or drop watched scans, end entered ones.
BarSets(in, out, done) ==
    /\ in \subseteq Scans!Watching /\ out \subseteq Scans!Watching \ in
    /\ done \subseteq Scans!Entered

\* One bar moves the scans of its three sets, and no other.
LEMMA AdvanceEffect ==
    ASSUME TypeOK, NEW in, NEW out, NEW done,
           BarSets(in, out, done), Scans!Advance(in, out, done)
    PROVE  /\ scan' \in [Entry -> Scans!Stage]
           /\ in \subseteq Entry /\ out \subseteq Entry /\ done \subseteq Entry
           /\ \A e \in in : scan[e] = "watching" /\ scan'[e] = "entered"
           /\ \A e \in out : scan[e] = "watching" /\ scan'[e] = "dropped"
           /\ \A e \in done : scan[e] = "entered" /\ scan'[e] = "exited"
           /\ \A e \in Entry : e \notin in \union out \union done =>
                                 scan'[e] = scan[e]
           /\ \A e \in out : e \notin in
           /\ \A e \in done : e \notin in /\ e \notin out
BY DEF TypeOK, BarSets, Scans!Advance, Scans!Watching, Scans!Entered, Scans!Stage

LEMMA BarTells ==
    ASSUME IInv, NEW in, NEW out, NEW done,
           BarSets(in, out, done), Scans!Bar(in, out, done, out)
    PROVE  /\ \A e \in in : told'[e] = <<"OPEN_MARKET">>
           /\ \A e \in out : told'[e] = <<"RELEASE_RESERVATION">>
           /\ \A e \in done : told'[e] \in {<<"CLOSE_MARKET">>,
                                            <<"OPEN_MARKET", "CLOSE_MARKET">>}
           /\ \A e \in Entry : e \notin in \union out \union done =>
                                 told'[e] = told[e]
           /\ told' = [e \in Entry |-> told'[e]]
<1>1. told' = [e \in Entry |->
                 CASE e \in in -> Append(told[e], "OPEN_MARKET")
                   [] e \in out -> Append(told[e], "RELEASE_RESERVATION")
                   [] e \in done -> Append(told[e], "CLOSE_MARKET")
                   [] OTHER -> told[e]]
  BY DEF Scans!Bar, Scans!Tell
<1>2. /\ in \subseteq Entry /\ out \subseteq Entry /\ done \subseteq Entry
      /\ \A e \in in \union out : scan[e] = "watching"
      /\ \A e \in done : scan[e] = "entered" /\ e \notin in /\ e \notin out
      /\ \A e \in out : e \notin in
  <2>1. Scans!Advance(in, out, done)
    BY DEF Scans!Bar
  <2>2. TypeOK
    BY DEF IInv
  <2> QED BY <2>1, <2>2, AdvanceEffect
<1>3. /\ \A e \in in \union out : told[e] = <<>>
      /\ \A e \in done : told[e] \in {<<>>, <<"OPEN_MARKET">>}
  BY <1>2 DEF IInv, Shape, RequestShape
<1>4. ASSUME NEW e \in in PROVE told'[e] = <<"OPEN_MARKET">>
  <2>1. told'[e] = Append(told[e], "OPEN_MARKET")
    BY <1>1, <1>2, <1>4
  <2> QED BY <1>3, <1>4, <2>1, Stories
<1>5. ASSUME NEW e \in out PROVE told'[e] = <<"RELEASE_RESERVATION">>
  <2>1. told'[e] = Append(told[e], "RELEASE_RESERVATION")
    BY <1>1, <1>2, <1>5
  <2> QED BY <1>3, <1>5, <2>1, Stories
<1>6. ASSUME NEW e \in done
      PROVE  told'[e] \in {<<"CLOSE_MARKET">>, <<"OPEN_MARKET", "CLOSE_MARKET">>}
  <2>1. told'[e] = Append(told[e], "CLOSE_MARKET")
    BY <1>1, <1>2, <1>6
  <2>2. told[e] = <<>> \/ told[e] = <<"OPEN_MARKET">>
    BY <1>3, <1>6
  <2>3. CASE told[e] = <<>>
    BY <2>1, <2>3, Stories
  <2>4. CASE told[e] = <<"OPEN_MARKET">>
    BY <2>1, <2>4, Stories
  <2> QED BY <2>2, <2>3, <2>4
<1>7. \A e \in Entry : e \notin in \union out \union done => told'[e] = told[e]
  BY <1>1
<1>8. told' = [e \in Entry |-> told'[e]]
  BY <1>1
<1> QED BY <1>4, <1>5, <1>6, <1>7, <1>8

LEMMA EvaluateBarInv ==
    ASSUME IInv, NEW in \in SUBSET Scans!Watching,
           NEW out \in SUBSET (Scans!Watching \ in),
           NEW done \in SUBSET Scans!Entered,
           EvaluateBar(in, out, done)
    PROVE  IInv'
<1>1. /\ Scans!Bar(in, out, done, out) /\ Scans!Advance(in, out, done)
      /\ req.phase # "idle" /\ req.bars > 0
      /\ req' = [req EXCEPT !.phase = "bars", !.bars = @ - 1,
                            !.rows = out,
                            !.out = @ \union ({"OPEN"} \X in)
                                      \union ({"CLOSE"} \X done)]
      /\ UNCHANGED <<resv, bound, old, inbox, order, stray, closing, reports,
                     trade, torn, faults>>
  BY DEF EvaluateBar, ToRelease, Scans!Bar, client
<1>2. /\ scan' \in [Entry -> Scans!Stage]
      /\ in \subseteq Entry /\ out \subseteq Entry /\ done \subseteq Entry
      /\ \A e \in in : scan[e] = "watching" /\ scan'[e] = "entered"
      /\ \A e \in out : scan[e] = "watching" /\ scan'[e] = "dropped"
      /\ \A e \in done : scan[e] = "entered" /\ scan'[e] = "exited"
      /\ \A e \in Entry : e \notin in \union out \union done =>
                            scan'[e] = scan[e]
  <2>1. TypeOK /\ BarSets(in, out, done)
    BY DEF IInv, BarSets
  <2> QED BY <1>1, <2>1, AdvanceEffect
<1>3. /\ \A e \in in : told'[e] = <<"OPEN_MARKET">>
      /\ \A e \in out : told'[e] = <<"RELEASE_RESERVATION">>
      /\ \A e \in done : told'[e] \in {<<"CLOSE_MARKET">>,
                                       <<"OPEN_MARKET", "CLOSE_MARKET">>}
      /\ \A e \in Entry : e \notin in \union out \union done =>
                            told'[e] = told[e]
      /\ told' = [e \in Entry |-> told'[e]]
  <2>1. BarSets(in, out, done)
    BY DEF BarSets
  <2> QED BY <1>1, <2>1, BarTells
<1>4. inbox = {} /\ inbox' = {}
  BY <1>1 DEF IInv, PhaseShape
<1>5. /\ req'.phase = "bars" /\ req'.rows = out /\ req'.chosen = req.chosen
      /\ req'.out = req.out \union ({"OPEN"} \X in) \union ({"CLOSE"} \X done)
      /\ req'.bars = req.bars - 1
      /\ DOMAIN req' = DOMAIN req
  BY <1>1 DEF IInv, TypeOK, Request
<1>6. req' \in Request
  <2>1. req.bars - 1 \in 0..MaxBars
    BY <1>1, PipelineConstants DEF IInv, TypeOK, Request
  <2>2. req'.out \subseteq Action
    BY <1>2, <1>5 DEF IInv, TypeOK, Request, Action
  <2> QED BY <1>1, <1>2, <2>1, <2>2 DEF IInv, TypeOK, Request
<1>7. TypeOK'
  <2>1. told' \in [Entry -> {<<>>, <<"OPEN_MARKET">>, <<"CLOSE_MARKET">>,
                             <<"RELEASE_RESERVATION">>,
                             <<"OPEN_MARKET", "CLOSE_MARKET">>}]
    <3>1. \A e \in Entry : told'[e] \in {<<>>, <<"OPEN_MARKET">>,
             <<"CLOSE_MARKET">>, <<"RELEASE_RESERVATION">>,
             <<"OPEN_MARKET", "CLOSE_MARKET">>}
      BY <1>3 DEF IInv, TypeOK
    <3> QED BY <1>3, <3>1
  <2>2. Ledger!TypeOK'
    BY <1>1 DEF IInv, TypeOK, Ledger!TypeOK
  <2>3. req'.phase # "idle"
    BY <1>5
  <2> QED BY <1>1, <1>2, <1>6, <2>1, <2>2, <2>3 DEF IInv, TypeOK
<1>8. PhaseShape'
  BY <1>4, <1>5 DEF PhaseShape
<1>9. ASSUME NEW q \in Entry PROVE Shape(q)'
  <2>1. <<"OPEN", q>> \in req'.out <=> <<"OPEN", q>> \in req.out \/ q \in in
    BY <1>5
  <2>2. CASE q \in in
    <3>1. scan[q] = "watching" /\ scan'[q] = "entered" /\ q \notin out
      BY <1>2, <2>2
    <3>2. told'[q] = <<"OPEN_MARKET">>
      BY <1>3, <2>2
    <3>3. OrderShape(q)'
      BY <1>1, <1>4, <2>1, <3>1 DEF IInv, Shape, OrderShape, ActiveScan
    <3>4. CapitalShape(q)'
      <4>1. trade[q] = "none"
        BY <3>1 DEF IInv, Shape, OrderShape
      <4>2. CapitalShape(q) /\ scan[q] \in ActiveScan
        BY <3>1 DEF IInv, Shape, ActiveScan
      <4> QED BY <1>1, <3>1, <4>1, <4>2 DEF CapitalShape
    <3>5. RequestShape(q)'
      BY <1>5, <3>1, <3>2 DEF IInv, Shape, RequestShape
    <3> QED BY <3>3, <3>4, <3>5 DEF Shape
  <2>3. CASE q \in out
    <3>1. q \notin in
      BY <1>2, <2>3
    <3> QED BY <1>1, <1>2, <1>3, <1>4, <1>5, <2>1, <2>3, <3>1
            DEF IInv, Shape, OrderShape, CapitalShape, RequestShape, ActiveScan
  <2>4. CASE q \in done
    <3>1. q \notin in /\ q \notin out
      BY <1>2, <2>4
    <3> QED BY <1>1, <1>2, <1>3, <1>4, <1>5, <2>1, <2>4, <3>1
            DEF IInv, Shape, OrderShape, CapitalShape, RequestShape, ActiveScan
  <2>5. CASE q \notin in \union out \union done
    BY <1>1, <1>2, <1>3, <1>4, <1>5, <2>1, <2>5, Frame DEF IInv
  <2> QED BY <2>2, <2>3, <2>4, <2>5
<1> QED BY <1>7, <1>8, <1>9 DEF IInv

LEMMA ReleaseRowInv ==
    ASSUME IInv, NEW e \in Entry, ReleaseRow(e)
    PROVE  IInv'
<1>1. /\ req' = [req EXCEPT !.rows = @ \ {e}] /\ req.phase = "bars"
      /\ e \in req.rows
      /\ UNCHANGED <<old, scan, told, trade, inbox, order, stray, closing,
                     reports, torn, faults>>
  BY DEF ReleaseRow, client
<1>2. /\ bound' = bound /\ Ledger!TypeOK'
      /\ resv' = resv \/ (resv' = [resv EXCEPT ![e] = "RELEASED"]
                          /\ resv[e] \in Ledger!ActiveStates)
  <2>1. CASE resv[e] \in Ledger!ActiveStates
    BY <2>1, MoveEffect DEF ReleaseRow, IInv
  <2>2. CASE resv[e] \notin Ledger!ActiveStates
    BY <2>2 DEF ReleaseRow, IInv, TypeOK, Ledger!TypeOK
  <2> QED BY <2>1, <2>2
<1>3. /\ req' \in Request /\ req'.phase = "bars" /\ req'.chosen = req.chosen
      /\ req'.out = req.out /\ req'.rows = req.rows \ {e}
  BY <1>1 DEF IInv, TypeOK, Request
<1>4. TypeOK'
  BY <1>1, <1>2, <1>3 DEF IInv, TypeOK
<1>5. PhaseShape'
  BY <1>1, <1>3 DEF IInv, PhaseShape
<1>6. scan[e] = "dropped" /\ order[e] = "none" /\ resv[e] # "OPEN"
  BY <1>1 DEF IInv, Shape, OrderShape, RequestShape, CapitalShape
<1>7. Shape(e)'
  <2>1. resv'[e] \in {resv[e], "RELEASED"}
    BY <1>2 DEF IInv, TypeOK, Ledger!TypeOK
  <2>2. e \notin req'.chosen
    BY <1>3, <1>6 DEF IInv, Shape, RequestShape
  <2>3. resv[e] # "ABSENT" /\ bound[e] \in {Null, e} /\ trade[e] # "OPEN"
    BY <1>6 DEF IInv, Shape, CapitalShape, OrderShape
  <2>4. bound[e] = e => resv'[e] \notin {"ABSENT", "PENDING"}
    BY <2>1 DEF IInv, Shape, CapitalShape
  <2> QED BY <1>1, <1>2, <1>3, <1>6, <2>1, <2>2, <2>3, <2>4
          DEF IInv, Shape, OrderShape, CapitalShape, RequestShape, ActiveScan
<1>8. ASSUME NEW q \in Entry, q # e PROVE Shape(q)'
  <2>1. resv'[q] = resv[q]
    BY <1>2, <1>8 DEF IInv, TypeOK, Ledger!TypeOK
  <2> QED BY <1>1, <1>2, <1>3, <1>8, <2>1, Frame DEF IInv
<1> QED BY <1>4, <1>5, <1>7, <1>8 DEF IInv

LEMMA RegisterScanInv ==
    ASSUME IInv, NEW e \in Entry, RegisterScan(e)
    PROVE  IInv'
<1>1. /\ scan[e] = "none" /\ scan' = [scan EXCEPT ![e] = "watching"]
      /\ req' = [req EXCEPT !.chosen = @ \ {e}] /\ req.phase = "bars"
      /\ e \in req.chosen
      /\ UNCHANGED <<resv, bound, told, old, trade, inbox, order, stray,
                     closing, reports, torn, faults>>
  BY DEF RegisterScan, Evaluated, Scans!Watch, client
<1>2. /\ req' \in Request /\ req'.phase = "bars" /\ req'.rows = req.rows
      /\ req'.out = req.out /\ req'.chosen = req.chosen \ {e}
  BY <1>1 DEF IInv, TypeOK, Request
<1>3. scan'[e] = "watching" /\ \A q \in Entry : q # e => scan'[q] = scan[q]
  BY <1>1 DEF IInv, TypeOK
<1>4. TypeOK'
  BY <1>1, <1>2 DEF IInv, TypeOK, Scans!Stage, Ledger!TypeOK
<1>5. PhaseShape'
  BY <1>1, <1>2 DEF IInv, PhaseShape
<1>6. Shape(e)'
  BY <1>1, <1>2, <1>3
     DEF IInv, Shape, OrderShape, CapitalShape, RequestShape, ActiveScan
<1>7. ASSUME NEW q \in Entry, q # e PROVE Shape(q)'
  BY <1>1, <1>2, <1>3, <1>7, Frame DEF IInv
<1> QED BY <1>4, <1>5, <1>6, <1>7 DEF IInv

LEMMA RespondInv ==
    ASSUME IInv, Respond
    PROVE  IInv'
<1>1. /\ req.phase = "bars" /\ inbox' = req.out /\ req' = Idle /\ inbox = {}
      /\ UNCHANGED <<resv, bound, scan, told, trade, old, order, stray, closing,
                     reports, torn, faults>>
  BY DEF Respond, Evaluated, tables, IInv, PhaseShape
<1>2. /\ Idle \in Request /\ Idle.phase = "idle" /\ Idle.rows = {}
      /\ Idle.chosen = {} /\ Idle.out = {} /\ Idle.bars = 0
  BY PipelineConstants DEF Idle, Request
<1>3. TypeOK'
  BY <1>1, <1>2 DEF IInv, TypeOK, Ledger!TypeOK, Request
<1>4. PhaseShape'
  BY <1>1, <1>2 DEF PhaseShape
<1>5. ASSUME NEW q \in Entry PROVE Shape(q)'
  BY <1>1, <1>2, Frame DEF IInv
<1> QED BY <1>3, <1>4, <1>5 DEF IInv

LEMMA RequestFailsInv ==
    ASSUME IInv, RequestFails
    PROVE  IInv'
<1>1. /\ req' = Idle /\ faults' \in 0..MaxFaults
      /\ UNCHANGED <<resv, bound, scan, told, trade, old, inbox, order, stray,
                     closing, reports, torn>>
  BY PipelineConstants DEF RequestFails, Fault, tables, client, IInv, TypeOK
<1>2. /\ Idle \in Request /\ Idle.phase = "idle" /\ Idle.rows = {}
      /\ Idle.chosen = {} /\ Idle.out = {} /\ Idle.bars = 0
  BY PipelineConstants DEF Idle, Request
<1>3. TypeOK'
  BY <1>1, <1>2 DEF IInv, TypeOK, Ledger!TypeOK
<1>4. PhaseShape'
  BY <1>1, <1>2 DEF PhaseShape
<1>5. ASSUME NEW q \in Entry PROVE Shape(q)'
  BY <1>1, <1>2, Frame DEF IInv
<1> QED BY <1>3, <1>4, <1>5 DEF IInv

LEMMA EvaluationFailsInv ==
    ASSUME IInv, NEW in \in SUBSET Scans!Watching,
           NEW out \in SUBSET (Scans!Watching \ in),
           EvaluationFails(in, out)
    PROVE  IInv'
<1>1. /\ Scans!Advance(in, out, {}) /\ told' = told
      /\ req' = Idle /\ faults' \in 0..MaxFaults
      /\ UNCHANGED <<resv, bound, trade, old, inbox, order, stray, closing,
                     reports, torn>>
      /\ inbox = {}
  BY PipelineConstants
     DEF EvaluationFails, Fault, Scans!Interrupted, client, IInv, TypeOK, PhaseShape
<1>2. /\ Idle \in Request /\ Idle.phase = "idle" /\ Idle.rows = {}
      /\ Idle.chosen = {} /\ Idle.out = {} /\ Idle.bars = 0
  BY PipelineConstants DEF Idle, Request
<1>3. /\ scan' \in [Entry -> Scans!Stage]
      /\ in \subseteq Entry /\ out \subseteq Entry
      /\ \A e \in in : scan[e] = "watching" /\ scan'[e] = "entered"
      /\ \A e \in out : scan[e] = "watching" /\ scan'[e] = "dropped"
      /\ \A e \in Entry : e \notin in \union out => scan'[e] = scan[e]
  <2>1. TypeOK /\ BarSets(in, out, {})
    BY DEF IInv, BarSets
  <2> QED BY <1>1, <2>1, AdvanceEffect
<1>4. TypeOK'
  BY <1>1, <1>2, <1>3 DEF IInv, TypeOK, Ledger!TypeOK
<1>5. PhaseShape'
  BY <1>1, <1>2 DEF PhaseShape
<1>6. ASSUME NEW q \in Entry PROVE Shape(q)'
  <2>1. CASE q \in in \union out
    <3>1. scan[q] = "watching" /\ scan'[q] \in {"entered", "dropped"}
      BY <1>3, <2>1
    <3> QED BY <1>1, <1>2, <3>1
            DEF IInv, Shape, OrderShape, CapitalShape, RequestShape, ActiveScan
  <2>2. CASE q \notin in \union out
    BY <1>1, <1>2, <1>3, <2>2, Frame DEF IInv
  <2> QED BY <2>1, <2>2
<1> QED BY <1>4, <1>5, <1>6 DEF IInv

-----------------------------------------------------------------------------
(* The cleanup loop *)

LEMMA AgesInv ==
    ASSUME IInv, NEW e \in Entry, Ages(e)
    PROVE  IInv'
<1>1. /\ old' = old \union {e}
      /\ UNCHANGED <<resv, bound, scan, told, trade, req, inbox, order, stray,
                     closing, reports, torn, faults>>
  BY DEF Ages, tables, client
<1>2. TypeOK'
  BY <1>1 DEF IInv, TypeOK, Ledger!TypeOK
<1>3. PhaseShape'
  BY <1>1 DEF IInv, PhaseShape
<1>4. ASSUME NEW q \in Entry PROVE Shape(q)'
  BY <1>1, Frame DEF IInv
<1> QED BY <1>2, <1>3, <1>4 DEF IInv

LEMMA OrphanCleanupInv ==
    ASSUME IInv, NEW e \in Entry, OrphanCleanup(e)
    PROVE  IInv'
<1>1. /\ req.phase = "idle" /\ resv[e] = "PENDING" /\ scan[e] \notin ActiveScan
      /\ Ledger!Move(e, "RELEASED")
      /\ UNCHANGED <<old, scan, told, trade, req, inbox, order, stray, closing,
                     reports, torn, faults>>
  BY DEF OrphanCleanup, Orphaned, Pending, client
<1>2. /\ resv' = [resv EXCEPT ![e] = "RELEASED"] /\ bound' = bound
      /\ Ledger!TypeOK'
  BY <1>1, MoveEffect DEF IInv
<1>3. TypeOK'
  BY <1>1, <1>2 DEF IInv, TypeOK
<1>4. PhaseShape'
  BY <1>1 DEF IInv, PhaseShape
<1>5. Shape(e)'
  <2>1. resv'[e] = "RELEASED" /\ e \notin req.chosen
    BY <1>1, <1>2 DEF IInv, TypeOK, Ledger!TypeOK
  <2> QED BY <1>1, <1>2, <2>1
          DEF IInv, Shape, OrderShape, CapitalShape, RequestShape, ActiveScan
<1>6. ASSUME NEW q \in Entry, q # e PROVE Shape(q)'
  <2>1. resv'[q] = resv[q]
    BY <1>2, <1>6 DEF IInv, TypeOK, Ledger!TypeOK
  <2> QED BY <1>1, <1>2, <1>6, <2>1, Frame DEF IInv
<1> QED BY <1>3, <1>4, <1>5, <1>6 DEF IInv

-----------------------------------------------------------------------------
(* The client *)

\* Actions that take an action out of the inbox and place no order.
LEMMA InboxShrinks ==
    ASSUME IInv, inbox' \subseteq inbox, closing' \subseteq Entry,
           faults' \in 0..MaxFaults,
           UNCHANGED <<resv, bound, scan, told, trade, old, req, order, stray,
                       reports, torn>>
    PROVE  IInv'
<1>1. TypeOK'
  BY DEF IInv, TypeOK, Ledger!TypeOK
<1>2. PhaseShape'
  BY DEF IInv, PhaseShape
<1>3. ASSUME NEW q \in Entry PROVE Shape(q)'
  BY <1>3, Frame DEF IInv
<1> QED BY <1>1, <1>2, <1>3 DEF IInv

\* An order is placed for a scan that has none, at the broker or nowhere else.
LEMMA OrderPlaced ==
    ASSUME IInv, NEW e \in Entry, <<"OPEN", e>> \in inbox,
           inbox' = inbox \ {<<"OPEN", e>>},
           order' = [order EXCEPT ![e] = "working"],
           stray' \in {stray, stray \union {e}}, faults' \in 0..MaxFaults,
           UNCHANGED <<resv, bound, scan, told, trade, old, req, closing,
                       reports, torn>>
    PROVE  IInv'
<1>1. req.phase = "idle" /\ req.out = {}
  BY DEF IInv, PhaseShape, TypeOK, Request
<1>2. order[e] = "none"
  BY DEF IInv, Shape, OrderShape
<1>3. order'[e] = "working" /\ \A q \in Entry : q # e => order'[q] = order[q]
  BY DEF IInv, TypeOK
<1>4. TypeOK'
  BY DEF IInv, TypeOK, Ledger!TypeOK
<1>5. PhaseShape'
  BY <1>1 DEF PhaseShape
<1>6. Shape(e)'
  <2>1. OrderShape(e)'
    BY <1>1, <1>2, <1>3 DEF IInv, Shape, OrderShape
  <2>2. CapitalShape(e)'
    BY <1>1, <1>2, <1>3 DEF IInv, Shape, OrderShape, CapitalShape
  <2>3. RequestShape(e)'
    BY DEF IInv, Shape, RequestShape
  <2> QED BY <2>1, <2>2, <2>3 DEF Shape
<1>7. ASSUME NEW q \in Entry, q # e PROVE Shape(q)'
  BY <1>3, <1>7, Frame DEF IInv
<1> QED BY <1>4, <1>5, <1>6, <1>7 DEF IInv

LEMMA ClientInv ==
    ASSUME IInv, NEW e \in Entry,
           \/ Submit(e) \/ Blocked(e) \/ SubmitTimesOut(e)
           \/ SendClose(e) \/ CloseFails(e)
    PROVE  IInv'
<1>0. faults \in 0..MaxFaults /\ closing \subseteq Entry
  BY DEF IInv, TypeOK
<1>1. CASE Submit(e)
  BY <1>0, <1>1, OrderPlaced DEF Submit, Executed, tables
<1>2. CASE Blocked(e)
  BY <1>0, <1>2, InboxShrinks DEF Blocked, Executed, tables
<1>3. CASE SubmitTimesOut(e)
  <2>1. faults' \in 0..MaxFaults
    BY <1>0, <1>3, PipelineConstants DEF SubmitTimesOut, Fault
  <2> QED BY <1>3, <2>1, OrderPlaced DEF SubmitTimesOut, Executed, tables
<1>4. CASE SendClose(e)
  <2>1. closing' \subseteq Entry
    BY <1>0, <1>4 DEF SendClose
  <2> QED BY <1>0, <1>4, <2>1, InboxShrinks DEF SendClose, Executed, tables
<1>5. CASE CloseFails(e)
  <2>1. faults' \in 0..MaxFaults
    BY <1>0, <1>5, PipelineConstants DEF CloseFails, Fault
  <2> QED BY <1>0, <1>5, <2>1, InboxShrinks DEF CloseFails, Executed, tables
<1> QED BY <1>1, <1>2, <1>3, <1>4, <1>5

-----------------------------------------------------------------------------
(* The broker *)

LEMMA BrokerInv ==
    ASSUME IInv, NEW e \in Entry, Fill(e) \/ Reject(e) \/ CloseDone(e)
    PROVE  IInv'
<1>1. PICK st \in {"filled", "rejected", "closed"} :
        /\ order' = [order EXCEPT ![e] = st]
        /\ order[e] \in {"working", "filled"}
        /\ \/ st = "filled" /\ order[e] = "working"
              /\ reports' = reports \union {<<"fill", e>>}
           \/ st = "rejected" /\ order[e] = "working" /\ reports' = reports
           \/ st = "closed" /\ reports' = reports \union {<<"close", e>>}
        /\ UNCHANGED <<resv, bound, scan, told, trade, old, req, inbox, stray,
                       closing, torn, faults>>
  <2>1. CASE Fill(e)
    BY <2>1 DEF Fill, Becomes, tables
  <2>2. CASE Reject(e)
    BY <2>2 DEF Reject, Becomes, tables
  <2>3. CASE CloseDone(e)
    BY <2>3 DEF CloseDone, Becomes, tables
  <2> QED BY <2>1, <2>2, <2>3
<1>2. order'[e] = st /\ \A q \in Entry : q # e => order'[q] = order[q]
  BY <1>1 DEF IInv, TypeOK
<1>3. TypeOK'
  BY <1>1 DEF IInv, TypeOK, Ledger!TypeOK
<1>4. PhaseShape'
  BY <1>1 DEF IInv, PhaseShape
<1>5. Shape(e)'
  <2>1. OrderShape(e)'
    BY <1>1, <1>2 DEF IInv, Shape, OrderShape
  <2>2. CapitalShape(e)'
    BY <1>1, <1>2 DEF IInv, Shape, OrderShape, CapitalShape
  <2>3. RequestShape(e)'
    BY <1>1 DEF IInv, Shape, RequestShape
  <2> QED BY <2>1, <2>2, <2>3 DEF Shape
<1>6. ASSUME NEW q \in Entry, q # e PROVE Shape(q)'
  BY <1>1, <1>2, <1>6, Frame DEF IInv
<1> QED BY <1>3, <1>4, <1>5, <1>6 DEF IInv

-----------------------------------------------------------------------------
(* /trades/open and /trades/update *)

LEMMA OpenTradeInv ==
    ASSUME IInv, NEW e \in Entry, OpenTrade(e)
    PROVE  IInv'
<1>1. /\ req.phase = "idle" /\ <<"fill", e>> \in reports
      /\ reports' = reports \ {<<"fill", e>>}
      /\ trade' = [trade EXCEPT ![e] = "OPEN"]
      /\ UNCHANGED <<old, scan, told, req, inbox, order, stray, closing, torn,
                     faults>>
  BY DEF OpenTrade, Reports, Opened
<1>2. \/ /\ resv[e] = "PENDING"
         /\ resv' = [resv EXCEPT ![e] = "OPEN"] /\ bound' = [bound EXCEPT ![e] = e]
      \/ /\ e \in stray \/ resv[e] # "PENDING"
         /\ resv' = resv /\ bound' = bound
  BY DEF OpenTrade, Ledger!Promote
<1>3. order[e] \in {"filled", "closed"} /\ trade'[e] = "OPEN"
  BY <1>1 DEF IInv, TypeOK, Shape, OrderShape
<1>4. TypeOK'
  BY <1>1, <1>2 DEF IInv, TypeOK, Ledger!TypeOK, Ledger!RowState,
                    Ledger!ReservationState, Ledger!ActiveStates
<1>5. PhaseShape'
  BY <1>1 DEF IInv, PhaseShape
<1>6. req.chosen = {} /\ req.out = {}
  BY <1>1 DEF IInv, TypeOK
<1>7. Shape(e)'
  <2>1. OrderShape(e)'
    BY <1>1, <1>3 DEF IInv, Shape, OrderShape
  <2>2. CapitalShape(e)'
    <3>1. CASE resv[e] = "PENDING" /\ resv' = [resv EXCEPT ![e] = "OPEN"]
               /\ bound' = [bound EXCEPT ![e] = e]
      <4>1. resv'[e] = "OPEN" /\ bound'[e] = e
        BY <3>1 DEF IInv, TypeOK, Ledger!TypeOK
      <4> QED BY <1>1, <1>3, <4>1 DEF CapitalShape
    <3>2. CASE (e \in stray \/ resv[e] # "PENDING") /\ resv' = resv
               /\ bound' = bound
      <4>1. scan[e] \in ActiveScan => resv[e] # "RELEASED"
        BY <1>1 DEF IInv, Shape, CapitalShape
      <4>2. scan[e] = "entered" /\ e \notin stray => resv[e] \in {"OPEN", "EXPIRED"}
        BY <3>2, <4>1 DEF IInv, TypeOK, Ledger!TypeOK, Ledger!RowState,
             Ledger!ReservationState, Ledger!ActiveStates, Ledger!TerminalStates,
             Shape, CapitalShape, ActiveScan
      <4> QED BY <1>1, <1>3, <3>2, <4>1, <4>2 DEF IInv, Shape, CapitalShape, ActiveScan
    <3> QED BY <1>2, <3>1, <3>2
  <2>3. RequestShape(e)'
    BY <1>1, <1>6 DEF IInv, Shape, RequestShape
  <2> QED BY <2>1, <2>2, <2>3 DEF Shape
<1>8. ASSUME NEW q \in Entry, q # e PROVE Shape(q)'
  <2>1. resv'[q] = resv[q] /\ bound'[q] = bound[q] /\ trade'[q] = trade[q]
    BY <1>1, <1>2, <1>8 DEF IInv, TypeOK, Ledger!TypeOK
  <2> QED BY <1>1, <1>8, <2>1, Frame DEF IInv
<1> QED BY <1>4, <1>5, <1>7, <1>8 DEF IInv

\* A reservation is only ever bound to its own position, so the report of a
\* close reaches the entry that was closed and no other.
LEMMA HoldsItself ==
    ASSUME IInv, NEW e \in Entry, NEW r \in Entry
    PROVE  r \in HeldBy(e) <=> r = e /\ resv[e] = "OPEN"
BY PipelineConstants
   DEF IInv, Shape, CapitalShape, HeldBy, Ledger!ActiveStates

LEMMA UpdateTradeInv ==
    ASSUME IInv, NEW e \in Entry, UpdateTrade(e)
    PROVE  IInv'
<1>1. /\ req.phase = "idle" /\ <<"close", e>> \in reports
      /\ <<"fill", e>> \notin reports /\ reports' = reports \ {<<"close", e>>}
      /\ trade' = [trade EXCEPT ![e] = IF @ = "OPEN" THEN "CLOSED" ELSE @]
      /\ resv' = [r \in Entry |-> IF r \in HeldBy(e) THEN "RELEASED" ELSE resv[r]]
      /\ UNCHANGED <<old, scan, told, req, inbox, order, stray, closing, bound,
                     torn, faults>>
  BY DEF UpdateTrade, Reports, Closed
<1>2. /\ resv'[e] = IF resv[e] = "OPEN" THEN "RELEASED" ELSE resv[e]
      /\ \A q \in Entry : q # e => resv'[q] = resv[q]
  BY <1>1, HoldsItself
<1>3. /\ order[e] = "closed"
      /\ trade'[e] = IF trade[e] = "OPEN" THEN "CLOSED" ELSE trade[e]
      /\ \A q \in Entry : q # e => trade'[q] = trade[q]
  BY <1>1 DEF IInv, TypeOK, Shape, OrderShape
<1>4. TypeOK'
  <2>1. resv' \in [Entry -> Ledger!RowState]
    BY <1>1 DEF IInv, TypeOK, Ledger!TypeOK, Ledger!RowState,
                Ledger!ReservationState, Ledger!TerminalStates
  <2> QED BY <1>1, <2>1 DEF IInv, TypeOK, Ledger!TypeOK
<1>5. PhaseShape'
  BY <1>1 DEF IInv, PhaseShape
<1>6. req.chosen = {}
  BY <1>1 DEF IInv, TypeOK
<1>7. Shape(e)'
  <2>1. OrderShape(e)'
    BY <1>1, <1>3 DEF IInv, Shape, OrderShape
  <2>2. CapitalShape(e)'
    BY <1>1, <1>2, <1>3 DEF IInv, Shape, CapitalShape
  <2>3. RequestShape(e)'
    BY <1>1, <1>6 DEF IInv, Shape, RequestShape
  <2> QED BY <2>1, <2>2, <2>3 DEF Shape
<1>8. ASSUME NEW q \in Entry, q # e PROVE Shape(q)'
  BY <1>1, <1>2, <1>3, <1>8, Frame DEF IInv
<1> QED BY <1>4, <1>5, <1>7, <1>8 DEF IInv

LEMMA ReportFailsInv ==
    ASSUME IInv, NEW k \in {"fill", "close"}, NEW e \in Entry, ReportFails(k, e)
    PROVE  IInv'
<1>1. /\ req.phase = "idle" /\ <<k, e>> \in reports /\ reports' = reports \ {<<k, e>>}
      /\ torn' = torn \union {e} /\ faults' \in 0..MaxFaults
      /\ UNCHANGED <<resv, bound, old, scan, told, req, inbox, order, stray, closing>>
  BY PipelineConstants DEF ReportFails, Reports, Fault, IInv, TypeOK
<1>2. /\ trade' \in [Entry -> {"none", "OPEN", "CLOSED"}]
      /\ \A q \in Entry : q # e => trade'[q] = trade[q]
      /\ trade'[e] # "none" => trade[e] # "none" \/ k = "fill"
      /\ trade'[e] = "OPEN" => trade[e] = "OPEN" \/ k = "fill"
  BY DEF ReportFails, Opened, Closed, IInv, TypeOK
<1>3. TypeOK'
  BY <1>1, <1>2 DEF IInv, TypeOK, Ledger!TypeOK
<1>4. PhaseShape'
  BY <1>1 DEF IInv, PhaseShape
<1>5. Shape(e)'
  <2>1. OrderShape(e)'
    BY <1>1, <1>2 DEF IInv, Shape, OrderShape
  <2>2. CapitalShape(e)'
    BY <1>1, <1>2 DEF IInv, Shape, CapitalShape
  <2>3. RequestShape(e)'
    BY <1>1 DEF IInv, Shape, RequestShape
  <2> QED BY <2>1, <2>2, <2>3 DEF Shape
<1>6. ASSUME NEW q \in Entry, q # e PROVE Shape(q)'
  BY <1>1, <1>2, <1>6, Frame DEF IInv
<1> QED BY <1>3, <1>4, <1>5, <1>6 DEF IInv

LEMMA RestartInv ==
    ASSUME IInv, Restart
    PROVE  IInv'
<1>1. /\ scan' = [s \in Entry |-> IF scan[s] = "none" THEN "none" ELSE "forgotten"]
      /\ req' = Idle /\ faults' \in 0..MaxFaults
      /\ UNCHANGED <<resv, bound, told, trade, old, inbox, order, stray, closing,
                     reports, torn>>
  BY PipelineConstants DEF Restart, Fault, Scans!Forget, client, IInv, TypeOK
<1>2. /\ Idle \in Request /\ Idle.phase = "idle" /\ Idle.rows = {}
      /\ Idle.chosen = {} /\ Idle.out = {} /\ Idle.bars = 0
  BY PipelineConstants DEF Idle, Request
<1>3. TypeOK'
  BY <1>1, <1>2 DEF IInv, TypeOK, Scans!Stage, Ledger!TypeOK
<1>4. PhaseShape'
  BY <1>1, <1>2 DEF PhaseShape
<1>5. ASSUME NEW q \in Entry PROVE Shape(q)'
  <2>1. scan'[q] = IF scan[q] = "none" THEN "none" ELSE "forgotten"
    BY <1>1
  <2>2. OrderShape(q)'
    BY <1>1, <1>2, <2>1 DEF IInv, Shape, OrderShape
  <2>3. CapitalShape(q)'
    BY <1>1, <2>1 DEF IInv, Shape, CapitalShape, ActiveScan
  <2>4. RequestShape(q)'
    BY <1>1, <1>2, <2>1 DEF IInv, Shape, RequestShape
  <2> QED BY <2>2, <2>3, <2>4 DEF Shape
<1> QED BY <1>3, <1>4, <1>5 DEF IInv

-----------------------------------------------------------------------------
(* The theorems *)

LEMMA NextInv ==
    ASSUME IInv, [Next]_vars
    PROVE  IInv'
<1>1. CASE StartPredict
  BY <1>1, StartPredictInv
<1>2. ASSUME NEW e \in Entry, ExpireRow(e) PROVE IInv'
  BY <1>2, ExpireRowInv
<1>3. ASSUME NEW e \in Entry, Select(e) PROVE IInv'
  BY <1>3, SelectInv
<1>4. CASE EvaluateBars
  BY <1>4, EvaluateBarInv DEF EvaluateBars
<1>5. ASSUME NEW e \in Entry, ReleaseRow(e) PROVE IInv'
  BY <1>5, ReleaseRowInv
<1>6. ASSUME NEW e \in Entry, RegisterScan(e) PROVE IInv'
  BY <1>6, RegisterScanInv
<1>7. CASE Respond
  BY <1>7, RespondInv
<1>8. CASE RequestFails
  BY <1>8, RequestFailsInv
<1>9. ASSUME NEW in \in SUBSET Scans!Watching,
             NEW out \in SUBSET (Scans!Watching \ in), EvaluationFails(in, out)
      PROVE  IInv'
  BY <1>9, EvaluationFailsInv
<1>10. ASSUME NEW e \in Entry, Ages(e) PROVE IInv'
  BY <1>10, AgesInv
<1>11. ASSUME NEW e \in Entry, OrphanCleanup(e) PROVE IInv'
  BY <1>11, OrphanCleanupInv
<1>12. ASSUME NEW e \in Entry,
              \/ Submit(e) \/ Blocked(e) \/ SubmitTimesOut(e)
              \/ SendClose(e) \/ CloseFails(e)
       PROVE  IInv'
  BY <1>12, ClientInv
<1>13. ASSUME NEW e \in Entry, Fill(e) \/ Reject(e) \/ CloseDone(e) PROVE IInv'
  BY <1>13, BrokerInv
<1>14. ASSUME NEW e \in Entry, OpenTrade(e) PROVE IInv'
  BY <1>14, OpenTradeInv
<1>15. ASSUME NEW e \in Entry, UpdateTrade(e) PROVE IInv'
  BY <1>15, UpdateTradeInv
<1>16. ASSUME NEW k \in {"fill", "close"}, NEW e \in Entry, ReportFails(k, e)
       PROVE  IInv'
  BY <1>16, ReportFailsInv
<1>17. CASE Restart
  BY <1>17, RestartInv
<1>18. CASE UNCHANGED vars
  <2>1. TypeOK' /\ PhaseShape'
    BY <1>18 DEF vars, IInv, TypeOK, PhaseShape, Ledger!TypeOK
  <2>2. ASSUME NEW q \in Entry PROVE Shape(q)'
    BY <1>18, <2>2, Frame DEF vars, IInv
  <2> QED BY <2>1, <2>2 DEF IInv
<1> QED
  BY <1>1, <1>2, <1>3, <1>4, <1>5, <1>6, <1>7, <1>8, <1>9, <1>10, <1>11, <1>12,
     <1>13, <1>14, <1>15, <1>16, <1>17, <1>18 DEF Next

\* The inductive invariant holds in every state of server, client and broker.
THEOREM PipelineInvariant == Spec => []IInv
<1>1. Init => IInv
  BY InitInv
<1>2. IInv /\ [Next]_vars => IInv'
  BY NextInv
<1> QED BY <1>1, <1>2, PTL DEF Spec

\* Every variable keeps its type, whatever fails or is lost.
THEOREM TypesHold == Spec => []TypeOK
<1>1. IInv => TypeOK
  BY DEF IInv
<1> QED BY <1>1, PipelineInvariant, PTL

\* However many entries, bars and faults there are, no scan sends a second order
\* to the broker (orchestrator step 6, executeActions, OrderBookingService).
THEOREM OrdersOnce == Spec => []OneOrderPerScan
<1>1. IInv => OneOrderPerScan
  <2> SUFFICES ASSUME IInv, NEW e \in Entry, <<"OPEN", e>> \in req.out \union inbox
               PROVE  /\ order[e] = "none"
                      /\ scan[e] \in {"entered", "exited", "forgotten"}
                      /\ <<"OPEN", e>> \notin req.out \intersect inbox
    BY DEF OneOrderPerScan
  <2>1. order[e] = "none" /\ scan[e] \in {"entered", "exited", "forgotten"}
    BY DEF IInv, Shape, OrderShape
  <2>2. req.out = {} \/ inbox = {}
    BY DEF IInv, TypeOK, PhaseShape
  <2> QED BY <2>1, <2>2
<1> QED BY <1>1, PipelineInvariant, PTL

\* An OPEN reservation is backed by its own position and an open trade, unless a
\* report was torn (/trades/open and /trades/update of server.py).
THEOREM CapitalMatched == Spec => []CapitalMatchesTrades
<1>1. IInv => CapitalMatchesTrades
  BY DEF IInv, Shape, CapitalShape, CapitalMatchesTrades
<1> QED BY <1>1, PipelineInvariant, PTL

\* A reported position under a running scan holds capital, or lost it to step 4.
THEOREM PositionsAreCovered == Spec => []PositionsCovered
<1>1. IInv => PositionsCovered
  BY DEF IInv, Shape, CapitalShape, PositionsCovered
<1> QED BY <1>1, PipelineInvariant, PTL

\* Which steps release the reservation of an entry, and in which states.
LEMMA ReleaseStep ==
    ASSUME IInv, [Next]_vars, NEW e \in Entry,
           resv[e] # "RELEASED", resv'[e] = "RELEASED"
    PROVE  \/ resv[e] = "PENDING" /\ scan[e] \notin ActiveScan
           \/ resv[e] = "OPEN" /\ order[e] = "closed"
<1> DEFINE Goal == \/ resv[e] = "PENDING" /\ scan[e] \notin ActiveScan
                   \/ resv[e] = "OPEN" /\ order[e] = "closed"
<1>0. resv \in [Entry -> Ledger!RowState]
  BY DEF IInv, TypeOK, Ledger!TypeOK
<1>1. ASSUME NEW q \in Entry, ExpireRow(q) PROVE Goal
  <2>1. resv' = [resv EXCEPT ![q] = "EXPIRED"]
    BY <1>1, MoveEffect DEF ExpireRow, IInv
  <2> QED BY <1>0, <2>1
<1>2. ASSUME NEW q \in Entry, Select(q) PROVE Goal
  <2>1. resv'[q] = "PENDING" /\ \A r \in Entry : r # q => resv'[r] = resv[r]
    BY <1>0, <1>2 DEF Select, Ledger!Create
  <2> QED BY <2>1
<1>3. ASSUME NEW q \in Entry, ReleaseRow(q) PROVE Goal
  <2>1. scan[q] = "dropped" /\ order[q] = "none" /\ resv[q] # "OPEN"
    BY <1>3 DEF ReleaseRow, IInv, Shape, RequestShape, OrderShape, CapitalShape
  <2>2. /\ resv[q] \in Ledger!ActiveStates
        /\ resv' = [resv EXCEPT ![q] = "RELEASED"]
    BY <1>3, MoveEffect DEF ReleaseRow, IInv
  <2>3. q = e
    BY <1>0, <2>2
  <2> QED BY <2>1, <2>2, <2>3 DEF Ledger!ActiveStates, ActiveScan
<1>4. ASSUME NEW q \in Entry, OrphanCleanup(q) PROVE Goal
  <2>1. resv[q] = "PENDING" /\ scan[q] \notin ActiveScan
    BY <1>4 DEF OrphanCleanup, Orphaned, Pending
  <2>2. resv' = [resv EXCEPT ![q] = "RELEASED"]
    BY <1>4, MoveEffect DEF OrphanCleanup, IInv
  <2> QED BY <1>0, <2>1, <2>2
<1>5. ASSUME NEW q \in Entry, OpenTrade(q) PROVE Goal
  <2>1. resv' = resv \/ resv' = [resv EXCEPT ![q] = "OPEN"]
    BY <1>5 DEF OpenTrade, Ledger!Promote
  <2> QED BY <1>0, <2>1
<1>6. ASSUME NEW q \in Entry, UpdateTrade(q) PROVE Goal
  <2>1. e \in HeldBy(q)
    BY <1>6 DEF UpdateTrade
  <2>2. q = e /\ resv[e] = "OPEN"
    BY <2>1, HoldsItself
  <2>3. order[q] = "closed"
    BY <1>6 DEF UpdateTrade, Reports, IInv, Shape, OrderShape
  <2> QED BY <2>2, <2>3
<1>7. CASE resv' = resv
  BY <1>7
<1>8. ASSUME NEW q \in Entry, RegisterScan(q) \/ Ages(q) PROVE resv' = resv
  BY <1>8 DEF RegisterScan, Ages, tables
<1>9. StartPredict \/ Respond \/ RequestFails \/ Restart => resv' = resv
  BY DEF StartPredict, Respond, RequestFails, Restart, tables
<1>10. EvaluateBars => resv' = resv
  BY DEF EvaluateBars, EvaluateBar
<1>11. ASSUME NEW in, NEW out, EvaluationFails(in, out) PROVE resv' = resv
  BY <1>11 DEF EvaluationFails
<1>12. ASSUME NEW q \in Entry,
              \/ Submit(q) \/ Blocked(q) \/ SubmitTimesOut(q)
              \/ SendClose(q) \/ CloseFails(q)
       PROVE  resv' = resv
  BY <1>12 DEF Submit, Blocked, SubmitTimesOut, SendClose, CloseFails, tables
<1>13. ASSUME NEW q \in Entry, Fill(q) \/ Reject(q) \/ CloseDone(q)
       PROVE  resv' = resv
  BY <1>13 DEF Fill, Reject, CloseDone, Becomes, tables
<1>14. ASSUME NEW k, NEW q \in Entry, ReportFails(k, q) PROVE resv' = resv
  BY <1>14 DEF ReportFails
<1>15. UNCHANGED vars => resv' = resv
  BY DEF vars
<1> QED
  BY <1>1, <1>2, <1>3, <1>4, <1>5, <1>6, <1>7, <1>8, <1>9, <1>10, <1>11, <1>12,
     <1>13, <1>14, <1>15 DEF Next

\* Step 6, the cleanup loop and /trades/update release no capital in use: a
\* pending reservation only after its scan, an open one only after its position.
THEOREM FreedWhenOver == Spec => FreedOnlyWhenOver
<1>1. IInv /\ [Next]_vars =>
        [\A e \in Entry :
            resv[e] # "RELEASED" /\ resv'[e] = "RELEASED" =>
                \/ resv[e] = "PENDING" /\ scan[e] \notin ActiveScan
                \/ resv[e] = "OPEN" /\ order[e] = "closed"]_vars
  BY ReleaseStep
<1> QED BY <1>1, PipelineInvariant, PTL DEF Spec, FreedOnlyWhenOver

=============================================================================
