--------------------------- MODULE OrderFlowProofs ---------------------------
(* Proofs about OrderFlow.tla. *)
EXTENDS OrderFlow, SequenceTheorems, TLAPS

Status == {"none", "submitted", "filled", "closing", "cancelling", "closed", "gone"}
Call == [kind : Kind, scan : Scan, result : {"none", "ok", "failed"}]
Mail == [type : Message, scan : Scan]

Types ==
    /\ told \in [Scan -> {"none", "OPEN", "CLOSE"}]
    /\ strategy \in {"free", "draining", "stopping", "stopped"}
    /\ acts \in Seq(Task) /\ tasks \in Seq(Task) /\ messages \in Seq(Mail)
    /\ call \in {NoCall} \union Call
    /\ order \in [Scan -> Status]
    /\ trade \in [Scan -> {"none", "OPEN", "STRAY", "CLOSED"}]
    /\ faults \in Nat

In(t, seq) == \E i \in 1 .. Len(seq) : seq[i] = t
Once(t, seq) == \A i, j \in 1 .. Len(seq) : seq[i] = t /\ seq[j] = t => i = j
Distinct(seq) == \A i, j \in 1 .. Len(seq) : seq[i] = seq[j] => i = j

Opening(s) == [kind |-> "OPEN", scan |-> s]
Closing(s) == [kind |-> "CLOSE", scan |-> s]
Filling(s) == [type |-> "FILL_OK", scan |-> s]

\* The opening of a scan comes before its closing.
Ordered(seq) ==
    \A s \in Scan, i, j \in 1 .. Len(seq) :
        seq[i] = Closing(s) /\ seq[j] = Opening(s) => j < i

\* The worker without a batch has nothing in hand, a stopped strategy no tasks.
ThreadShape ==
    /\ ~busy => acts = <<>> /\ call = NoCall
    /\ strategy = "stopped" => ~busy /\ tasks = <<>>

\* Every action is told, taken and queued once, the opening before the closing.
TaskShape ==
    /\ Distinct(acts) /\ Distinct(tasks)
    /\ \A t \in Task :
         /\ In(t, acts) => told[t.scan] = t.kind /\ ~In(t, tasks)
         /\ In(t, tasks) => told[t.scan] \in {t.kind, "CLOSE"}
    /\ Ordered(tasks)

\* An order has one submission and one fill.
OrderShape ==
    \A s \in Scan :
      /\ order[s] # "none" =>
             told[s] # "none" /\ ~In(Opening(s), acts) /\ ~In(Opening(s), tasks)
      /\ In(Filling(s), messages) => order[s] \notin {"none", "submitted", "cancelling"}
      /\ Once(Filling(s), messages)

\* A close in the queue is waited for, and one that has run left no live order.
CloseShape ==
    \A s \in Scan :
      /\ In(Closing(s), tasks) =>
             \/ s \in cut
             \/ call \in Call /\ call.kind = "CLOSE" /\ call.scan = s
                /\ call.result = "none"
      /\ call \in Call /\ call.kind = "CLOSE" /\ call.scan = s /\ call.result = "ok" =>
             s \in cut \/ (order[s] \notin {"submitted", "filled"}
                           /\ ~In(Opening(s), tasks))

\* An order, live or to be placed, can be closed.
LiveShape ==
    \A s \in Scan :
        order[s] \in {"submitted", "filled"} \/ In(Opening(s), tasks) =>
            \/ s \in label \union givenUp \union cut \union forgotten
            \/ call \in Call /\ call.kind = "CLOSE" /\ call.scan = s
            \/ In(Closing(s), tasks)

\* A fill to come has its context.
FillShape ==
    \A s \in Scan :
      /\ \/ order[s] \in {"submitted", "cancelling"}
         \/ In(Opening(s), tasks) \/ In(Filling(s), messages)
         => s \in fills \union givenUp \union forgotten
      /\ trade[s] = "STRAY" => s \in givenUp \union forgotten

\* Without a failure, the messages of a scan are what the server has yet to
\* learn of its order.
Quiet(s) == \A i \in 1 .. Len(messages) : messages[i].scan # s
TradeShape ==
    faults = 0 /\ strategy # "stopped" =>
      \A s \in Scan :
        /\ order[s] # "gone"
        /\ order[s] \in {"none", "submitted", "cancelling"} =>
               Quiet(s) /\ trade[s] = "none"
        /\ order[s] \in {"filled", "closing"} =>
             /\ Quiet(s) => trade[s] \in {"OPEN", "STRAY"}
             /\ \A i \in 1 .. Len(messages) :
                    messages[i].scan = s => messages[i] = Filling(s)
        /\ order[s] = "closed" =>
             /\ Quiet(s) => trade[s] = "CLOSED"
             /\ \A i \in 1 .. Len(messages) :
                    messages[i].scan = s /\ messages[i].type # "CLOSE_OK" =>
                        \E j \in i + 1 .. Len(messages) : messages[j].scan = s
             /\ \A i \in 1 .. Len(messages) :
                    messages[i].scan = s /\ messages[i].type = "CLOSE_OK" =>
                        \A j \in i + 1 .. Len(messages) : messages[j].scan # s

IInv == Types /\ ThreadShape /\ TaskShape /\ OrderShape /\ CloseShape
        /\ LiveShape /\ FillShape /\ TradeShape

-----------------------------------------------------------------------------
(* Queues. *)

LEMMA AppendTo ==
    ASSUME NEW S, NEW seq \in Seq(S), NEW e \in S
    PROVE  /\ Append(seq, e) \in Seq(S)
           /\ Len(Append(seq, e)) = Len(seq) + 1
           /\ \A i \in 1 .. Len(seq) : Append(seq, e)[i] = seq[i]
           /\ Append(seq, e)[Len(seq) + 1] = e
           /\ Len(seq) \in Nat
OBVIOUS

LEMMA TailOf ==
    ASSUME NEW S, NEW seq \in Seq(S), seq # <<>>
    PROVE  /\ Tail(seq) \in Seq(S) /\ Head(seq) \in S
           /\ Head(seq) = seq[1] /\ Len(seq) \in Nat \ {0}
           /\ Len(Tail(seq)) = Len(seq) - 1
           /\ \A i \in 1 .. Len(seq) - 1 : Tail(seq)[i] = seq[i + 1]
OBVIOUS

LEMMA AppendIn ==
    ASSUME NEW S, NEW seq \in Seq(S), NEW e \in S
    PROVE  /\ \A t : In(t, Append(seq, e)) <=> In(t, seq) \/ t = e
           /\ Distinct(seq) /\ ~In(e, seq) => Distinct(Append(seq, e))
           /\ \A t : Once(t, seq) /\ (~In(t, seq) \/ t # e) => Once(t, Append(seq, e))
<1>1. /\ Len(Append(seq, e)) = Len(seq) + 1
      /\ \A i \in 1 .. Len(seq) : Append(seq, e)[i] = seq[i]
      /\ Append(seq, e)[Len(seq) + 1] = e
      /\ Len(seq) \in Nat
  BY AppendTo
<1> DEFINE more == Append(seq, e)
<1> HIDE DEF more
<1>2. /\ Len(more) = Len(seq) + 1
      /\ \A i \in 1 .. Len(seq) : more[i] = seq[i]
      /\ more[Len(seq) + 1] = e
      /\ \A i \in 1 .. Len(more) : i \in 1 .. Len(seq) \/ i = Len(seq) + 1
      /\ \A i \in 1 .. Len(seq) : i \in 1 .. Len(more)
      /\ Len(seq) + 1 \in 1 .. Len(more)
  BY <1>1 DEF more
<1>3. \A t : In(t, more) <=> In(t, seq) \/ t = e
  BY <1>2 DEF In
<1>4. Distinct(seq) /\ ~In(e, seq) => Distinct(more)
  BY <1>2 DEF In, Distinct
<1>5. \A t : Once(t, seq) /\ (~In(t, seq) \/ t # e) => Once(t, more)
  BY <1>2 DEF In, Once
<1> QED BY <1>3, <1>4, <1>5 DEF more

LEMMA TailIn ==
    ASSUME NEW S, NEW seq \in Seq(S), seq # <<>>
    PROVE  /\ \A t : In(t, seq) <=> In(t, Tail(seq)) \/ t = Head(seq)
           /\ Distinct(seq) => Distinct(Tail(seq)) /\ ~In(Head(seq), Tail(seq))
           /\ \A t : Once(t, seq) => Once(t, Tail(seq))
           /\ Once(Head(seq), seq) => ~In(Head(seq), Tail(seq))
           /\ Ordered(seq) => Ordered(Tail(seq))
           /\ \A s \in Scan : Ordered(seq) /\ Head(seq) = Closing(s) =>
                                  ~In(Opening(s), Tail(seq))
<1>1. /\ Head(seq) = seq[1] /\ Len(seq) \in Nat \ {0}
      /\ Len(Tail(seq)) = Len(seq) - 1
      /\ \A i \in 1 .. Len(seq) - 1 : Tail(seq)[i] = seq[i + 1]
  BY TailOf
<1> DEFINE rest == Tail(seq)
<1> DEFINE head == Head(seq)
<1> HIDE DEF rest, head
<1>2. /\ head = seq[1] /\ 1 \in 1 .. Len(seq) /\ Len(seq) \in Nat
      /\ \A i \in 1 .. Len(rest) : i + 1 \in 2 .. Len(seq) /\ rest[i] = seq[i + 1]
      /\ \A i \in 2 .. Len(seq) : i - 1 \in 1 .. Len(rest) /\ rest[i - 1] = seq[i]
      /\ \A i \in 1 .. Len(seq) : i = 1 \/ i \in 2 .. Len(seq)
      /\ \A i \in 2 .. Len(seq) : i \in 1 .. Len(seq) /\ i # 1 /\ ~(i < 1)
  BY <1>1 DEF rest, head
<1>3. \A t : In(t, seq) <=> In(t, rest) \/ t = head
  BY <1>2 DEF In
<1>4. Distinct(seq) => Distinct(rest)
  BY <1>2 DEF Distinct
<1>5. Distinct(seq) => ~In(head, rest)
  BY <1>2 DEF Distinct, In
<1>a. \A i \in 1 .. Len(rest) : i \in Int /\ i + 1 \in 1 .. Len(seq) /\ rest[i] = seq[i + 1]
  BY <1>2
<1>6. \A t : Once(t, seq) => Once(t, rest)
  <2> SUFFICES ASSUME NEW t, Once(t, seq), NEW i \in 1 .. Len(rest),
                      NEW j \in 1 .. Len(rest), rest[i] = t, rest[j] = t
               PROVE  i = j
    BY DEF Once
  <2>1. i + 1 = j + 1
    BY <1>a DEF Once
  <2> QED BY <1>a, <2>1
<1>7. Once(head, seq) => ~In(head, rest)
  BY <1>2 DEF Once, In
<1>8. Ordered(seq) => Ordered(rest)
  <2> SUFFICES ASSUME Ordered(seq), NEW s \in Scan, NEW i \in 1 .. Len(rest),
                      NEW j \in 1 .. Len(rest), rest[i] = Closing(s), rest[j] = Opening(s)
               PROVE  j < i
    BY DEF Ordered
  <2>1. j + 1 < i + 1
    BY <1>a DEF Ordered
  <2> QED BY <1>a, <2>1
<1>9. \A s \in Scan : Ordered(seq) /\ head = Closing(s) => ~In(Opening(s), rest)
  BY <1>2 DEF Ordered, In
<1> QED BY <1>3, <1>4, <1>5, <1>6, <1>7, <1>8, <1>9 DEF rest, head

\* An opening may be queued behind everything but its own closing.
LEMMA AppendOrdered ==
    ASSUME NEW seq \in Seq(Task), NEW t \in Task, Ordered(seq),
           t.kind = "OPEN" => ~In(Closing(t.scan), seq)
    PROVE  Ordered(Append(seq, t))
<1> DEFINE more == Append(seq, t)
<1>1. /\ Len(more) = Len(seq) + 1
      /\ \A i \in 1 .. Len(seq) : more[i] = seq[i]
      /\ more[Len(seq) + 1] = t
      /\ Len(seq) \in Nat
  BY AppendTo
<1> HIDE DEF more
<1> SUFFICES ASSUME NEW s \in Scan, NEW i \in 1 .. Len(more), NEW j \in 1 .. Len(more),
                    more[i] = Closing(s), more[j] = Opening(s)
             PROVE  j < i
  BY DEF Ordered, more
<1>2. i # j
  BY DEF Opening, Closing
<1>3. CASE i \in 1 .. Len(seq) /\ j \in 1 .. Len(seq)
  BY <1>1, <1>3 DEF Ordered
<1>4. CASE i = Len(seq) + 1
  BY <1>1, <1>2, <1>4
<1>5. CASE j = Len(seq) + 1 /\ i \in 1 .. Len(seq)
  <2>1. t = Opening(s) /\ seq[i] = Closing(s)
    BY <1>1, <1>5
  <2>2. In(Closing(t.scan), seq) /\ t.kind = "OPEN"
    BY <1>5, <2>1 DEF In, Opening
  <2> QED BY <2>2
<1> QED BY <1>1, <1>3, <1>4, <1>5

-----------------------------------------------------------------------------
(* Tasks and calls. *)

LEMMA TaskForms ==
    /\ \A s \in Scan : /\ Opening(s) \in Task /\ Closing(s) \in Task
                       /\ Opening(s).kind = "OPEN" /\ Opening(s).scan = s
                       /\ Closing(s).kind = "CLOSE" /\ Closing(s).scan = s
    /\ \A t \in Task : /\ t.scan \in Scan
                       /\ \/ t.kind = "OPEN" /\ t = Opening(t.scan)
                          \/ t.kind = "CLOSE" /\ t = Closing(t.scan)
BY DEF Opening, Closing, Task, Kind

LEMMA CallForms ==
    /\ NoCall \notin Call
    /\ \A t \in Task :
         LET c == [kind |-> t.kind, scan |-> t.scan, result |-> "none"]
         IN c \in Call /\ c.kind = t.kind /\ c.scan = t.scan /\ c.result = "none"
    /\ \A c \in Call, r \in {"none", "ok", "failed"} :
         LET d == [c EXCEPT !.result = r]
         IN d \in Call /\ d.kind = c.kind /\ d.scan = c.scan /\ d.result = r
    /\ \A c \in Call : c.kind \in Kind /\ c.scan \in Scan
                       /\ c.result \in {"none", "ok", "failed"}
BY DEF NoCall, Call, Kind, Task

LEMMA MailForms ==
    /\ \A s \in Scan : Filling(s) \in Mail /\ Filling(s).scan = s
                       /\ Filling(s).type = "FILL_OK"
    /\ \A m \in Mail : m.type \in Message /\ m.scan \in Scan
                       /\ (m.type = "FILL_OK" => m = Filling(m.scan))
    /\ \A s \in Scan, type \in Message :
         LET m == [type |-> type, scan |-> s]
         IN m \in Mail /\ m.type = type /\ m.scan = s
            /\ (type = "FILL_OK" => m = Filling(s))
            /\ (type # "FILL_OK" => \A u \in Scan : m # Filling(u))
BY DEF Filling, Mail, Message

-----------------------------------------------------------------------------
(* What a step that leaves the variables of a part alone leaves of it. *)

LEMMA ThreadFrame ==
    ASSUME IInv, UNCHANGED <<acts, busy, call, strategy, tasks>> PROVE ThreadShape'
BY DEF IInv, ThreadShape

LEMMA TaskFrame ==
    ASSUME IInv, UNCHANGED <<acts, tasks, told>> PROVE TaskShape'
BY DEF IInv, TaskShape, In, Distinct, Ordered

LEMMA OrderFrame ==
    ASSUME IInv, UNCHANGED <<order, told, acts, tasks, messages>> PROVE OrderShape'
BY DEF IInv, OrderShape, In, Once

LEMMA CloseFrame ==
    ASSUME IInv, UNCHANGED <<tasks, cut, call, order>> PROVE CloseShape'
BY DEF IInv, CloseShape, In

LEMMA LiveFrame ==
    ASSUME IInv, UNCHANGED <<order, tasks, label, givenUp, cut, forgotten, call>>
    PROVE  LiveShape'
BY DEF IInv, LiveShape, In

LEMMA FillFrame ==
    ASSUME IInv, UNCHANGED <<order, tasks, messages, fills, givenUp, forgotten, trade>>
    PROVE  FillShape'
BY DEF IInv, FillShape, In

LEMMA TradeFrame ==
    ASSUME IInv, UNCHANGED <<order, messages, trade>>,
           faults' = 0 /\ strategy' # "stopped" => faults = 0 /\ strategy # "stopped"
    PROVE  TradeShape'
BY DEF IInv, TradeShape, Quiet

\* A fault is counted.
LEMMA FaultCounts == ASSUME IInv, Fault PROVE faults' \in Nat /\ faults' # 0
BY DEF IInv, Types, Fault

-----------------------------------------------------------------------------
(* The worker. *)

LEMMA InitIInv == Init => IInv
<1> SUFFICES ASSUME Init PROVE IInv
  OBVIOUS
<1> USE DEF Init
<1>1. Types
  BY DEF Types, Status
<1>2. ThreadShape
  BY DEF ThreadShape
<1>3. \A t : ~In(t, acts) /\ ~In(t, tasks) /\ ~In(t, messages)
  BY DEF In
<1>4. TaskShape
  BY <1>3 DEF TaskShape, Distinct, Ordered
<1>5. OrderShape
  BY <1>3 DEF OrderShape, Once
<1>6. CloseShape
  BY <1>3, CallForms DEF CloseShape
<1>7. LiveShape
  BY <1>3 DEF LiveShape
<1>8. FillShape
  BY <1>3 DEF FillShape
<1>9. TradeShape
  BY DEF TradeShape, Quiet
<1> QED BY <1>1, <1>2, <1>4, <1>5, <1>6, <1>7, <1>8, <1>9 DEF IInv

\* What a prediction tells: nothing the scan has not been told, once.
News(t) ==
    \E s \in Scan : \/ t = Opening(s) /\ told[s] = "none" /\ told'[s] = "OPEN"
                    \/ t = Closing(s) /\ told[s] = "OPEN" /\ told'[s] = "CLOSE"
Told ==
    \A s \in Scan : \/ told'[s] = told[s]
                    \/ told[s] = "none" /\ told'[s] = "OPEN"
                    \/ told[s] = "OPEN" /\ told'[s] = "CLOSE"

LEMMA PredictTells ==
    ASSUME IInv, Predict
    PROVE  /\ told' \in [Scan -> {"none", "OPEN", "CLOSE"}] /\ Told
           /\ acts' \in Seq(Task) /\ Distinct(acts')
           /\ \A t : In(t, acts') => News(t)
           /\ \/ UNCHANGED faults
              \/ faults' \in Nat /\ faults' # 0
<1> USE DEF IInv, Types
<1>1. PICK s \in Scan :
         /\ Due(s) # "none"
         /\ told' = [told EXCEPT ![s] = Due(s)]
         /\ \/ /\ acts' = <<[kind |-> Due(s), scan |-> s]>>
               /\ UNCHANGED bounds
            \/ \E t \in Scan \ {s} :
                 /\ Due(t) # "none"
                 /\ told' = [told EXCEPT ![s] = Due(s), ![t] = Due(t)]
                 /\ acts' = <<[kind |-> Due(s), scan |-> s],
                              [kind |-> Due(t), scan |-> t]>>
                 /\ UNCHANGED bounds
            \/ acts' = <<>> /\ Fault
  BY DEF Predict
<1>2. ASSUME NEW u \in Scan, Due(u) # "none"
      PROVE  \/ Due(u) = "OPEN" /\ told[u] = "none"
                /\ [kind |-> Due(u), scan |-> u] = Opening(u)
             \/ Due(u) = "CLOSE" /\ told[u] = "OPEN"
                /\ [kind |-> Due(u), scan |-> u] = Closing(u)
  BY <1>2 DEF Due, Opening, Closing
<1>3. CASE acts' = <<[kind |-> Due(s), scan |-> s]>> /\ UNCHANGED bounds
  <2>1. told' \in [Scan -> {"none", "OPEN", "CLOSE"}] /\ Told
    BY <1>1, <1>2 DEF Told
  <2>2. [kind |-> Due(s), scan |-> s] \in Task /\ News([kind |-> Due(s), scan |-> s])
    BY <1>1, <1>2, TaskForms DEF News
  <2>3. \A t : In(t, acts') => t = [kind |-> Due(s), scan |-> s]
    BY <1>3 DEF In
  <2>4. Distinct(acts') /\ acts' \in Seq(Task)
    BY <1>3, <2>2 DEF Distinct
  <2> QED BY <1>3, <2>1, <2>2, <2>3, <2>4 DEF bounds
<1>4. CASE \E t \in Scan \ {s} :
                 /\ Due(t) # "none"
                 /\ told' = [told EXCEPT ![s] = Due(s), ![t] = Due(t)]
                 /\ acts' = <<[kind |-> Due(s), scan |-> s],
                              [kind |-> Due(t), scan |-> t]>>
                 /\ UNCHANGED bounds
  <2> PICK t \in Scan \ {s} :
                 /\ Due(t) # "none"
                 /\ told' = [told EXCEPT ![s] = Due(s), ![t] = Due(t)]
                 /\ acts' = <<[kind |-> Due(s), scan |-> s],
                              [kind |-> Due(t), scan |-> t]>>
                 /\ UNCHANGED bounds
    BY <1>4
  <2> DEFINE a == [kind |-> Due(s), scan |-> s]
  <2> DEFINE b == [kind |-> Due(t), scan |-> t]
  <2>1. told' \in [Scan -> {"none", "OPEN", "CLOSE"}] /\ Told
    BY <1>1, <1>2 DEF Told
  <2>2. told'[s] = Due(s) /\ told'[t] = Due(t)
    OBVIOUS
  <2>3. a \in Task /\ b \in Task /\ News(a) /\ News(b)
    BY <1>1, <1>2, <2>2, TaskForms DEF News
  <2>4. a # b
    OBVIOUS
  <2> HIDE DEF a, b
  <2>5. acts' = <<a, b>> /\ UNCHANGED bounds
    BY DEF a, b
  <2>6. Len(acts') = 2 /\ acts'[1] = a /\ acts'[2] = b
    BY <2>5
  <2>7. \A u : In(u, acts') => u = a \/ u = b
    BY <2>6 DEF In
  <2>8. Distinct(acts') /\ acts' \in Seq(Task)
    <3>1. acts' \in Seq(Task)
      BY <2>3, <2>5
    <3>2. \A i \in 1 .. 2 : i = 1 \/ i = 2
      OBVIOUS
    <3> QED BY <2>4, <2>6, <3>1, <3>2 DEF Distinct
  <2> QED BY <2>1, <2>3, <2>5, <2>7, <2>8 DEF bounds
<1>5. CASE acts' = <<>> /\ Fault
  <2>1. told' \in [Scan -> {"none", "OPEN", "CLOSE"}] /\ Told
    BY <1>1, <1>2 DEF Told
  <2> QED BY <1>5, <2>1, FaultCounts DEF In, Distinct
<1> QED BY <1>1, <1>3, <1>4, <1>5

LEMMA PredictIInv == ASSUME IInv, Predict PROVE IInv'
<1>1. /\ told' \in [Scan -> {"none", "OPEN", "CLOSE"}] /\ Told
      /\ acts' \in Seq(Task) /\ Distinct(acts')
      /\ \A t : In(t, acts') => News(t)
      /\ \/ UNCHANGED faults
         \/ faults' \in Nat /\ faults' # 0
  BY PredictTells
<1>2. /\ busy' = TRUE /\ strategy # "stopped"
      /\ UNCHANGED <<strategy, call, tasks, label, fills, order, messages, trade,
                     givenUp, cut, forgotten>>
  BY DEF Predict, booking, broker, histories
<1>3. \A t : In(t, tasks') <=> In(t, tasks)
  BY <1>2 DEF In
<1>4. Types'
  BY <1>1, <1>2 DEF IInv, Types
<1>5. ThreadShape'
  BY <1>2 DEF ThreadShape
<1>6. TaskShape'
  <2>1. ASSUME NEW t \in Task, In(t, acts')
        PROVE  told'[t.scan] = t.kind /\ ~In(t, tasks)
    BY <1>1, <2>1, TaskForms DEF News, IInv, TaskShape
  <2>2. ASSUME NEW t \in Task, In(t, tasks)
        PROVE  told'[t.scan] \in {t.kind, "CLOSE"}
    BY <1>1, <2>2, TaskForms DEF Told, IInv, TaskShape
  <2>3. Distinct(tasks)' /\ Ordered(tasks)'
    BY <1>2 DEF IInv, TaskShape, Distinct, Ordered
  <2>4. Distinct(acts)'
    BY <1>1 DEF Distinct
  <2>5. \A t : In(t, acts)' <=> In(t, acts')
    BY DEF In
  <2> QED BY <1>3, <2>1, <2>2, <2>3, <2>4, <2>5 DEF TaskShape
<1>7. OrderShape'
  <2>1. ASSUME NEW s \in Scan, order[s] # "none"
        PROVE  told'[s] # "none" /\ ~In(Opening(s), acts')
    BY <1>1, <2>1, TaskForms DEF Told, News, IInv, OrderShape
  <2>2. \A t : In(t, messages') <=> In(t, messages)
    BY <1>2 DEF In
  <2>3. \A s \in Scan : Once(Filling(s), messages')
    BY <1>2 DEF IInv, OrderShape
  <2> QED BY <1>2, <1>3, <2>1, <2>2, <2>3 DEF OrderShape, IInv
<1>8. CloseShape' /\ LiveShape' /\ FillShape'
  BY <1>2, CloseFrame, LiveFrame, FillFrame
<1>9. TradeShape'
  BY <1>1, <1>2, TradeFrame
<1> QED BY <1>4, <1>5, <1>6, <1>7, <1>8, <1>9 DEF IInv

LEMMA DoneIInv == ASSUME IInv, Done PROVE IInv'
<1>1. /\ acts = <<>> /\ call = NoCall /\ busy' = FALSE /\ busy
      /\ UNCHANGED <<told, strategy, acts, call, tasks, label, fills, order,
                     messages, trade, faults, givenUp, cut, forgotten>>
  BY DEF Done, Executing, booking, broker, bounds, histories
<1>2. Types'
  BY <1>1 DEF IInv, Types
<1>3. ThreadShape'
  BY <1>1 DEF IInv, ThreadShape
<1> QED BY <1>1, <1>2, <1>3, TaskFrame, OrderFrame, CloseFrame, LiveFrame,
           FillFrame, TradeFrame DEF IInv

LEMMA SkipIInv == ASSUME IInv, Skip PROVE IInv'
<1>1. /\ acts # <<>> /\ acts' = Tail(acts) /\ busy
      /\ UNCHANGED <<told, strategy, busy, call, tasks, label, fills, order,
                     messages, trade, faults, givenUp, cut, forgotten>>
  BY DEF Skip, Executing, booking, broker, bounds, histories
<1>2. acts \in Seq(Task) /\ Distinct(acts)
  BY DEF IInv, Types, TaskShape
<1>3. /\ acts' \in Seq(Task)
      /\ \A t : In(t, acts)' => In(t, acts)
      /\ Distinct(acts)'
  BY <1>1, <1>2, TailOf, TailIn DEF In, Distinct
<1>4. Types'
  BY <1>1, <1>3 DEF IInv, Types
<1>5. ThreadShape'
  BY <1>1 DEF IInv, ThreadShape
<1>6. /\ \A t : In(t, tasks)' <=> In(t, tasks)
      /\ \A t : In(t, messages)' <=> In(t, messages)
      /\ Distinct(tasks)' /\ Ordered(tasks)'
      /\ \A s \in Scan : Once(Filling(s), messages)'
  BY <1>1 DEF In, IInv, TaskShape, OrderShape, Distinct, Ordered, Once
<1>7. TaskShape'
  BY <1>1, <1>3, <1>6 DEF IInv, TaskShape
<1>8. OrderShape'
  BY <1>1, <1>3, <1>6 DEF IInv, OrderShape
<1> QED BY <1>1, <1>4, <1>5, <1>7, <1>8, CloseFrame, LiveFrame, FillFrame,
           TradeFrame DEF IInv

\* What is common to Submit and Close.
Asks ==
    /\ acts # <<>> /\ call = NoCall /\ busy
    /\ Ask(Head(acts))
    /\ UNCHANGED <<told, strategy, busy, order, messages, trade, faults,
                   givenUp, cut, forgotten>>

LEMMA AskShape ==
    ASSUME IInv, Asks
    PROVE  /\ Types' /\ ThreadShape' /\ TaskShape' /\ OrderShape' /\ TradeShape'
           /\ Head(acts) \in Task
           /\ \A t : In(t, tasks)' <=> In(t, tasks) \/ t = Head(acts)
           /\ call' \in Call /\ call'.kind = Head(acts).kind
           /\ call'.scan = Head(acts).scan /\ call'.result = "none"
<1> DEFINE t == Head(acts)
<1>1. /\ acts \in Seq(Task) /\ tasks \in Seq(Task)
      /\ Distinct(acts) /\ Distinct(tasks) /\ Ordered(tasks)
  BY DEF IInv, Types, TaskShape
<1>2. t \in Task /\ In(t, acts) /\ acts' = Tail(acts) /\ tasks' = Append(tasks, t)
  BY <1>1, TailOf, TailIn DEF Asks, Ask
<1>3. call' = [kind |-> t.kind, scan |-> t.scan, result |-> "none"]
  BY DEF Asks, Ask
<1>4. /\ call' \in Call /\ call'.kind = t.kind /\ call'.scan = t.scan
      /\ call'.result = "none"
  BY <1>2, <1>3, CallForms
<1>5. ~In(t, tasks) /\ told[t.scan] = t.kind
  BY <1>2 DEF IInv, TaskShape
<1> HIDE DEF t
<1>6. /\ \A u : In(u, acts') => In(u, acts) /\ u # t
      /\ Distinct(acts') /\ acts' \in Seq(Task)
  BY <1>1, <1>2, TailOf, TailIn DEF Asks, t
<1>7. /\ \A u : In(u, tasks') <=> In(u, tasks) \/ u = t
      /\ Distinct(tasks') /\ tasks' \in Seq(Task)
  BY <1>1, <1>2, <1>5, AppendTo, AppendIn
<1>8. Ordered(tasks')
  <2>1. ASSUME t.kind = "OPEN" PROVE ~In(Closing(t.scan), tasks)
    <3>1. Closing(t.scan) \in Task /\ Closing(t.scan).kind = "CLOSE"
          /\ Closing(t.scan).scan = t.scan
      BY <1>2, TaskForms
    <3>2. In(Closing(t.scan), tasks) => told[t.scan] = "CLOSE"
      BY <3>1 DEF IInv, TaskShape
    <3> QED BY <1>5, <2>1, <3>2
  <2> QED BY <1>1, <1>2, <2>1, AppendOrdered
<1>9. /\ \A u : In(u, acts)' <=> In(u, acts')
      /\ \A u : In(u, tasks)' <=> In(u, tasks')
      /\ \A u : In(u, messages)' <=> In(u, messages)
      /\ Distinct(acts)' /\ Distinct(tasks)' /\ Ordered(tasks)'
      /\ \A s \in Scan : Once(Filling(s), messages)'
  BY <1>6, <1>7, <1>8 DEF In, Distinct, Ordered, Once, Asks, IInv, OrderShape
<1>10. Types'
  BY <1>4, <1>6, <1>7 DEF IInv, Types, Asks
<1>11. ThreadShape'
  BY DEF IInv, ThreadShape, Asks
<1>12. TaskShape'
  <2>1. told' = told
    BY DEF Asks
  <2>2. ASSUME NEW u \in Task
        PROVE  /\ In(u, acts') => told[u.scan] = u.kind /\ ~In(u, tasks')
               /\ In(u, tasks') => told[u.scan] \in {u.kind, "CLOSE"}
    BY <1>5, <1>6, <1>7 DEF IInv, TaskShape
  <2> QED BY <1>9, <2>1, <2>2 DEF TaskShape
<1>13. OrderShape'
  <2>1. UNCHANGED <<order, told, messages>>
    BY DEF Asks
  <2>2. ASSUME NEW s \in Scan, order[s] # "none"
        PROVE  ~In(Opening(s), acts') /\ ~In(Opening(s), tasks')
    BY <1>2, <1>6, <1>7, <2>2 DEF IInv, OrderShape
  <2> QED BY <1>9, <2>1, <2>2 DEF IInv, OrderShape
<1>14. TradeShape'
  BY TradeFrame DEF Asks
<1> QED BY <1>2, <1>4, <1>7, <1>9, <1>10, <1>11, <1>12, <1>13, <1>14 DEF t

LEMMA SubmitIInv == ASSUME IInv, Submit PROVE IInv'
<1>1. Asks /\ Head(acts).kind = "OPEN"
      /\ label' = label \union {Head(acts).scan}
      /\ fills' = fills \union {Head(acts).scan}
  BY DEF Submit, Asks, Executing, Ask, broker, bounds, histories
<1>2. /\ Types' /\ ThreadShape' /\ TaskShape' /\ OrderShape' /\ TradeShape'
      /\ Head(acts) \in Task
      /\ \A t : In(t, tasks)' <=> In(t, tasks) \/ t = Head(acts)
      /\ call' \in Call /\ call'.kind = "OPEN" /\ call'.result = "none"
  BY <1>1, AskShape
<1>3. /\ Head(acts) = Opening(Head(acts).scan) /\ Head(acts).scan \in Scan
      /\ \A s \in Scan : Closing(s) # Head(acts)
      /\ \A s \in Scan : Opening(s) = Head(acts) => s = Head(acts).scan
  BY <1>1, <1>2, TaskForms
<1>4. call \notin Call
      /\ UNCHANGED <<order, messages, trade, givenUp, cut, forgotten>>
  BY <1>1, CallForms DEF Asks
<1>5. CloseShape'
  BY <1>2, <1>3, <1>4 DEF IInv, CloseShape
<1>6. LiveShape'
  BY <1>1, <1>2, <1>3, <1>4 DEF IInv, LiveShape
<1>7. FillShape'
  <2>1. \A t : In(t, messages)' <=> In(t, messages)
    BY <1>4 DEF In
  <2> QED BY <1>1, <1>2, <1>3, <1>4, <2>1 DEF IInv, FillShape
<1> QED BY <1>2, <1>5, <1>6, <1>7 DEF IInv

LEMMA CloseIInv == ASSUME IInv, Close PROVE IInv'
<1>1. Asks /\ Head(acts).kind = "CLOSE"
      /\ label' = label \ {Head(acts).scan} /\ fills' = fills
  BY DEF Close, Asks, Executing, Ask, broker, bounds, histories, Unlabelled
<1>2. /\ Types' /\ ThreadShape' /\ TaskShape' /\ OrderShape' /\ TradeShape'
      /\ Head(acts) \in Task
      /\ \A t : In(t, tasks)' <=> In(t, tasks) \/ t = Head(acts)
      /\ call' \in Call /\ call'.kind = "CLOSE" /\ call'.result = "none"
      /\ call'.scan = Head(acts).scan
  BY <1>1, AskShape
<1>3. /\ Head(acts) = Closing(Head(acts).scan) /\ Head(acts).scan \in Scan
      /\ \A s \in Scan : Opening(s) # Head(acts)
      /\ \A s \in Scan : Closing(s) = Head(acts) => s = Head(acts).scan
  BY <1>1, <1>2, TaskForms
<1>4. call \notin Call
      /\ UNCHANGED <<order, messages, trade, givenUp, cut, forgotten>>
  BY <1>1, CallForms DEF Asks
<1>5. CloseShape'
  BY <1>2, <1>3, <1>4 DEF IInv, CloseShape
<1>6. LiveShape'
  BY <1>1, <1>2, <1>3, <1>4 DEF IInv, LiveShape
<1>7. FillShape'
  <2>1. \A t : In(t, messages)' <=> In(t, messages)
    BY <1>4 DEF In
  <2> QED BY <1>1, <1>2, <1>3, <1>4, <2>1 DEF IInv, FillShape
<1> QED BY <1>2, <1>5, <1>6, <1>7 DEF IInv

\* The outcome of a call, and what else it leaves alone.
LEMMA SettleIInv ==
    ASSUME IInv, call # NoCall, NEW ok \in BOOLEAN, Settle(ok),
           ok => call.result = "ok",
           \/ call.result # "none"
           \/ ~ok,
           UNCHANGED <<told, strategy, acts, busy, tasks, order, messages, trade,
                       forgotten>>,
           faults' = faults \/ (faults' \in Nat /\ faults' # 0)
    PROVE  IInv'
<1>1. /\ call \in Call /\ call' = NoCall /\ NoCall \notin Call
      /\ call.kind \in {"OPEN", "CLOSE"} /\ call.scan \in Scan
  BY CallForms DEF IInv, Types, Settle, Kind
<1>2. /\ \A t : In(t, tasks)' <=> In(t, tasks)
      /\ \A t : In(t, messages)' <=> In(t, messages)
  BY DEF In
<1>3. /\ ok \/ call.kind = "CLOSE" => UNCHANGED <<label, fills, givenUp>>
      /\ ~ok /\ call.kind = "OPEN" =>
            /\ label' = label \ {call.scan} /\ fills' = fills \ {call.scan}
            /\ givenUp' = givenUp \union {call.scan}
      /\ cut' = IF ok \/ call.kind = "OPEN" THEN cut ELSE cut \union {call.scan}
  BY <1>1 DEF Settle
<1>4. Types'
  BY <1>1 DEF IInv, Types
<1>5. ThreadShape'
  BY <1>1 DEF IInv, ThreadShape
<1>6. CloseShape'
  BY <1>1, <1>2, <1>3 DEF IInv, CloseShape
<1>7. LiveShape'
  <2> SUFFICES ASSUME NEW s \in Scan,
                      order[s] \in {"submitted", "filled"} \/ In(Opening(s), tasks)
               PROVE  \/ s \in label' \union givenUp' \union cut' \union forgotten'
                      \/ In(Closing(s), tasks)
    BY <1>2 DEF LiveShape
  <2>1. CASE call.kind = "CLOSE" /\ call.scan = s
    BY <1>1, <1>3, <2>1 DEF IInv, CloseShape
  <2>2. CASE ~(call.kind = "CLOSE" /\ call.scan = s)
    BY <1>1, <1>3, <2>2 DEF IInv, LiveShape
  <2> QED BY <2>1, <2>2
<1>8. FillShape'
  BY <1>1, <1>2, <1>3 DEF IInv, FillShape
<1>9. TradeShape'
  BY TradeFrame
<1> QED BY <1>4, <1>5, <1>6, <1>7, <1>8, <1>9, TaskFrame, OrderFrame DEF IInv

LEMMA ReturnsIInv == ASSUME IInv, Returns PROVE IInv'
<1>1. call # NoCall /\ call.result # "none" /\ Settle(call.result = "ok")
  BY DEF Returns
<1>2. UNCHANGED <<told, strategy, acts, busy, tasks, order, messages, trade,
                  forgotten, faults>>
  BY DEF Returns, broker, bounds
<1>3. (call.result = "ok") \in BOOLEAN
  OBVIOUS
<1> QED BY <1>1, <1>2, <1>3, SettleIInv

LEMMA TimesOutIInv == ASSUME IInv, TimesOut PROVE IInv'
<1>1. call # NoCall /\ Settle(FALSE)
  BY DEF TimesOut
<1>2. UNCHANGED <<told, strategy, acts, busy, tasks, order, messages, trade,
                  forgotten>>
  BY DEF TimesOut, broker
<1>3. faults' = faults \/ (faults' \in Nat /\ faults' # 0)
  BY FaultCounts DEF TimesOut, bounds
<1> QED BY <1>1, <1>2, <1>3, SettleIInv

-----------------------------------------------------------------------------
(* The strategy thread. *)

LEMMA QueuesSame ==
    ASSUME IInv, UNCHANGED <<acts, tasks>>
    PROVE  /\ \A t : In(t, acts)' <=> In(t, acts)
           /\ \A t : In(t, tasks)' <=> In(t, tasks)
           /\ Distinct(acts)' /\ Distinct(tasks)' /\ Ordered(tasks)'
BY DEF In, Distinct, Ordered, IInv, TaskShape

\* A task answers the call that waits for it, and no other.
LEMMA AnsweredShape ==
    ASSUME IInv, NEW t \in Task, NEW r \in {"ok", "failed"}, call' = Answered(t, r)
    PROVE  /\ call' \in {NoCall} \union Call
           /\ (call = NoCall <=> call' = NoCall) /\ (call \in Call <=> call' \in Call)
           /\ call # NoCall /\ call.kind = t.kind /\ call.scan = t.scan =>
                  call'.kind = call.kind /\ call'.scan = call.scan /\ call'.result = r
           /\ ~(call # NoCall /\ call.kind = t.kind /\ call.scan = t.scan) => call' = call
<1>1. call \in {NoCall} \union Call
  BY DEF IInv, Types
<1>2. CASE call # NoCall /\ call.kind = t.kind /\ call.scan = t.scan
  <2>1. call' = [call EXCEPT !.result = r] /\ call \in Call
    BY <1>1, <1>2 DEF Answered
  <2>2. call' \in Call /\ call'.kind = call.kind /\ call'.scan = call.scan
        /\ call'.result = r
    BY <2>1 DEF Call
  <2>3. call' # NoCall /\ call # NoCall
    BY <2>1, <2>2, CallForms
  <2> HIDE DEF NoCall
  <2> QED BY <1>2, <2>1, <2>2, <2>3
<1>3. CASE ~(call # NoCall /\ call.kind = t.kind /\ call.scan = t.scan)
  BY <1>1, <1>3 DEF Answered
<1> QED BY <1>2, <1>3

\* The order after its task, if the task did not fail.
Ran(t) ==
    IF t.kind = "OPEN" THEN "submitted"
    ELSE IF order[t.scan] = "filled" THEN "closing"
    ELSE IF order[t.scan] = "submitted" THEN "cancelling" ELSE order[t.scan]

LEMMA RunTaskIInv == ASSUME IInv, RunTask PROVE IInv'
<1> DEFINE t == Head(tasks)
<1>1. /\ strategy = "free" /\ tasks # <<>> /\ tasks' = Tail(tasks)
      /\ UNCHANGED <<told, strategy, acts, busy, label, fills, messages, trade,
                     givenUp, cut, forgotten>>
      /\ \/ /\ order' = [order EXCEPT ![t.scan] = Ran(t)]
            /\ call' = Answered(t, "ok") /\ faults' = faults
         \/ call' = Answered(t, "failed") /\ order' = order /\ Fault
  BY DEF RunTask, booking, histories, bounds, Ran
<1>2. tasks \in Seq(Task) /\ Distinct(tasks) /\ Ordered(tasks)
      /\ call \in {NoCall} \union Call
  BY DEF IInv, Types, TaskShape
<1>3. t \in Task /\ tasks' \in Seq(Task)
  BY <1>1, <1>2, TailOf
<1> HIDE DEF t
<1>4. /\ \A u : In(u, tasks) <=> In(u, tasks') \/ u = t
      /\ Distinct(tasks') /\ ~In(t, tasks') /\ Ordered(tasks')
      /\ \A s \in Scan : t = Closing(s) => ~In(Opening(s), tasks')
  BY <1>1, <1>2, TailIn DEF t
<1>5. /\ \A u : In(u, tasks)' <=> In(u, tasks')
      /\ \A u : In(u, acts)' <=> In(u, acts)
      /\ \A u : In(u, messages)' <=> In(u, messages)
      /\ Distinct(acts)' /\ Distinct(tasks)' /\ Ordered(tasks)'
      /\ \A s \in Scan : Once(Filling(s), messages)'
  BY <1>1, <1>4 DEF In, Distinct, Ordered, Once, IInv, TaskShape, OrderShape
<1>6. PICK r \in {"ok", "failed"} :
        /\ call' = Answered(t, r)
        /\ r = "ok" => order' = [order EXCEPT ![t.scan] = Ran(t)] /\ faults' = faults
        /\ r = "failed" => order' = order /\ faults' \in Nat /\ faults' # 0
  BY <1>1, FaultCounts
<1>7. /\ call' \in {NoCall} \union Call
      /\ (call = NoCall <=> call' = NoCall) /\ (call \in Call <=> call' \in Call)
      /\ call # NoCall /\ call.kind = t.kind /\ call.scan = t.scan =>
             call'.kind = call.kind /\ call'.scan = call.scan /\ call'.result = r
      /\ ~(call # NoCall /\ call.kind = t.kind /\ call.scan = t.scan) => call' = call
  BY <1>3, <1>6, AnsweredShape
<1>8. /\ t.scan \in Scan
      /\ \/ t.kind = "OPEN" /\ t = Opening(t.scan)
         \/ t.kind = "CLOSE" /\ t = Closing(t.scan)
      /\ \A s \in Scan : /\ Opening(s) \in Task /\ Closing(s) \in Task
                         /\ Opening(s) = t => t.kind = "OPEN" /\ t.scan = s
                         /\ Closing(s) = t => t.kind = "CLOSE" /\ t.scan = s
  BY <1>3, TaskForms
<1>9. order \in [Scan -> Status]
  BY DEF IInv, Types
\* What becomes of the order of any scan.
<1>10. ASSUME NEW s \in Scan
       PROVE  \/ order'[s] = order[s]
              \/ t = Opening(s) /\ order[s] = "none" /\ order'[s] = "submitted" /\ r = "ok"
              \/ t = Closing(s) /\ r = "ok"
                    /\ \/ order[s] = "filled" /\ order'[s] = "closing"
                       \/ order[s] = "submitted" /\ order'[s] = "cancelling"
  <2>1. In(t, tasks)
    BY <1>4
  <2>2. t = Opening(s) => order[s] = "none"
    BY <2>1 DEF IInv, OrderShape
  <2> QED BY <1>6, <1>8, <1>9, <2>2 DEF Ran
<1>11. ASSUME NEW s \in Scan, t = Closing(s), r = "ok"
       PROVE  order'[s] \notin {"submitted", "filled"}
  BY <1>6, <1>8, <1>9, <1>11 DEF Ran
<1>12. Types'
  <2>1. order' \in [Scan -> Status]
    BY <1>6, <1>8, <1>9 DEF Ran, Status
  <2> QED BY <1>1, <1>3, <1>6, <1>7, <2>1 DEF IInv, Types
<1>13. ThreadShape'
  BY <1>1, <1>7 DEF IInv, ThreadShape
<1>14. TaskShape'
  BY <1>1, <1>4, <1>5 DEF IInv, TaskShape
<1>15. OrderShape'
  <2> SUFFICES ASSUME NEW s \in Scan
               PROVE  /\ order'[s] # "none" =>
                            told[s] # "none" /\ ~In(Opening(s), acts)
                            /\ ~In(Opening(s), tasks')
                      /\ In(Filling(s), messages) =>
                            order'[s] \notin {"none", "submitted", "cancelling"}
    BY <1>1, <1>5 DEF OrderShape
  <2>1. CASE t = Opening(s) /\ order[s] = "none" /\ order'[s] = "submitted" /\ r = "ok"
    <3>1. In(Opening(s), tasks) /\ ~In(Opening(s), tasks')
      BY <1>4, <2>1
    <3>2. ~In(Opening(s), acts) /\ told[s] # "none"
      BY <1>8, <2>1, <3>1, TaskForms DEF IInv, TaskShape
    <3>3. ~In(Filling(s), messages)
      BY <2>1 DEF IInv, OrderShape
    <3> QED BY <3>1, <3>2, <3>3
  <2>2. CASE order'[s] = order[s]
    BY <1>4, <2>2 DEF IInv, OrderShape
  <2>3. CASE \/ order[s] = "filled" /\ order'[s] = "closing"
             \/ order[s] = "submitted" /\ order'[s] = "cancelling"
    BY <1>4, <2>3 DEF IInv, OrderShape
  <2> QED BY <1>10, <2>1, <2>2, <2>3
<1>16. CloseShape'
  <2> SUFFICES ASSUME NEW s \in Scan
               PROVE  /\ In(Closing(s), tasks') =>
                           \/ s \in cut
                           \/ call' \in Call /\ call'.kind = "CLOSE" /\ call'.scan = s
                              /\ call'.result = "none"
                      /\ call' \in Call /\ call'.kind = "CLOSE" /\ call'.scan = s
                         /\ call'.result = "ok" =>
                           s \in cut \/ (order'[s] \notin {"submitted", "filled"}
                                         /\ ~In(Opening(s), tasks'))
    BY <1>1, <1>5 DEF CloseShape
  <2>1. ASSUME In(Closing(s), tasks'), s \notin cut
        PROVE  call' \in Call /\ call'.kind = "CLOSE" /\ call'.scan = s
               /\ call'.result = "none"
    <3>1. In(Closing(s), tasks) /\ Closing(s) # t
      BY <1>4, <2>1
    <3>2. call \in Call /\ call.kind = "CLOSE" /\ call.scan = s /\ call.result = "none"
      BY <2>1, <3>1 DEF IInv, CloseShape
    <3> QED BY <1>7, <1>8, <3>1, <3>2
  <2>2. ASSUME call' \in Call, call'.kind = "CLOSE", call'.scan = s, call'.result = "ok",
               s \notin cut
        PROVE  order'[s] \notin {"submitted", "filled"} /\ ~In(Opening(s), tasks')
    <3>1. CASE t = Closing(s)
      <4>1. r = "ok"
        BY <1>6, <1>7, <1>8, <2>2, <3>1, CallForms
      <4> QED BY <1>4, <1>11, <3>1, <4>1
    <3>2. CASE t # Closing(s)
      <4>1. call' = call
        BY <1>7, <1>8, <2>2, <3>2
      <4>2. order[s] \notin {"submitted", "filled"} /\ ~In(Opening(s), tasks)
        BY <2>2, <4>1 DEF IInv, CloseShape
      <4> QED BY <1>4, <1>10, <3>2, <4>2
    <3> QED BY <3>1, <3>2
  <2> QED BY <2>1, <2>2
<1>17. LiveShape'
  <2> SUFFICES ASSUME NEW s \in Scan,
                      order'[s] \in {"submitted", "filled"} \/ In(Opening(s), tasks')
               PROVE  \/ s \in label \union givenUp \union cut \union forgotten
                      \/ call' \in Call /\ call'.kind = "CLOSE" /\ call'.scan = s
                      \/ In(Closing(s), tasks')
    BY <1>1, <1>5 DEF LiveShape
  <2>1. order[s] \in {"submitted", "filled"} \/ In(Opening(s), tasks)
    BY <1>4, <1>10
  <2>2. CASE s \in label \union givenUp \union cut \union forgotten
    BY <2>2
  <2>3. ASSUME call \in Call, call.kind = "CLOSE", call.scan = s
        PROVE  call' \in Call /\ call'.kind = "CLOSE" /\ call'.scan = s
    BY <1>7, <2>3
  <2>4. CASE In(Closing(s), tasks)
    <3>1. CASE t = Closing(s)
      BY <2>3, <2>4 DEF IInv, CloseShape
    <3>2. CASE t # Closing(s)
      BY <1>4, <2>4, <3>2
    <3> QED BY <3>1, <3>2
  <2> QED BY <2>1, <2>2, <2>3, <2>4 DEF IInv, LiveShape
<1>18. FillShape'
  <2> SUFFICES ASSUME NEW s \in Scan
               PROVE  /\ \/ order'[s] \in {"submitted", "cancelling"}
                         \/ In(Opening(s), tasks') \/ In(Filling(s), messages)
                         => s \in fills \union givenUp \union forgotten
                      /\ trade[s] = "STRAY" => s \in givenUp \union forgotten
    BY <1>1, <1>5 DEF FillShape
  <2> QED BY <1>4, <1>10 DEF IInv, FillShape
<1>19. TradeShape'
  <2> SUFFICES ASSUME faults' = 0 PROVE TradeShape'
    BY DEF TradeShape
  <2>1. faults = 0 /\ strategy # "stopped"
    BY <1>1, <1>6
  <2>2. \A s \in Scan : Quiet(s)' <=> Quiet(s)
    BY <1>1 DEF Quiet
  <2> QED BY <1>1, <1>10, <2>1, <2>2 DEF IInv, TradeShape
<1> QED BY <1>12, <1>13, <1>14, <1>15, <1>16, <1>17, <1>18, <1>19 DEF IInv

LEMMA WaitIInv ==
    ASSUME IInv, Drain \/ Drained \/ Stop \/ Pause
    PROVE  IInv'
<1>1. /\ strategy' \in {"free", "draining", "stopping"} /\ strategy # "stopped"
      /\ UNCHANGED <<told, acts, busy, call, tasks, label, fills, order, messages,
                     trade, faults, givenUp, cut, forgotten>>
  BY DEF Drain, Drained, Stop, Pause, worker, booking, broker, bounds, histories
<1>2. Types' /\ ThreadShape'
  BY <1>1 DEF IInv, Types, ThreadShape
<1> QED BY <1>1, <1>2, TaskFrame, OrderFrame, CloseFrame, LiveFrame, FillFrame,
           TradeFrame DEF IInv

\* A strategy that stops or starts again has no tasks.
LEMMA EmptyTasks ==
    ASSUME IInv, tasks' = <<>>, UNCHANGED <<acts, told>>
    PROVE  /\ \A t : ~In(t, tasks)' /\ (In(t, acts)' <=> In(t, acts))
           /\ TaskShape'
<1>1. \A t : ~In(t, tasks)' /\ (In(t, acts)' <=> In(t, acts))
  BY DEF In
<1>2. Distinct(acts)' /\ Distinct(tasks)' /\ Ordered(tasks)'
  BY DEF Distinct, Ordered, IInv, TaskShape
<1> QED BY <1>1, <1>2 DEF IInv, TaskShape

LEMMA StoppedIInv == ASSUME IInv, Stopped PROVE IInv'
<1>1. /\ ~busy /\ strategy' = "stopped" /\ tasks' = <<>>
      /\ UNCHANGED <<told, acts, busy, call, label, fills, order, messages,
                     trade, faults, givenUp, cut, forgotten>>
  BY DEF Stopped, worker, booking, broker, bounds, histories
<1>2. call = NoCall /\ call \notin Call /\ call' \notin Call
  BY <1>1, CallForms DEF IInv, ThreadShape
<1>3. /\ \A t : ~In(t, tasks)' /\ (In(t, acts)' <=> In(t, acts))
      /\ TaskShape'
  BY <1>1, EmptyTasks
<1>4. \A t : In(t, messages)' <=> In(t, messages)
  BY <1>1 DEF In
<1>5. Types' /\ ThreadShape'
  BY <1>1 DEF IInv, Types, ThreadShape
<1>6. OrderShape'
  <2>1. \A s \in Scan : Once(Filling(s), messages)'
    BY <1>1 DEF IInv, OrderShape, Once
  <2> QED BY <1>1, <1>3, <1>4, <2>1 DEF IInv, OrderShape
<1>7. CloseShape'
  BY <1>2, <1>3 DEF CloseShape
<1>8. LiveShape'
  BY <1>1, <1>2, <1>3 DEF IInv, LiveShape, CloseShape
<1>9. FillShape'
  BY <1>1, <1>3, <1>4 DEF IInv, FillShape
<1>10. TradeShape'
  BY <1>1 DEF TradeShape
<1> QED BY <1>3, <1>5, <1>6, <1>7, <1>8, <1>9, <1>10 DEF IInv

LEMMA RestartIInv == ASSUME IInv, Restart PROVE IInv'
<1>1. /\ strategy = "stopped" /\ strategy' = "free"
      /\ faults' \in Nat /\ faults' # 0
      /\ label' = {} /\ fills' = {} /\ messages' = <<>>
      /\ forgotten' = forgotten \union label \union fills
      /\ UNCHANGED <<told, acts, busy, call, tasks, order, trade, givenUp, cut>>
  BY FaultCounts DEF Restart, worker
<1>2. tasks = <<>> /\ ~busy /\ acts = <<>> /\ call = NoCall /\ call \notin Call
  BY <1>1, CallForms DEF IInv, ThreadShape
<1>3. \A t : ~In(t, tasks)' /\ ~In(t, tasks) /\ ~In(t, acts)' /\ ~In(t, messages)'
  BY <1>1, <1>2 DEF In
<1>4. Types' /\ ThreadShape'
  BY <1>1 DEF IInv, Types, ThreadShape
<1>5. OrderShape'
  BY <1>1, <1>3 DEF IInv, OrderShape, Once
<1>6. CloseShape' /\ LiveShape' /\ FillShape'
  BY <1>1, <1>2, <1>3 DEF IInv, CloseShape, LiveShape, FillShape
<1>7. TradeShape'
  BY <1>1 DEF TradeShape
<1> QED BY <1>1, <1>4, <1>5, <1>6, <1>7, TaskFrame DEF IInv

LEMMA DeliverIInv == ASSUME IInv, Deliver PROVE IInv'
<1> DEFINE m == Head(messages)
<1>1. /\ strategy = "free" /\ messages # <<>> /\ messages' = Tail(messages)
      /\ fills' = IF m.type = "FILL_OK" THEN fills \ {m.scan} ELSE fills
      /\ \/ trade' = [trade EXCEPT ![m.scan] = Reported(m)] /\ faults' = faults
         \/ trade' = trade /\ Fault
      /\ UNCHANGED <<told, strategy, acts, busy, call, tasks, label, order,
                     givenUp, cut, forgotten>>
  BY DEF Deliver, worker, histories, bounds
<1>2. messages \in Seq(Mail) /\ trade \in [Scan -> {"none", "OPEN", "STRAY", "CLOSED"}]
  BY DEF IInv, Types
<1>3. /\ m \in Mail /\ messages' \in Seq(Mail) /\ m = messages[1]
      /\ Len(messages) \in Nat \ {0} /\ Len(messages') = Len(messages) - 1
      /\ \A i \in 1 .. Len(messages) - 1 : messages'[i] = messages[i + 1]
  BY <1>1, <1>2, TailOf
<1> HIDE DEF m
<1>4. /\ \A u : In(u, messages) <=> In(u, messages') \/ u = m
      /\ \A u : Once(u, messages) => Once(u, messages')
      /\ Once(m, messages) => ~In(m, messages')
  BY <1>1, <1>2, TailIn DEF m
<1>5. /\ \A u : In(u, messages)' <=> In(u, messages')
      /\ \A u : In(u, tasks)' <=> In(u, tasks)
      /\ \A s \in Scan : Once(Filling(s), messages)' <=> Once(Filling(s), messages')
      /\ \A u : In(u, acts)' <=> In(u, acts)
  BY <1>1 DEF In, Once
<1>6. /\ m.scan \in Scan /\ (m.type = "FILL_OK" => m = Filling(m.scan))
      /\ \A s \in Scan : m = Filling(s) => m.type = "FILL_OK" /\ m.scan = s
  BY <1>3, MailForms
<1>7. Reported(m) \in {"none", "OPEN", "STRAY", "CLOSED"}
      /\ (Reported(m) = "STRAY" =>
              \/ m.type = "FILL_OK" /\ m.scan \notin fills
              \/ trade[m.scan] = "STRAY")
      /\ (m.type = "FILL_OK" => Reported(m) \in {"OPEN", "STRAY"})
      /\ (m.type = "CLOSE_OK" => Reported(m) = "CLOSED")
  <2>1. m.type = "FILL_OK" /\ m.scan \in fills => Reported(m) = "OPEN"
    BY DEF Reported
  <2>2. m.type = "FILL_OK" /\ m.scan \notin fills => Reported(m) = "STRAY"
    BY DEF Reported
  <2>3. m.type = "CLOSE_OK" => Reported(m) = "CLOSED"
    BY DEF Reported
  <2>4. m.type \notin {"FILL_OK", "CLOSE_OK"} => Reported(m) = trade[m.scan]
    BY DEF Reported
  <2>5. trade[m.scan] \in {"none", "OPEN", "STRAY", "CLOSED"}
    BY <1>2, <1>6
  <2> HIDE DEF Reported
  <2> QED BY <2>1, <2>2, <2>3, <2>4, <2>5
<1>8. Types'
  <2>1. trade' \in [Scan -> {"none", "OPEN", "STRAY", "CLOSED"}]
    BY <1>1, <1>2, <1>6, <1>7
  <2>2. faults' \in Nat
    BY <1>1, FaultCounts DEF IInv, Types
  <2> QED BY <1>1, <1>3, <2>1, <2>2 DEF IInv, Types
<1>9. OrderShape'
  BY <1>1, <1>4, <1>5 DEF IInv, OrderShape
<1>10. FillShape'
  <2> SUFFICES ASSUME NEW s \in Scan
               PROVE  /\ \/ order[s] \in {"submitted", "cancelling"}
                         \/ In(Opening(s), tasks) \/ In(Filling(s), messages')
                         => s \in fills' \union givenUp \union forgotten
                      /\ trade'[s] = "STRAY" => s \in givenUp \union forgotten
    BY <1>1, <1>5 DEF FillShape
  <2>1. CASE m = Filling(s)
    <3>1. In(m, messages)
      BY <1>4
    <3>2. /\ order[s] \notin {"none", "submitted", "cancelling"}
          /\ ~In(Opening(s), tasks) /\ ~In(Filling(s), messages')
      BY <1>4, <2>1, <3>1 DEF IInv, OrderShape
    <3>3. s \in fills \union givenUp \union forgotten
      BY <2>1, <3>1 DEF IInv, FillShape
    <3>4. trade'[s] = "STRAY" => s \in givenUp \union forgotten
      BY <1>1, <1>2, <1>6, <1>7, <2>1, <3>3 DEF IInv, FillShape
    <3> QED BY <3>2, <3>4
  <2>2. CASE m # Filling(s)
    <3>1. fills' = fills \/ (fills' = fills \ {m.scan} /\ m.scan # s)
      BY <1>1, <1>6, <2>2
    <3>2. trade'[s] = "STRAY" => trade[s] = "STRAY"
      BY <1>1, <1>2, <1>6, <1>7, <2>2
    <3> QED BY <1>4, <3>1, <3>2 DEF IInv, FillShape
  <2> QED BY <2>1, <2>2
<1>11. TradeShape'
  <2> SUFFICES ASSUME faults' = 0 PROVE TradeShape'
    BY DEF TradeShape
  <2>1. trade' = [trade EXCEPT ![m.scan] = Reported(m)] /\ faults = 0 /\ strategy # "stopped"
    BY <1>1, FaultCounts
  <2>2. /\ 1 \in 1 .. Len(messages)
        /\ \A i \in 1 .. Len(messages') : i \in Int /\ i + 1 \in 2 .. Len(messages)
              /\ i + 1 \in 1 .. Len(messages) /\ messages'[i] = messages[i + 1]
        /\ \A j \in 2 .. Len(messages) : j - 1 \in 1 .. Len(messages')
              /\ messages'[j - 1] = messages[j]
        /\ \A j \in 1 .. Len(messages) : j = 1 \/ j \in 2 .. Len(messages)
        /\ \A i \in 1 .. Len(messages') : \A j \in i + 2 .. Len(messages) :
              j - 1 \in i + 1 .. Len(messages') /\ messages'[j - 1] = messages[j]
        /\ \A i \in 1 .. Len(messages') : \A j \in i + 1 .. Len(messages') :
              j + 1 \in (i + 1) + 1 .. Len(messages) /\ messages'[j] = messages[j + 1]
        /\ \A i \in 1 .. Len(messages') : (i + 1) + 1 = i + 2
        /\ 1 + 1 = 2
    <3>1. Len(messages) \in Nat \ {0} /\ Len(messages') = Len(messages) - 1
      BY <1>3
    <3>2. \A j \in 2 .. Len(messages) :
              j - 1 \in 1 .. Len(messages') /\ messages'[j - 1] = messages[j]
      <4> TAKE j \in 2 .. Len(messages)
      <4>1. j - 1 \in 1 .. Len(messages) - 1 /\ (j - 1) + 1 = j
        BY <3>1
      <4> QED BY <1>3, <3>1, <4>1
    <3>3. \A i \in 1 .. Len(messages') :
              i \in Int /\ i + 1 \in 2 .. Len(messages) /\ i + 1 \in 1 .. Len(messages)
              /\ messages'[i] = messages[i + 1] /\ (i + 1) + 1 = i + 2
      BY <1>3
    <3>4. \A i \in 1 .. Len(messages') : \A j \in i + 2 .. Len(messages) :
              j - 1 \in i + 1 .. Len(messages') /\ j \in 2 .. Len(messages)
      BY <3>1
    <3>5. \A i \in 1 .. Len(messages') : \A j \in i + 1 .. Len(messages') :
              j + 1 \in (i + 1) + 1 .. Len(messages) /\ j \in 1 .. Len(messages')
      BY <3>1
    <3>6. \A j \in 1 .. Len(messages) : j = 1 \/ j \in 2 .. Len(messages)
      BY <3>1
    <3>7. 1 \in 1 .. Len(messages) /\ 1 + 1 = 2
      BY <3>1
    <3> QED BY <3>2, <3>3, <3>4, <3>5, <3>6, <3>7
  <2> SUFFICES ASSUME NEW s \in Scan
               PROVE  /\ order[s] # "gone"
                      /\ order[s] \in {"none", "submitted", "cancelling"} =>
                             Quiet(s)' /\ trade'[s] = "none"
                      /\ order[s] \in {"filled", "closing"} =>
                           /\ Quiet(s)' => trade'[s] \in {"OPEN", "STRAY"}
                           /\ \A i \in 1 .. Len(messages') :
                                  messages'[i].scan = s => messages'[i] = Filling(s)
                      /\ order[s] = "closed" =>
                           /\ Quiet(s)' => trade'[s] = "CLOSED"
                           /\ \A i \in 1 .. Len(messages') :
                                  messages'[i].scan = s /\ messages'[i].type # "CLOSE_OK" =>
                                      \E j \in i + 1 .. Len(messages') : messages'[j].scan = s
                           /\ \A i \in 1 .. Len(messages') :
                                  messages'[i].scan = s /\ messages'[i].type = "CLOSE_OK" =>
                                      \A j \in i + 1 .. Len(messages') : messages'[j].scan # s
    BY <1>1 DEF TradeShape
  <2>3. /\ order[s] # "gone"
        /\ order[s] \in {"none", "submitted", "cancelling"} =>
               Quiet(s) /\ trade[s] = "none"
        /\ order[s] \in {"filled", "closing"} =>
             /\ Quiet(s) => trade[s] \in {"OPEN", "STRAY"}
             /\ \A i \in 1 .. Len(messages) :
                    messages[i].scan = s => messages[i] = Filling(s)
        /\ order[s] = "closed" =>
             /\ Quiet(s) => trade[s] = "CLOSED"
             /\ \A i \in 1 .. Len(messages) :
                    messages[i].scan = s /\ messages[i].type # "CLOSE_OK" =>
                        \E j \in i + 1 .. Len(messages) : messages[j].scan = s
             /\ \A i \in 1 .. Len(messages) :
                    messages[i].scan = s /\ messages[i].type = "CLOSE_OK" =>
                        \A j \in i + 1 .. Len(messages) : messages[j].scan # s
    BY <2>1 DEF IInv, TradeShape
  <2>4. Quiet(s) => m.scan # s /\ Quiet(s)'
    BY <1>3, <2>2 DEF Quiet
  <2>5. m.scan # s /\ Quiet(s)' => Quiet(s)
    BY <1>3, <2>2 DEF Quiet
  <2>6. trade'[s] = IF m.scan = s THEN Reported(m) ELSE trade[s]
    BY <1>2, <1>6, <2>1
  <2>7. CASE order[s] \in {"none", "submitted", "cancelling"}
    BY <2>3, <2>4, <2>6, <2>7
  <2>8. CASE order[s] \in {"filled", "closing"}
    <3>1. m.scan = s => m.type = "FILL_OK"
      BY <1>3, <1>6, <2>2, <2>3, <2>8
    <3>2. Quiet(s)' => trade'[s] \in {"OPEN", "STRAY"}
      BY <1>7, <2>3, <2>5, <2>6, <2>8, <3>1
    <3>3. \A i \in 1 .. Len(messages') :
              messages'[i].scan = s => messages'[i] = Filling(s)
      BY <2>2, <2>3, <2>8
    <3> QED BY <2>8, <3>2, <3>3
  <2>9. CASE order[s] = "closed"
    <3>1. ASSUME Quiet(s)' PROVE trade'[s] = "CLOSED"
      <4>1. CASE m.scan # s
        BY <2>3, <2>5, <2>6, <2>9, <3>1, <4>1
      <4>2. CASE m.scan = s /\ m.type = "CLOSE_OK"
        BY <1>7, <2>6, <4>2
      <4>3. CASE m.scan = s /\ m.type # "CLOSE_OK"
        <5>1. PICK j \in 2 .. Len(messages) : messages[j].scan = s
          BY <1>3, <2>2, <2>3, <2>9, <4>3
        <5> QED BY <2>2, <3>1, <5>1 DEF Quiet
      <4> QED BY <4>1, <4>2, <4>3
    <3>2. ASSUME NEW i \in 1 .. Len(messages'), messages'[i].scan = s,
                 messages'[i].type # "CLOSE_OK"
          PROVE  \E j \in i + 1 .. Len(messages') : messages'[j].scan = s
      <4>1. PICK j \in i + 2 .. Len(messages) : messages[j].scan = s
        BY <2>2, <2>3, <2>9, <3>2
      <4> QED BY <2>2, <4>1
    <3>3. ASSUME NEW i \in 1 .. Len(messages'), messages'[i].scan = s,
                 messages'[i].type = "CLOSE_OK", NEW j \in i + 1 .. Len(messages')
          PROVE  messages'[j].scan # s
      <4>1. /\ i + 1 \in 1 .. Len(messages) /\ j + 1 \in (i + 1) + 1 .. Len(messages)
            /\ messages'[i] = messages[i + 1] /\ messages'[j] = messages[j + 1]
        BY <2>2, <3>3
      <4>2. \A k \in (i + 1) + 1 .. Len(messages) : messages[k].scan # s
        BY <2>3, <2>9, <3>3, <4>1
      <4> QED BY <4>1, <4>2
    <3> QED BY <2>9, <3>1, <3>2, <3>3
  <2>10. order[s] \in Status
    BY DEF IInv, Types
  <2> QED BY <2>3, <2>7, <2>8, <2>9, <2>10 DEF Status
<1> QED BY <1>1, <1>8, <1>9, <1>10, <1>11, ThreadFrame, TaskFrame, CloseFrame,
           LiveFrame DEF IInv

-----------------------------------------------------------------------------
(* The broker. *)

\* What a move of the broker does to the order of s.
BrokerMove(s, m) ==
    \/ order[s] = "submitted" /\ m \in {<<"FILL_OK", "filled">>, <<"REJECTED", "gone">>}
    \/ order[s] = "filled" /\ m = <<"CLOSE_OK", "closed">>
    \/ order[s] = "closing"
          /\ m \in {<<"CLOSE_OK", "closed">>, <<"CLOSE_REJECTED", "filled">>}
    \/ order[s] = "cancelling"
          /\ m \in {<<"FILL_OK", "closing">>, <<"CLOSE_OK", "closed">>}

LEMMA MovesAre ==
    \A s \in Scan : order[s] \in DOMAIN Moves =>
        \A m \in Moves[order[s]] : BrokerMove(s, m)
BY DEF Moves, BrokerMove

LEMMA BrokerIInv == ASSUME IInv, BrokerMoves PROVE IInv'
<1>a. PICK s \in Scan :
        /\ order[s] \in DOMAIN Moves
        /\ \E m \in Moves[order[s]] :
              /\ order' = [order EXCEPT ![s] = m[2]]
              /\ messages' = IF strategy = "stopped" THEN messages
                             ELSE Append(messages, [type |-> m[1], scan |-> s])
              /\ IF order[s] = "filled" \/ m[1] \in {"REJECTED", "CLOSE_REJECTED"}
                 THEN Fault ELSE UNCHANGED bounds
              /\ cut' = IF m[1] = "CLOSE_REJECTED" THEN cut \union {s} ELSE cut
        /\ UNCHANGED <<told, allowed, strategy, worker, tasks, booking, trade,
                       givenUp, forgotten>>
  BY DEF BrokerMoves
<1>1. PICK m \in Moves[order[s]] :
        /\ order' = [order EXCEPT ![s] = m[2]]
        /\ messages' = IF strategy = "stopped" THEN messages
                       ELSE Append(messages, [type |-> m[1], scan |-> s])
        /\ IF order[s] = "filled" \/ m[1] \in {"REJECTED", "CLOSE_REJECTED"}
           THEN Fault ELSE UNCHANGED bounds
        /\ cut' = IF m[1] = "CLOSE_REJECTED" THEN cut \union {s} ELSE cut
  BY <1>a
<1>2. UNCHANGED <<told, strategy, acts, busy, call, tasks, label, fills, trade,
                  givenUp, forgotten>>
  BY <1>a DEF worker, booking
<1>3. BrokerMove(s, m)
  BY <1>a, MovesAre
<1> DEFINE type == m[1]
<1> DEFINE next == m[2]
<1>4. /\ \/ order[s] = "submitted" /\ type = "FILL_OK" /\ next = "filled"
         \/ order[s] = "submitted" /\ type = "REJECTED" /\ next = "gone"
         \/ order[s] = "filled" /\ type = "CLOSE_OK" /\ next = "closed"
         \/ order[s] = "closing" /\ type = "CLOSE_OK" /\ next = "closed"
         \/ order[s] = "closing" /\ type = "CLOSE_REJECTED" /\ next = "filled"
         \/ order[s] = "cancelling" /\ type = "FILL_OK" /\ next = "closing"
         \/ order[s] = "cancelling" /\ type = "CLOSE_OK" /\ next = "closed"
  BY <1>3 DEF BrokerMove
<1>5. /\ faults' \in Nat
      /\ faults' = 0 => /\ faults = 0 /\ order[s] # "filled"
                        /\ type \notin {"REJECTED", "CLOSE_REJECTED"}
  BY <1>1, FaultCounts DEF bounds, IInv, Types
<1> DEFINE mail == [type |-> type, scan |-> s]
<1>6. /\ messages' = messages \/ messages' = Append(messages, mail)
      /\ strategy # "stopped" => messages' = Append(messages, mail)
      /\ order' = [order EXCEPT ![s] = next]
      /\ cut' = IF type = "CLOSE_REJECTED" THEN cut \union {s} ELSE cut
  BY <1>1
<1> HIDE DEF type, next
<1>7. type \in Message /\ next \in Status
  BY <1>4 DEF Message, Status
<1>8. /\ mail \in Mail /\ mail.type = type /\ mail.scan = s
      /\ type = "FILL_OK" => mail = Filling(s)
      /\ type # "FILL_OK" => \A u \in Scan : mail # Filling(u)
      /\ \A u \in Scan : mail = Filling(u) => u = s
  BY <1>7, MailForms
<1> HIDE DEF mail
<1>9. order \in [Scan -> Status] /\ messages \in Seq(Mail)
  BY DEF IInv, Types
<1>10. \A u \in Scan : order'[u] = IF u = s THEN next ELSE order[u]
  BY <1>6, <1>9
<1>11. /\ messages' \in Seq(Mail)
       /\ \A u : In(u, messages') => In(u, messages) \/ u = mail
       /\ \A u : Once(u, messages) /\ (~In(u, messages) \/ u # mail) => Once(u, messages')
  <2>1. CASE messages' = messages
    BY <1>9, <2>1
  <2>2. CASE messages' = Append(messages, mail)
    <3>1. messages' \in Seq(Mail)
      BY <1>8, <1>9, <2>2
    <3> QED BY <1>8, <1>9, <2>2, <3>1, AppendIn
  <2> QED BY <1>6, <2>1, <2>2
<1>12. /\ \A u : In(u, messages)' <=> In(u, messages')
       /\ \A u : In(u, tasks)' <=> In(u, tasks)
       /\ \A u : In(u, acts)' <=> In(u, acts)
       /\ \A u \in Scan : Once(Filling(u), messages)' <=> Once(Filling(u), messages')
  BY <1>2 DEF In, Once
<1>13. Types'
  <2>1. order' \in [Scan -> Status]
    BY <1>6, <1>7, <1>9
  <2> QED BY <1>2, <1>5, <1>11, <2>1 DEF IInv, Types
<1>14. OrderShape'
  <2> SUFFICES ASSUME NEW u \in Scan
               PROVE  /\ order'[u] # "none" =>
                            told[u] # "none" /\ ~In(Opening(u), acts)
                            /\ ~In(Opening(u), tasks)
                      /\ In(Filling(u), messages') =>
                            order'[u] \notin {"none", "submitted", "cancelling"}
                      /\ Once(Filling(u), messages')
    BY <1>2, <1>12 DEF OrderShape
  <2>1. order'[u] # "none" => order[u] # "none"
    BY <1>4, <1>10
  <2>2. In(Filling(u), messages') => order'[u] \notin {"none", "submitted", "cancelling"}
    BY <1>4, <1>8, <1>10, <1>11 DEF IInv, OrderShape
  <2>3. Once(Filling(u), messages')
    <3>1. Filling(u) = mail => ~In(Filling(u), messages)
      BY <1>4, <1>8 DEF IInv, OrderShape
    <3> QED BY <1>11, <3>1 DEF IInv, OrderShape
  <2> QED BY <2>1, <2>2, <2>3 DEF IInv, OrderShape
<1>15. CloseShape'
  <2> SUFFICES ASSUME NEW u \in Scan
               PROVE  /\ In(Closing(u), tasks) =>
                           \/ u \in cut'
                           \/ call \in Call /\ call.kind = "CLOSE" /\ call.scan = u
                              /\ call.result = "none"
                      /\ call \in Call /\ call.kind = "CLOSE" /\ call.scan = u
                         /\ call.result = "ok" =>
                           u \in cut' \/ (order'[u] \notin {"submitted", "filled"}
                                          /\ ~In(Opening(u), tasks))
    BY <1>2, <1>12 DEF CloseShape
  <2>1. u \in cut => u \in cut'
    BY <1>6
  <2>2. order'[u] \in {"submitted", "filled"} =>
            order[u] \in {"submitted", "filled"} \/ u \in cut'
    BY <1>4, <1>6, <1>10
  <2> QED BY <2>1, <2>2 DEF IInv, CloseShape
<1>16. LiveShape'
  <2> SUFFICES ASSUME NEW u \in Scan,
                      order'[u] \in {"submitted", "filled"} \/ In(Opening(u), tasks)
               PROVE  \/ u \in label \union givenUp \union cut' \union forgotten
                      \/ call \in Call /\ call.kind = "CLOSE" /\ call.scan = u
                      \/ In(Closing(u), tasks)
    BY <1>2, <1>12 DEF LiveShape
  <2>1. u \in cut => u \in cut'
    BY <1>6
  <2>2. order'[u] \in {"submitted", "filled"} =>
            order[u] \in {"submitted", "filled"} \/ u \in cut'
    BY <1>4, <1>6, <1>10
  <2> QED BY <2>1, <2>2 DEF IInv, LiveShape
<1>17. FillShape'
  <2> SUFFICES ASSUME NEW u \in Scan
               PROVE  /\ \/ order'[u] \in {"submitted", "cancelling"}
                         \/ In(Opening(u), tasks) \/ In(Filling(u), messages')
                         => u \in fills \union givenUp \union forgotten
                      /\ trade[u] = "STRAY" => u \in givenUp \union forgotten
    BY <1>2, <1>12 DEF FillShape
  <2>1. order'[u] \in {"submitted", "cancelling"} => order'[u] = order[u]
    BY <1>4, <1>10
  <2>2. In(Filling(u), messages') =>
            In(Filling(u), messages) \/ order[u] \in {"submitted", "cancelling"}
    BY <1>4, <1>8, <1>11
  <2> QED BY <2>1, <2>2 DEF IInv, FillShape
<1>18. TradeShape'
  <2> SUFFICES ASSUME faults' = 0, strategy' # "stopped" PROVE TradeShape'
    BY DEF TradeShape
  <2>1. /\ faults = 0 /\ strategy # "stopped" /\ messages' = Append(messages, mail)
        /\ \/ order[s] = "submitted" /\ type = "FILL_OK" /\ next = "filled"
           \/ order[s] = "closing" /\ type = "CLOSE_OK" /\ next = "closed"
           \/ order[s] = "cancelling" /\ type = "FILL_OK" /\ next = "closing"
           \/ order[s] = "cancelling" /\ type = "CLOSE_OK" /\ next = "closed"
    BY <1>2, <1>4, <1>5, <1>6
  <2> DEFINE n == Len(messages)
  <2>2. /\ n \in Nat /\ Len(messages') = n + 1 /\ messages'[n + 1] = mail
        /\ \A i \in 1 .. n : messages'[i] = messages[i]
    BY <1>8, <1>9, <2>1, AppendTo
  <2> HIDE DEF n
  <2>3. /\ \A i \in 1 .. n + 1 : i \in 1 .. n \/ i = n + 1
        /\ \A i \in 1 .. n : i \in 1 .. n + 1
        /\ n + 1 \in 1 .. n + 1
        /\ \A i \in 1 .. n : n + 1 \in i + 1 .. n + 1
        /\ \A i \in 1 .. n : \A j \in i + 1 .. n : j \in i + 1 .. n + 1 /\ j \in 1 .. n
        /\ \A i \in 1 .. n : \A j \in i + 1 .. n + 1 : j \in i + 1 .. n \/ j = n + 1
        /\ \A j \in (n + 1) + 1 .. n + 1 : FALSE
    BY <2>2
  <2>4. \A u \in Scan : u # s => (Quiet(u)' <=> Quiet(u))
    BY <1>8, <2>2, <2>3 DEF Quiet, n
  <2>5. ~Quiet(s)'
    BY <1>8, <2>2, <2>3 DEF Quiet
  <2> SUFFICES ASSUME NEW u \in Scan
               PROVE  /\ order'[u] # "gone"
                      /\ order'[u] \in {"none", "submitted", "cancelling"} =>
                             Quiet(u)' /\ trade[u] = "none"
                      /\ order'[u] \in {"filled", "closing"} =>
                           /\ Quiet(u)' => trade[u] \in {"OPEN", "STRAY"}
                           /\ \A i \in 1 .. n + 1 :
                                  messages'[i].scan = u => messages'[i] = Filling(u)
                      /\ order'[u] = "closed" =>
                           /\ Quiet(u)' => trade[u] = "CLOSED"
                           /\ \A i \in 1 .. n + 1 :
                                  messages'[i].scan = u /\ messages'[i].type # "CLOSE_OK" =>
                                      \E j \in i + 1 .. n + 1 : messages'[j].scan = u
                           /\ \A i \in 1 .. n + 1 :
                                  messages'[i].scan = u /\ messages'[i].type = "CLOSE_OK" =>
                                      \A j \in i + 1 .. n + 1 : messages'[j].scan # u
    BY <1>2, <2>2 DEF TradeShape
  <2>6. /\ order[u] # "gone"
        /\ order[u] \in {"none", "submitted", "cancelling"} =>
               Quiet(u) /\ trade[u] = "none"
        /\ order[u] \in {"filled", "closing"} =>
             /\ Quiet(u) => trade[u] \in {"OPEN", "STRAY"}
             /\ \A i \in 1 .. n :
                    messages[i].scan = u => messages[i] = Filling(u)
        /\ order[u] = "closed" =>
             /\ Quiet(u) => trade[u] = "CLOSED"
             /\ \A i \in 1 .. n :
                    messages[i].scan = u /\ messages[i].type # "CLOSE_OK" =>
                        \E j \in i + 1 .. n : messages[j].scan = u
             /\ \A i \in 1 .. n :
                    messages[i].scan = u /\ messages[i].type = "CLOSE_OK" =>
                        \A j \in i + 1 .. n : messages[j].scan # u
    BY <2>1 DEF IInv, TradeShape, n
  <2>7. CASE u # s
    <3>1. order'[u] = order[u] /\ mail.scan # u
      BY <1>8, <1>10, <2>7
    <3>2. \A i \in 1 .. n + 1 : messages'[i].scan = u =>
              i \in 1 .. n /\ messages'[i] = messages[i]
      BY <2>2, <2>3, <3>1
    <3>3. order[u] \in {"filled", "closing"} =>
              \A i \in 1 .. n + 1 : messages'[i].scan = u => messages'[i] = Filling(u)
      BY <2>6, <3>2
    <3>4. order[u] = "closed" =>
              \A i \in 1 .. n + 1 :
                  messages'[i].scan = u /\ messages'[i].type # "CLOSE_OK" =>
                      \E j \in i + 1 .. n + 1 : messages'[j].scan = u
      BY <2>2, <2>3, <2>6, <3>2
    <3>5. order[u] = "closed" =>
              \A i \in 1 .. n + 1 :
                  messages'[i].scan = u /\ messages'[i].type = "CLOSE_OK" =>
                      \A j \in i + 1 .. n + 1 : messages'[j].scan # u
      <4> SUFFICES ASSUME order[u] = "closed", NEW i \in 1 .. n + 1,
                          messages'[i].scan = u, messages'[i].type = "CLOSE_OK",
                          NEW j \in i + 1 .. n + 1
                   PROVE  messages'[j].scan # u
        OBVIOUS
      <4>1. i \in 1 .. n /\ messages'[i] = messages[i]
        BY <3>2
      <4>2. \A k \in i + 1 .. n : messages[k].scan # u
        BY <2>6, <4>1
      <4>3. j \in 1 .. n + 1
        BY <2>2, <4>1
      <4> QED BY <3>2, <4>1, <4>2, <4>3, <2>3
    <3> QED BY <2>4, <2>6, <2>7, <3>1, <3>3, <3>4, <3>5
  <2>8. CASE u = s
    <3>1. order'[s] = next
      BY <1>10
    <3>2. \A i \in 1 .. n + 1 : \/ i \in 1 .. n /\ messages'[i] = messages[i]
                                \/ i = n + 1 /\ messages'[i] = mail
      BY <2>2, <2>3
    <3>3. CASE next \in {"filled", "closing"}
      <4>1. Quiet(s) /\ mail = Filling(s)
        BY <1>8, <2>1, <2>6, <2>8, <3>3
      <4>2. \A i \in 1 .. n + 1 : messages'[i].scan = s => messages'[i] = Filling(s)
        BY <3>2, <4>1 DEF Quiet, n
      <4> QED BY <2>5, <2>8, <3>1, <3>3, <4>2
    <3>4. CASE next = "closed"
      <4>1. mail.type = "CLOSE_OK"
        BY <1>8, <2>1, <3>4
      <4>2. \A i \in 1 .. n : messages[i].scan = s => messages[i].type # "CLOSE_OK"
        <5>1. \A i \in 1 .. n : messages[i].scan = s => messages[i] = Filling(s)
          BY <2>1, <2>6, <2>8, <3>4 DEF Quiet, n
        <5> QED BY <5>1, MailForms
      <4>3. \A i \in 1 .. n + 1 :
                messages'[i].scan = s /\ messages'[i].type # "CLOSE_OK" =>
                    \E j \in i + 1 .. n + 1 : messages'[j].scan = s
        BY <1>8, <2>2, <2>3, <3>2, <4>1
      <4>4. \A i \in 1 .. n + 1 :
                messages'[i].scan = s /\ messages'[i].type = "CLOSE_OK" =>
                    \A j \in i + 1 .. n + 1 : messages'[j].scan # s
        BY <2>3, <3>2, <4>2
      <4> QED BY <2>5, <2>8, <3>1, <3>4, <4>3, <4>4
    <3> QED BY <2>1, <3>3, <3>4
  <2> QED BY <2>7, <2>8
<1> QED BY <1>2, <1>13, <1>14, <1>15, <1>16, <1>17, <1>18, ThreadFrame, TaskFrame
        DEF IInv

-----------------------------------------------------------------------------
LEMMA StutterIInv == ASSUME IInv, UNCHANGED vars PROVE IInv'
<1>1. UNCHANGED <<told, strategy, acts, busy, call, tasks, label, fills, order,
                  messages, trade, faults, givenUp, cut, forgotten>>
  BY DEF vars, worker, booking, broker, bounds, histories
<1>2. Types'
  BY <1>1 DEF IInv, Types
<1> QED BY <1>1, <1>2, ThreadFrame, TaskFrame, OrderFrame, CloseFrame, LiveFrame,
           FillFrame, TradeFrame DEF IInv

LEMMA StepIInv == ASSUME IInv, [Next]_vars PROVE IInv'
<1>1. CASE Predict \/ Restart \/ BrokerMoves
  BY <1>1, PredictIInv, RestartIInv, BrokerIInv
<1>2. CASE WorkerSteps
  BY <1>2, DoneIInv, SubmitIInv, SkipIInv, CloseIInv, ReturnsIInv, TimesOutIInv
     DEF WorkerSteps
<1>3. CASE Strategy \/ Pause
  BY <1>3, RunTaskIInv, WaitIInv, StoppedIInv, DeliverIInv DEF Strategy
<1>4. CASE UNCHANGED vars
  BY <1>4, StutterIInv
<1> QED BY <1>1, <1>2, <1>3, <1>4 DEF Next

\* Whatever the two threads, the broker, time-outs and restarts do, the parts
\* above hold together.
THEOREM FlowInvariant == Spec => []IInv
<1>1. IInv /\ [Next]_vars => IInv'
  BY StepIInv
<1>2. Init => IInv
  BY InitIInv
<1> QED BY <1>1, <1>2, PTL DEF Spec

\* A live order can be closed by the client, whatever was rejected, blocked or
\* late (OrderBookingService.closePositionByScanId), but for what was given up.
THEOREM StaysClosable == Spec => []OrdersStayClosable
<1>1. IInv => OrdersStayClosable
  <2> SUFFICES ASSUME IInv, NEW s \in Scan, order[s] \in {"submitted", "filled"},
                      s \notin givenUp \union cut \union forgotten, s \notin label
               PROVE  Closable(s)
    BY DEF OrdersStayClosable, Closable
  <2>1. CASE call \in Call /\ call.kind = "CLOSE" /\ call.scan = s
    BY <2>1, CallForms DEF Closable
  <2>2. CASE In(Closing(s), tasks)
    <3>1. PICK i \in 1 .. Len(tasks) : tasks[i] = Closing(s)
      BY <2>2 DEF In
    <3>2. tasks \in Seq(Task)
      BY DEF IInv, Types
    <3>3. Closing(s) \in Range(tasks)
      BY <3>1, <3>2 DEF Range
    <3> QED BY <3>3, TaskForms DEF Closable
  <2> QED BY <2>1, <2>2 DEF IInv, LiveShape
<1> QED BY <1>1, FlowInvariant, PTL

\* The trades the server knows are the broker's orders (OrderLifecycleHandler).
THEOREM TradesFollow == Spec => []TradesFollowOrders
<1>1. IInv => TradesFollowOrders
  <2> SUFFICES ASSUME IInv, NEW s \in Scan
               PROVE  /\ trade[s] = "STRAY" => s \in givenUp \union forgotten
                      /\ faults = 0 /\ strategy # "stopped"
                         /\ (\A m \in Range(messages) : m.scan # s) =>
                           /\ order[s] \in {"filled", "closing"} =>
                                  trade[s] \in {"OPEN", "STRAY"}
                           /\ order[s] = "closed" => trade[s] = "CLOSED"
                           /\ order[s] \in {"none", "submitted"} => trade[s] = "none"
    BY DEF TradesFollowOrders
  <2>1. (\A m \in Range(messages) : m.scan # s) => Quiet(s)
    <3>1. messages \in Seq(Mail)
      BY DEF IInv, Types
    <3> QED BY <3>1 DEF Range, Quiet
  <2> QED BY <2>1 DEF IInv, FillShape, TradeShape
<1> QED BY <1>1, FlowInvariant, PTL
=============================================================================
