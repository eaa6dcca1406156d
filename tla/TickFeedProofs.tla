---------------------------- MODULE TickFeedProofs ----------------------------
(* Proofs about TickFeed.tla. *)
EXTENDS TickFeed, TLAPS, SequenceTheorems, FiniteSetTheorems

Tick == [tick : Nat, seq : Nat \ {0}]
Request == [id : Nat \ {0}, ticks : Seq(Tick)]

WorkerRecord ==
    [at : {"take", "number", "batch", "single", "predict"},
     batch : Seq(Nat), size : Nat, pending : Seq(Tick), payload : Seq(Tick),
     attempt : Nat, done : Nat, bars : Nat, id : Nat]

TypeOK ==
    /\ arrived \in Nat /\ queue \in Seq(Nat) /\ draining \in BOOLEAN
    /\ life \in {"running", "stopping", "flushing", "stopped"}
    /\ worker \in WorkerRecord
    /\ nextSeq \in Nat \ {0}
    /\ wire \subseteq Request
    /\ serving \in [id : Nat, ticks : Seq(Tick), bars : Nat]
    /\ answer \in [kind : {"none", "ok", "failed"}, bars : Nat]
    /\ feed \in [last : Nat, buffer : Seq(Nat)]
    /\ faults \in Nat /\ interrupted \in BOOLEAN

-----------------------------------------------------------------------------
(* What the worker holds, and what is under way. *)

\* The ticks the worker may still send: those of its payload from the done-th
\* on, and those numbered since.
Hand(w) == {w.payload[i] : i \in w.done + 1 .. Len(w.payload)}
           \union {w.pending[i] : i \in 1 .. Len(w.pending)}

Ordered(ticks) ==
    \A i, j \in 1 .. Len(ticks) : i < j => ticks[i].seq < ticks[j].seq

WorkerShape(w, next, n) ==
    /\ Ordered(w.payload) /\ Ordered(w.pending)
    /\ \A h \in Hand(w) : h.seq < next /\ h.tick \in 1 .. n
    /\ w.done <= Len(w.payload)
    /\ w.at = "take" => w.batch = <<>>
    /\ w.at \in {"take", "number"} => w.payload = <<>>
    /\ w.at \in {"batch", "single", "predict"} => w.pending = <<>> /\ w.id > 0
    /\ w.at = "batch" => w.done = 0
    /\ w.at \in {"batch", "single"} => w.done < Len(w.payload)

\* A request asks for every tick in hand before any of its own, unless a server
\* has it.
Covered(ticks, hand, next, n, had) ==
    \A i \in 1 .. Len(ticks) :
        /\ ticks[i].seq < next /\ ticks[i].tick \in 1 .. n
        /\ \A h \in hand :
               /\ h.seq = ticks[i].seq => h = ticks[i]
               /\ h.seq < ticks[i].seq =>
                      h.tick \in had \/ \E j \in 1 .. i - 1 : h = ticks[j]

WireShape ==
    /\ \A r \in wire : /\ Covered(r.ticks, Hand(worker), nextSeq, arrived, taken)
                       /\ r.id <= worker.id
                       /\ r.ticks # <<>>
    /\ Covered(serving.ticks, Hand(worker), nextSeq, arrived, taken)
    /\ serving.id <= worker.id
    /\ serving # Free => serving.ticks # <<>> /\ serving.id > 0
    /\ feed.last < nextSeq

\* What the server has numbered a tick in hand past, it has aggregated.
Passed(hand, last, had) == \A h \in hand : h.seq <= last => h.tick \in had

\* The ticks of the request the worker awaits.
Asked(w) == IF w.at = "batch" THEN w.payload ELSE <<w.payload[w.done + 1]>>

Awaited ==
    Waiting =>
        /\ \A r \in wire : r.id = worker.id => r.ticks = Asked(worker)
        /\ serving.id = worker.id =>
               \A i \in 1 .. Len(Asked(worker)) :
                   \/ Asked(worker)[i].tick \in taken
                   \/ \E j \in 1 .. Len(serving.ticks) :
                          serving.ticks[j] = Asked(worker)[i]
        /\ answer.kind = "ok" =>
               \A i \in 1 .. Len(Asked(worker)) :
                   Asked(worker)[i].tick \in taken

\* The ticks TicksAccounted counts as the worker's.
Held == {h.tick : h \in IF worker.at = "predict" THEN {} ELSE Hand(worker)}

Accounted ==
    1 .. arrived = Range(queue) \union Range(worker.batch) \union Held
                   \union taken \union dropped

Blamed ==
    /\ dropped # {} => faults > 0 \/ interrupted
    /\ answer.kind = "failed" => faults > 0
    /\ Waiting /\ answer.kind = "none" =>
           faults > 0 \/ \E r \in wire \union {serving} : r.id = worker.id

FeedShape == WorkerShape(worker, nextSeq, arrived) /\ WireShape /\ Awaited
             /\ Passed(Hand(worker), feed.last, taken)
             /\ Accounted /\ Blamed

-----------------------------------------------------------------------------
(* The bars. *)

\* Of q full blocks and the one begun.
Blocks(q) ==
    /\ Len(seen) = q * BarSize + Len(feed.buffer)
    /\ feed.buffer = SubSeq(seen, q * BarSize + 1, Len(seen))
    /\ \A i \in DOMAIN rows : i >= born =>
           \E k \in 0 .. q - 1 :
               rows[i] = SubSeq(seen, k * BarSize + 1, (k + 1) * BarSize)

BarShape ==
    /\ seen \in Seq(Nat) /\ broken \subseteq 1 .. Len(seen)
    /\ Len(feed.buffer) < BarSize
    /\ \E q \in Nat : Blocks(q)
    /\ \A i \in 1 .. Len(seen) : seen[i] <= feed.last \/ i \in broken
    /\ \A i, j \in 1 .. Len(seen) : i < j => seen[i] < seen[j] \/ i \in broken
    /\ \A i \in broken : \E k \in Nat : i = k * BarSize

RowShape ==
    /\ counter \in Nat /\ born \in 0 .. counter
    /\ DOMAIN rows \subseteq 0 .. counter - 1
    /\ DOMAIN rows # {} => counter - 1 \in DOMAIN rows
    /\ \A i \in 0 .. counter - 1 : i + Keep >= counter => i \in DOMAIN rows
    /\ \A i \in DOMAIN rows :
           i + Keep + (counter % Every) + Every * faults >= counter

IInv == TypeOK /\ FeedShape /\ BarShape /\ RowShape

-----------------------------------------------------------------------------
(* What a client's step does to what is under way. *)

\* A request goes on covering a hand that loses ticks, gains new ones, or whose
\* ticks a server takes.
LEMMA CoveredKept ==
    ASSUME NEW ticks, NEW hand, NEW hand2, NEW next \in Nat, NEW next2 \in Nat,
           NEW n \in Nat, NEW n2 \in Nat, NEW had, NEW had2,
           hand \subseteq Tick, hand2 \subseteq Tick, ticks \in Seq(Tick),
           next <= next2, n <= n2, had \subseteq had2,
           \A h \in hand2 : h \in hand \/ h.seq >= next,
           Covered(ticks, hand, next, n, had)
    PROVE  Covered(ticks, hand2, next2, n2, had2)
<1> SUFFICES ASSUME NEW i \in 1 .. Len(ticks)
             PROVE  /\ ticks[i].seq < next2 /\ ticks[i].tick \in 1 .. n2
                    /\ \A h \in hand2 :
                           /\ h.seq = ticks[i].seq => h = ticks[i]
                           /\ h.seq < ticks[i].seq =>
                                  \/ h.tick \in had2
                                  \/ \E j \in 1 .. i - 1 : h = ticks[j]
  BY DEF Covered
<1>1. ticks[i] \in Tick
  OBVIOUS
<1>2. ticks[i].seq \in Nat /\ ticks[i].seq < next /\ ticks[i].tick \in 1 .. n
  BY <1>1 DEF Covered, Tick
<1>3. ASSUME NEW h \in hand2
      PROVE  /\ h.seq = ticks[i].seq => h = ticks[i]
             /\ h.seq < ticks[i].seq =>
                    h.tick \in had2 \/ \E j \in 1 .. i - 1 : h = ticks[j]
  <2>1. h.seq \in Nat
    BY DEF Tick
  <2>2. CASE h.seq >= next
    BY <1>2, <2>1, <2>2
  <2>3. CASE h \in hand
    BY <2>3 DEF Covered
  <2> QED BY <2>2, <2>3
<1> QED BY <1>2, <1>3

\* A payload covers itself, and so does its first tick.
LEMMA CoveredSelf ==
    ASSUME NEW ticks \in Seq(Tick), NEW next, NEW n, NEW had, Ordered(ticks),
           \A i \in 1 .. Len(ticks) :
               ticks[i].seq < next /\ ticks[i].tick \in 1 .. n
    PROVE  Covered(ticks, {ticks[i] : i \in 1 .. Len(ticks)}, next, n, had)
<1> SUFFICES ASSUME NEW i \in 1 .. Len(ticks), NEW k \in 1 .. Len(ticks)
             PROVE  /\ ticks[k].seq = ticks[i].seq => ticks[k] = ticks[i]
                    /\ ticks[k].seq < ticks[i].seq =>
                           \E j \in 1 .. i - 1 : ticks[k] = ticks[j]
  BY DEF Covered
<1>1. ticks[i] \in Tick /\ ticks[k] \in Tick
  OBVIOUS
<1>2. CASE k = i
  BY <1>1, <1>2 DEF Tick
<1>3. CASE k < i
  BY <1>1, <1>3 DEF Tick, Ordered
<1>4. CASE i < k
  BY <1>1, <1>4 DEF Tick, Ordered
<1> QED BY <1>2, <1>3, <1>4

LEMMA CoveredFirst ==
    ASSUME NEW ticks \in Seq(Tick), NEW d \in Nat, d < Len(ticks),
           NEW hand, NEW next, NEW n, NEW had, Ordered(ticks),
           hand = {ticks[i] : i \in d + 1 .. Len(ticks)},
           \A i \in d + 1 .. Len(ticks) :
               ticks[i].seq < next /\ ticks[i].tick \in 1 .. n
    PROVE  Covered(<<ticks[d + 1]>>, hand, next, n, had)
<1> SUFFICES ASSUME NEW k \in d + 1 .. Len(ticks)
             PROVE  /\ ticks[k].seq = ticks[d + 1].seq => ticks[k] = ticks[d + 1]
                    /\ ~ ticks[k].seq < ticks[d + 1].seq
  BY DEF Covered
<1>1. ticks[d + 1] \in Tick /\ ticks[k] \in Tick
  OBVIOUS
<1>2. CASE k = d + 1
  BY <1>1, <1>2 DEF Tick
<1>3. CASE d + 1 < k
  <2>1. d + 1 \in 1 .. Len(ticks) /\ k \in 1 .. Len(ticks)
    OBVIOUS
  <2>2. ticks[d + 1].seq < ticks[k].seq
    BY <1>3, <2>1 DEF Ordered
  <2> QED BY <1>1, <2>2 DEF Tick
<1> QED BY <1>2, <1>3

LEMMA HandType == ASSUME NEW w \in WorkerRecord PROVE Hand(w) \subseteq Tick
BY DEF Hand, WorkerRecord

LEMMA HandWhole ==
    ASSUME NEW w, NEW p, w.done = 0,
           \/ w.payload = p /\ w.pending = <<>>
           \/ w.payload = <<>> /\ w.pending = p
    PROVE  Hand(w) = {p[i] : i \in 1 .. Len(p)}
<1>1. Len(<<>>) = 0 /\ 0 + 1 = 1 /\ 1 .. 0 = {}
  OBVIOUS
<1> QED BY <1>1 DEF Hand

LEMMA WireKept ==
    ASSUME TypeOK, TypeOK', WireShape, Passed(Hand(worker), feed.last, taken),
           nextSeq <= nextSeq', arrived <= arrived', worker.id <= worker'.id,
           UNCHANGED <<serving, taken, feed>>,
           \A h \in Hand(worker') : h \in Hand(worker) \/ h.seq >= nextSeq,
           \A r \in wire' :
               \/ r \in wire
               \/ /\ Covered(r.ticks, Hand(worker'), nextSeq', arrived', taken)
                  /\ r.id <= worker'.id /\ r.ticks # <<>>
    PROVE  WireShape' /\ Passed(Hand(worker'), feed'.last, taken')
<1> DEFINE hand == Hand(worker)
           hand2 == Hand(worker')
<1>0. worker.id \in Nat /\ worker'.id \in Nat
  BY DEF TypeOK, WorkerRecord
<1>1. hand \subseteq Tick /\ hand2 \subseteq Tick
  BY HandType DEF TypeOK
<1>2. ASSUME NEW ticks \in Seq(Tick),
             Covered(ticks, hand, nextSeq, arrived, taken)
      PROVE  Covered(ticks, hand2, nextSeq', arrived', taken)
  BY <1>1, <1>2, CoveredKept DEF TypeOK
<1>3. Passed(hand2, feed.last, taken)
  <2> SUFFICES ASSUME NEW h \in hand2, h.seq <= feed.last
               PROVE  h.tick \in taken
    BY DEF Passed
  <2>1. h.seq \in Nat /\ feed.last \in Nat /\ nextSeq \in Nat
    BY <1>1 DEF Tick, TypeOK
  <2>2. ~ h.seq >= nextSeq
    BY <2>1 DEF WireShape
  <2> QED BY <2>2 DEF Passed
<1>4. ASSUME NEW r \in wire'
      PROVE  /\ Covered(r.ticks, hand2, nextSeq', arrived', taken)
             /\ r.id <= worker'.id /\ r.ticks # <<>>
  <2>1. CASE r \in wire
    <3>1. r.ticks \in Seq(Tick) /\ r.id \in Nat
      BY <2>1 DEF TypeOK, Request
    <3>2. Covered(r.ticks, hand, nextSeq, arrived, taken)
          /\ r.id <= worker.id /\ r.ticks # <<>>
      BY <2>1 DEF WireShape
    <3> QED BY <1>0, <1>2, <3>1, <3>2
  <2> QED BY <1>4, <2>1
<1>5. Covered(serving.ticks, hand2, nextSeq', arrived', taken)
  <2>1. serving.ticks \in Seq(Tick)
    BY DEF TypeOK
  <2> QED BY <1>2, <2>1 DEF WireShape
<1>6. serving.id <= worker'.id /\ feed.last < nextSeq'
  <2>1. serving.id \in Nat /\ feed.last \in Nat
        /\ nextSeq \in Nat /\ nextSeq' \in Nat
    BY DEF TypeOK
  <2> QED BY <1>0, <2>1 DEF WireShape
<1> QED BY <1>3, <1>4, <1>5, <1>6 DEF WireShape

-----------------------------------------------------------------------------
(* The strategy thread. *)

LEMMA RangeAppend ==
    ASSUME NEW S, NEW s \in Seq(S), NEW e \in S
    PROVE  Range(Append(s, e)) = Range(s) \union {e}
<1>1. Append(s, e) \in Seq(S) /\ Len(Append(s, e)) = Len(s) + 1
      /\ \A i \in 1 .. Len(s) : Append(s, e)[i] = s[i]
      /\ Append(s, e)[Len(s) + 1] = e
  BY AppendProperties
<1>2. Range(Append(s, e)) = {Append(s, e)[i] : i \in 1 .. Len(s) + 1}
  BY <1>1, RangeEquality
<1>3. Range(s) = {s[i] : i \in 1 .. Len(s)}
  BY RangeEquality
<1>4. 1 .. Len(s) + 1 = 1 .. Len(s) \union {Len(s) + 1}
  OBVIOUS
<1> QED BY <1>1, <1>2, <1>3, <1>4

LEMMA EmptyRange == Range(<<>>) = {}
BY DEF Range

FeedInv == TypeOK /\ FeedShape

LEMMA InitFeed == Init => FeedInv
<1> SUFFICES ASSUME Init PROVE FeedInv
  OBVIOUS
<1> USE DEF Init, Idle, NoAnswer, Free, NewFeed
<1>1. TypeOK
  <2>1. worker \in WorkerRecord
    BY DEF WorkerRecord
  <2>2. /\ serving \in [id : Nat, ticks : Seq(Tick), bars : Nat]
        /\ answer \in [kind : {"none", "ok", "failed"}, bars : Nat]
        /\ feed \in [last : Nat, buffer : Seq(Nat)]
    OBVIOUS
  <2> HIDE DEF Idle, NoAnswer, Free, NewFeed
  <2>3. arrived \in Nat /\ queue \in Seq(Nat) /\ nextSeq \in Nat \ {0}
    OBVIOUS
  <2>4. draining \in BOOLEAN /\ interrupted \in BOOLEAN
    OBVIOUS
  <2>5. wire \subseteq Request /\ faults \in Nat
    OBVIOUS
  <2>6. life \in {"running", "stopping", "flushing", "stopped"}
    OBVIOUS
  <2> QED BY <2>1, <2>2, <2>3, <2>4, <2>5, <2>6 DEF TypeOK
<1>2. Hand(worker) = {}
  BY DEF Hand
<1>3. WorkerShape(worker, nextSeq, arrived)
  BY <1>2 DEF WorkerShape, Ordered
<1>4. WireShape
  BY DEF WireShape, Covered
<1>5. Awaited /\ Passed(Hand(worker), feed.last, taken) /\ Blamed
  BY <1>2 DEF Awaited, Waiting, Passed, Blamed
<1>6. Accounted
  BY <1>2, EmptyRange DEF Accounted, Held
<1> QED BY <1>1, <1>3, <1>4, <1>5, <1>6 DEF FeedInv, FeedShape

\* A step that changes neither the worker's hand nor what is under way.
LEMMA HandUnchanged ==
    ASSUME FeedInv, TypeOK', UNCHANGED <<wire, answer, serving, taken, feed>>,
           arrived <= arrived', nextSeq' = nextSeq,
           Hand(worker') = Hand(worker), UNCHANGED <<worker.at, worker.id,
           worker.done, worker.payload>>
    PROVE  WireShape' /\ Passed(Hand(worker'), feed'.last, taken') /\ Awaited'
<1>0. nextSeq \in Nat /\ worker.id \in Nat
  BY DEF FeedInv, TypeOK, WorkerRecord
<1>1. nextSeq <= nextSeq' /\ worker.id <= worker'.id
  BY <1>0
<1>2. WireShape' /\ Passed(Hand(worker'), feed'.last, taken')
  BY <1>1, WireKept DEF FeedInv, FeedShape
<1>3. Asked(worker') = Asked(worker)
  BY DEF Asked
<1>4. Awaited'
  BY <1>3 DEF FeedInv, FeedShape, Awaited, Waiting
<1> QED BY <1>2, <1>4

LEMMA EnqueueFeed == ASSUME FeedInv, Enqueue PROVE FeedInv'
<1> USE DEF FeedInv
<1>0. UNCHANGED <<clientVars, wire, answer, serverVars, faults>>
      /\ arrived' = arrived + 1 /\ queue' = Append(queue, arrived + 1)
      /\ draining' = draining
  BY DEF Enqueue
<1> USE DEF clientVars, serverVars, feedVars
<1>1. TypeOK'
  BY <1>0 DEF TypeOK
<1>2. arrived <= arrived' /\ arrived \in Nat /\ arrived' \in Nat
  BY <1>0, <1>1 DEF TypeOK
<1>3. WireShape' /\ Passed(Hand(worker'), feed'.last, taken') /\ Awaited'
  BY <1>0, <1>1, <1>2, HandUnchanged
<1>4. WorkerShape(worker', nextSeq', arrived')
  BY <1>0, <1>2 DEF FeedShape, WorkerShape
<1>5. Accounted'
  <2>1. Range(queue') = Range(queue) \union {arrived + 1}
    <3>1. queue \in Seq(Nat) /\ arrived + 1 \in Nat
      BY DEF TypeOK
    <3> QED BY <1>0, <3>1, RangeAppend
  <2>2. 1 .. arrived' = 1 .. arrived \union {arrived + 1}
    BY <1>0, <1>2
  <2>3. UNCHANGED <<Held, worker, taken, dropped>>
    BY <1>0 DEF Held
  <2> QED BY <2>1, <2>2, <2>3 DEF FeedShape, Accounted
<1>6. Blamed'
  BY <1>0 DEF FeedShape, Blamed, Waiting
<1> QED BY <1>1, <1>3, <1>4, <1>5, <1>6 DEF FeedShape

LEMMA WaitFeed == ASSUME FeedInv, Drain \/ Drained \/ Stop PROVE FeedInv'
<1> USE DEF FeedInv
<1>0. UNCHANGED <<arrived, queue, worker, nextSeq, dropped, interrupted, wire,
                  answer, serverVars, faults>>
      /\ draining' \in BOOLEAN /\ life' \in {life, "stopping"}
  <2>1. CASE Drain
    BY <2>1 DEF Drain, clientVars
  <2>2. CASE Drained
    BY <2>2 DEF Drained, clientVars
  <2>3. CASE Stop
    BY <2>3 DEF Stop, TypeOK, queueVars
  <2> QED BY <2>1, <2>2, <2>3
<1> USE DEF serverVars, feedVars
<1>1. TypeOK'
  BY <1>0 DEF TypeOK
<1>2. Accounted' /\ Blamed' /\ Awaited' /\ WireShape'
  BY <1>0 DEF FeedShape, Accounted, Held, Blamed, Awaited, Waiting, WireShape
<1> QED BY <1>0, <1>1, <1>2 DEF FeedShape

-----------------------------------------------------------------------------
(* The worker: taking and numbering ticks, and sending them. *)

LEMMA RangeHeadTail ==
    ASSUME NEW S, NEW s \in Seq(S), s # <<>>
    PROVE  /\ Range(s) = {Head(s)} \union Range(Tail(s))
           /\ Head(s) \in S /\ Tail(s) \in Seq(S)
<1>1. Head(s) \in S /\ Tail(s) \in Seq(S) /\ Len(Tail(s)) = Len(s) - 1
      /\ Head(s) = s[1] /\ \A i \in 1 .. Len(s) - 1 : Tail(s)[i] = s[i + 1]
      /\ Len(s) \in Nat \ {0}
  BY HeadTailProperties, LenProperties, EmptySeq
<1>2. Range(s) = {s[i] : i \in 1 .. Len(s)}
  BY RangeEquality
<1>3. Range(Tail(s)) = {Tail(s)[i] : i \in 1 .. Len(s) - 1}
  BY <1>1, RangeEquality
<1>4. \A i \in 1 .. Len(s) : i = 1 \/ (i - 1 \in 1 .. Len(s) - 1 /\ i = (i - 1) + 1)
  BY <1>1
<1>5. \A i \in 1 .. Len(s) - 1 : i + 1 \in 1 .. Len(s)
  BY <1>1
<1>6. Range(s) \subseteq {Head(s)} \union Range(Tail(s))
  BY <1>1, <1>2, <1>3, <1>4
<1>7. {Head(s)} \union Range(Tail(s)) \subseteq Range(s)
  BY <1>1, <1>2, <1>3, <1>5
<1> QED BY <1>1, <1>6, <1>7

LEMMA OrderedAppend ==
    ASSUME NEW s \in Seq(Tick), NEW e \in Tick, Ordered(s),
           \A i \in 1 .. Len(s) : s[i].seq < e.seq
    PROVE  Ordered(Append(s, e))
<1>1. Len(Append(s, e)) = Len(s) + 1
      /\ \A i \in 1 .. Len(s) : Append(s, e)[i] = s[i]
      /\ Append(s, e)[Len(s) + 1] = e
  BY AppendProperties
<1> SUFFICES ASSUME NEW i \in 1 .. Len(s) + 1, NEW j \in 1 .. Len(s) + 1, i < j
             PROVE  Append(s, e)[i].seq < Append(s, e)[j].seq
  BY <1>1 DEF Ordered
<1>2. i \in 1 .. Len(s)
  OBVIOUS
<1>3. CASE j \in 1 .. Len(s)
  BY <1>1, <1>2, <1>3 DEF Ordered
<1>4. CASE j = Len(s) + 1
  BY <1>1, <1>2, <1>4
<1> QED BY <1>3, <1>4

\* A request that is sent asks for what its worker awaits.
LEMMA SendFeed ==
    ASSUME FeedInv, TypeOK', WorkerShape(worker', nextSeq', arrived'),
           nextSeq <= nextSeq', UNCHANGED <<serving, taken, feed, arrived>>,
           \A h \in Hand(worker') : h \in Hand(worker) \/ h.seq >= nextSeq,
           worker'.id = worker.id + 1, worker'.at \in {"batch", "single"},
           wire' = wire \union {[id |-> worker'.id, ticks |-> Asked(worker')]},
           answer' = NoAnswer
    PROVE  /\ WireShape' /\ Passed(Hand(worker'), feed'.last, taken')
           /\ Awaited' /\ \E r \in wire' : r.id = worker'.id
<1> USE DEF FeedInv
<1> DEFINE w == worker'
           sent == [id |-> w.id, ticks |-> Asked(w)]
<1>1. w \in WorkerRecord /\ w.done \in Nat /\ w.payload \in Seq(Tick)
      /\ w.id \in Nat /\ worker.id \in Nat /\ arrived \in Nat /\ arrived' \in Nat
  BY DEF TypeOK, WorkerRecord
<1>2. Ordered(w.payload) /\ w.done < Len(w.payload) /\ w.pending = <<>>
      /\ (w.at = "batch" => w.done = 0)
      /\ \A h \in Hand(w) : h.seq < nextSeq' /\ h.tick \in 1 .. arrived'
  BY DEF WorkerShape
<1>3. Hand(w) = {w.payload[i] : i \in w.done + 1 .. Len(w.payload)}
  BY <1>2 DEF Hand
<1>4. Covered(Asked(w), Hand(w), nextSeq', arrived', taken)
  <2>1. CASE w.at = "batch"
    <3>1. \A i \in 1 .. Len(w.payload) : w.payload[i] \in Hand(w)
      BY <1>2, <1>3, <2>1
    <3>2. Hand(w) = {w.payload[i] : i \in 1 .. Len(w.payload)}
      BY <1>2, <1>3, <2>1
    <3> QED BY <1>1, <1>2, <2>1, <3>1, <3>2, CoveredSelf DEF Asked
  <2>2. CASE w.at = "single"
    <3>1. \A i \in w.done + 1 .. Len(w.payload) : w.payload[i] \in Hand(w)
      BY <1>3
    <3>2. \A i \in w.done + 1 .. Len(w.payload) :
              w.payload[i].seq < nextSeq' /\ w.payload[i].tick \in 1 .. arrived'
      BY <1>2, <3>1
    <3>3. Asked(w) = <<w.payload[w.done + 1]>>
      BY <2>2 DEF Asked
    <3>4. Covered(<<w.payload[w.done + 1]>>, Hand(w), nextSeq', arrived', taken)
      <4> HIDE DEF w
      <4> QED BY <1>1, <1>2, <1>3, <3>2, CoveredFirst
    <3> QED BY <3>3, <3>4
  <2> QED BY <2>1, <2>2
<1>5. Asked(w) # <<>>
  BY <1>1, <1>2 DEF Asked
<1>6. \A r \in wire \union {serving} : r.id <= worker.id /\ r.id \in Nat
  BY DEF FeedShape, WireShape, TypeOK, Request
<1>7. WireShape' /\ Passed(Hand(worker'), feed'.last, taken')
  <2>1. arrived <= arrived' /\ worker.id <= w.id
    BY <1>1
  <2>2. \A r \in wire' :
            \/ r \in wire
            \/ /\ Covered(r.ticks, Hand(w), nextSeq', arrived', taken)
               /\ r.id <= w.id /\ r.ticks # <<>>
    BY <1>1, <1>4, <1>5
  <2> QED BY <2>1, <2>2, WireKept DEF FeedShape
<1>8. Awaited'
  <2>1. ASSUME NEW r \in wire', r.id = w.id PROVE r.ticks = Asked(w)
    BY <1>1, <1>6, <2>1
  <2>2. serving'.id # w.id
    BY <1>1, <1>6
  <2> QED BY <2>1, <2>2 DEF Awaited, NoAnswer
<1>9. sent \in wire' /\ sent.id = w.id
  OBVIOUS
<1> QED BY <1>7, <1>8, <1>9

\* Take, and the drain of stop().
LEMMA TakeFeed == ASSUME FeedInv, Take \/ DrainAll PROVE FeedInv'
<1> USE DEF FeedInv
<1>0. /\ worker.at = "take" /\ queue' = <<>> /\ life' \in {life, "flushing"}
      /\ worker' = [worker EXCEPT !.at = "number", !.batch = queue,
                                  !.size = Len(queue)]
      /\ UNCHANGED <<arrived, draining, nextSeq, wire, answer, serverVars, faults,
                     dropped, interrupted>>
  BY DEF Take, DrainAll
<1> USE DEF serverVars, feedVars
<1>1. TypeOK'
  <2>1. queue \in Seq(Nat) /\ worker \in WorkerRecord
    BY DEF TypeOK
  <2>2. Len(queue) \in Nat /\ queue' \in Seq(Nat)
    BY <1>0, <2>1
  <2>3. worker' \in WorkerRecord
    BY <1>0, <2>1, <2>2 DEF WorkerRecord
  <2>4. life' \in {"running", "stopping", "flushing", "stopped"}
    BY <1>0 DEF TypeOK
  <2> QED BY <1>0, <2>2, <2>3, <2>4 DEF TypeOK
<1>2. worker.batch = <<>> /\ worker'.batch = queue
      /\ worker'.at = "number"
      /\ UNCHANGED <<worker.payload, worker.pending, worker.done, worker.id>>
  BY <1>0 DEF FeedShape, WorkerShape, TypeOK, WorkerRecord
<1>3. Hand(worker') = Hand(worker)
  BY <1>2 DEF Hand
<1>4. WorkerShape(worker', nextSeq', arrived')
  BY <1>0, <1>2, <1>3 DEF FeedShape, WorkerShape
<1>5. Accounted'
  <2>1. Held' = Held
    BY <1>0, <1>2, <1>3 DEF Held
  <2> QED BY <1>0, <1>2, <2>1, EmptyRange DEF FeedShape, Accounted
<1>6. arrived <= arrived' /\ nextSeq <= nextSeq' /\ worker.id <= worker'.id
  <2>1. arrived \in Nat /\ nextSeq \in Nat /\ worker.id \in Nat
    BY DEF TypeOK, WorkerRecord
  <2> QED BY <1>0, <1>2, <2>1
<1>7. WireShape' /\ Passed(Hand(worker'), feed'.last, taken')
  BY <1>0, <1>1, <1>3, <1>6, WireKept DEF FeedShape
<1>8. Awaited' /\ Blamed'
  BY <1>0, <1>2 DEF Awaited, Blamed, Waiting, FeedShape
<1> QED BY <1>1, <1>4, <1>5, <1>7, <1>8 DEF FeedShape

\* The end of a batch that numbered all of it.
LEMMA BatchedFeed == ASSUME FeedInv, Batched PROVE FeedInv'
<1> USE DEF FeedInv
<1>0. /\ worker.at = "number" /\ worker.batch = <<>>
      /\ worker' = [worker EXCEPT !.at = "take", !.batch = <<>>, !.size = 0]
      /\ dropped' = dropped
      /\ UNCHANGED <<arrived, queue, draining, life, nextSeq, wire, answer,
                     serverVars, faults, interrupted>>
  BY EmptyRange DEF Batched, EndBatch
<1> USE DEF serverVars, feedVars
<1>1. TypeOK'
  BY <1>0 DEF TypeOK, WorkerRecord
<1>2. worker'.batch = <<>> /\ worker'.at = "take"
      /\ UNCHANGED <<worker.payload, worker.pending, worker.done, worker.id>>
  BY <1>0 DEF TypeOK, WorkerRecord
<1>3. Hand(worker') = Hand(worker)
  BY <1>2 DEF Hand
<1>4. WorkerShape(worker', nextSeq', arrived')
  BY <1>0, <1>2, <1>3 DEF FeedShape, WorkerShape
<1>5. Accounted'
  <2>1. Held' = Held
    BY <1>0, <1>2, <1>3 DEF Held
  <2> QED BY <1>0, <1>2, <2>1 DEF FeedShape, Accounted
<1>6. arrived <= arrived' /\ nextSeq <= nextSeq' /\ worker.id <= worker'.id
  <2>1. arrived \in Nat /\ nextSeq \in Nat /\ worker.id \in Nat
    BY DEF TypeOK, WorkerRecord
  <2> QED BY <1>0, <1>2, <2>1
<1>7. WireShape' /\ Passed(Hand(worker'), feed'.last, taken')
  BY <1>0, <1>1, <1>3, <1>6, WireKept DEF FeedShape
<1>8. Awaited' /\ Blamed'
  BY <1>0, <1>2 DEF Awaited, Blamed, Waiting, FeedShape
<1> QED BY <1>1, <1>4, <1>5, <1>7, <1>8 DEF FeedShape

\* The next tick of the batch gets the next number, and a full buffer is sent.
LEMMA NumberTickFeed == ASSUME FeedInv, NumberTick PROVE FeedInv'
<1> USE DEF FeedInv
<1> DEFINE new == [tick |-> Head(worker.batch), seq |-> nextSeq]
           p == Append(worker.pending, new)
           w == [worker EXCEPT !.batch = Tail(@), !.pending = p]
<1>0. /\ worker.at = "number" /\ worker.batch # <<>> /\ nextSeq' = nextSeq + 1
      /\ UNCHANGED <<arrived, queue, draining, life, serverVars, faults, dropped,
                     interrupted>>
      /\ IF Len(p) >= BatchSize
         THEN Flush(w)
         ELSE worker' = w /\ UNCHANGED <<wire, answer>>
  BY DEF NumberTick, queueVars
<1> USE DEF serverVars, feedVars
<1>1. /\ worker.batch \in Seq(Nat) /\ worker.pending \in Seq(Tick)
      /\ worker.payload = <<>> /\ worker.id \in Nat /\ worker.done \in Nat
      /\ worker.done <= Len(worker.payload) /\ Ordered(worker.pending)
      /\ nextSeq \in Nat \ {0} /\ arrived \in Nat /\ worker \in WorkerRecord
  BY <1>0 DEF TypeOK, WorkerRecord, FeedShape, WorkerShape
<1>2. Range(worker.batch) = {Head(worker.batch)} \union Range(Tail(worker.batch))
      /\ Head(worker.batch) \in Nat /\ Tail(worker.batch) \in Seq(Nat)
  BY <1>0, <1>1, RangeHeadTail
<1>3. new \in Tick /\ new.seq = nextSeq /\ new.tick = Head(worker.batch)
  BY <1>1, <1>2 DEF Tick
<1> HIDE DEF new
<1>4. p \in Seq(Tick) /\ Len(p) = Len(worker.pending) + 1
      /\ p[Len(worker.pending) + 1] = new
      /\ \A i \in 1 .. Len(worker.pending) : p[i] = worker.pending[i]
  BY <1>1, <1>3, AppendProperties
<1>5. worker.done = 0 /\ Hand(worker) =
          {worker.pending[i] : i \in 1 .. Len(worker.pending)}
  BY <1>1 DEF Hand
<1>6. \A h \in Hand(worker) : h.seq < nextSeq /\ h.tick \in 1 .. arrived
  BY DEF FeedShape, WorkerShape
<1>7. Ordered(p)
  BY <1>1, <1>3, <1>5, <1>6, OrderedAppend
<1>8. {p[i] : i \in 1 .. Len(p)} = Hand(worker) \union {new}
  <2>1. 1 .. Len(p) = 1 .. Len(worker.pending) \union {Len(worker.pending) + 1}
    BY <1>1, <1>4
  <2> QED BY <1>4, <1>5, <2>1
<1>9. new.tick \in 1 .. arrived /\ new.seq < nextSeq'
  BY <1>0, <1>1, <1>2, <1>3 DEF FeedShape, Accounted
<1> HIDE DEF p
<1>w. w = [at |-> "number", batch |-> Tail(worker.batch), size |-> worker.size,
           pending |-> p, payload |-> <<>>, attempt |-> worker.attempt,
           done |-> 0, bars |-> worker.bars, id |-> worker.id]
  <2>1. w = [at |-> w.at, batch |-> w.batch, size |-> w.size,
             pending |-> w.pending, payload |-> w.payload,
             attempt |-> w.attempt, done |-> w.done, bars |-> w.bars,
             id |-> w.id]
    <3>1. w \in WorkerRecord
      BY <1>1, <1>2, <1>4 DEF WorkerRecord
    <3> HIDE DEF w
    <3> QED BY <3>1 DEF WorkerRecord
  <2>2. /\ w.at = worker.at /\ w.batch = Tail(worker.batch)
        /\ w.pending = p /\ w.size = worker.size
        /\ w.payload = worker.payload /\ w.attempt = worker.attempt
        /\ w.done = worker.done /\ w.bars = worker.bars /\ w.id = worker.id
    BY <1>1 DEF WorkerRecord
  <2> HIDE DEF w
  <2> QED BY <1>0, <1>1, <1>5, <2>1, <2>2
<1> HIDE DEF w
<1>10. /\ worker' \in WorkerRecord /\ worker'.batch = Tail(worker.batch)
       /\ worker'.at \in {"number", "batch"} /\ worker'.done = 0
       /\ worker'.at = "number" =>
              /\ worker'.payload = <<>> /\ worker'.pending = p
              /\ worker'.id = worker.id
              /\ UNCHANGED <<wire, answer>>
       /\ worker'.at = "batch" =>
              /\ worker'.payload = p /\ worker'.pending = <<>>
              /\ worker'.id = worker.id + 1 /\ answer' = NoAnswer
              /\ wire' = wire \union {[id |-> worker'.id, ticks |-> p]}
  <2>1. CASE Len(p) >= BatchSize
    <3>1. worker' = [at |-> "batch", batch |-> Tail(worker.batch),
                     size |-> worker.size, pending |-> <<>>, payload |-> p,
                     attempt |-> worker.attempt, done |-> 0,
                     bars |-> worker.bars, id |-> worker.id + 1]
      BY <1>0, <1>w, <2>1 DEF Flush, Send
    <3>2. answer' = NoAnswer
          /\ wire' = wire \union {[id |-> worker.id + 1, ticks |-> p]}
      BY <1>0, <1>w, <2>1 DEF Flush, Send
    <3> QED BY <1>1, <1>2, <1>4, <3>1, <3>2, SMTT(20) DEF WorkerRecord
  <2>2. CASE ~ Len(p) >= BatchSize
    <3>1. worker' = w /\ UNCHANGED <<wire, answer>>
      BY <1>0, <2>2
    <3>2. worker.size \in Nat /\ worker.attempt \in Nat /\ worker.bars \in Nat
      BY <1>1 DEF WorkerRecord
    <3> QED BY <1>1, <1>2, <1>4, <1>w, <3>1, <3>2 DEF WorkerRecord
  <2> QED BY <2>1, <2>2
<1>11. Hand(worker') = Hand(worker) \union {new}
  <2>1. Hand(worker') = {p[i] : i \in 1 .. Len(p)}
    BY <1>4, <1>10, HandWhole
  <2> QED BY <1>8, <2>1
<1>12. TypeOK'
  <2>1. wire' \subseteq Request
    BY <1>1, <1>4, <1>10 DEF TypeOK, Request
  <2>2. answer' \in [kind : {"none", "ok", "failed"}, bars : Nat]
    BY <1>10 DEF TypeOK, NoAnswer
  <2> QED BY <1>0, <1>1, <1>10, <2>1, <2>2 DEF TypeOK
<1>13. WorkerShape(worker', nextSeq', arrived')
  <2>1. Ordered(<<>>)
    BY DEF Ordered
  <2>2. \A h \in Hand(worker') : h.seq < nextSeq' /\ h.tick \in 1 .. arrived'
    <3>1. Hand(worker) \subseteq Tick
      BY <1>1, HandType
    <3> QED BY <1>0, <1>1, <1>6, <1>9, <1>11, <3>1 DEF Tick
  <2> QED BY <1>1, <1>4, <1>7, <1>10, <2>1, <2>2 DEF WorkerShape
<1>14. Accounted'
  <2>1. Held' = Held \union {new.tick}
    BY <1>0, <1>10, <1>11 DEF Held
  <2> QED BY <1>0, <1>2, <1>3, <1>10, <2>1 DEF FeedShape, Accounted
<1>15. nextSeq <= nextSeq' /\ arrived <= arrived'
       /\ \A h \in Hand(worker') : h \in Hand(worker) \/ h.seq >= nextSeq
  BY <1>0, <1>1, <1>3, <1>11
<1>16. CASE worker'.at = "number"
  <2>1. worker.id <= worker'.id
    BY <1>1, <1>10, <1>16
  <2>2. WireShape' /\ Passed(Hand(worker'), feed'.last, taken')
    BY <1>0, <1>10, <1>12, <1>15, <1>16, <2>1, WireKept DEF FeedShape
  <2>3. Awaited' /\ Blamed'
    BY <1>0, <1>10, <1>16 DEF Awaited, Blamed, Waiting, FeedShape
  <2> QED BY <1>12, <1>13, <1>14, <2>2, <2>3 DEF FeedShape
<1>17. CASE worker'.at = "batch"
  <2>1. wire' = wire \union {[id |-> worker'.id, ticks |-> Asked(worker')]}
    BY <1>10, <1>17 DEF Asked
  <2>2. /\ WireShape' /\ Passed(Hand(worker'), feed'.last, taken')
        /\ Awaited' /\ \E r \in wire' : r.id = worker'.id
    BY <1>0, <1>10, <1>12, <1>13, <1>15, <1>17, <2>1, SendFeed
  <2>3. Blamed'
    BY <1>0, <1>10, <1>17, <2>2 DEF Blamed, FeedShape, NoAnswer
  <2> QED BY <1>12, <1>13, <1>14, <2>2, <2>3 DEF FeedShape
<1> QED BY <1>10, <1>16, <1>17

LEMMA IdSet ==
    ASSUME NEW w \in WorkerRecord, NEW id \in Nat,
           NEW v, v = [w EXCEPT !.id = id]
    PROVE  /\ v \in WorkerRecord /\ v.id = id /\ v.at = w.at
           /\ v.batch = w.batch /\ v.payload = w.payload
           /\ v.pending = w.pending /\ v.done = w.done
BY DEF WorkerRecord

LEMMA FinalFlushFeed == ASSUME FeedInv, FinalFlush PROVE FeedInv'
<1> USE DEF FeedInv
<1>0. /\ worker.at = "take" /\ life' = "stopped" /\ answer' = NoAnswer
      /\ worker' = [[worker EXCEPT !.at = "batch", !.payload = worker.pending,
                                   !.pending = <<>>]
                    EXCEPT !.id = worker.id + 1]
      /\ wire' = wire \union {[id |-> worker.id + 1, ticks |-> worker.pending]}
      /\ worker.pending # <<>>
      /\ UNCHANGED <<queueVars, nextSeq, serverVars, faults, dropped,
                     interrupted>>
  BY DEF FinalFlush, Flush, Send
<1> USE DEF queueVars, serverVars, feedVars
<1>1. /\ worker.pending \in Seq(Tick) /\ worker.id \in Nat /\ worker.done = 0
      /\ worker.payload = <<>> /\ worker.batch = <<>> /\ Ordered(worker.pending)
      /\ Len(worker.pending) > 0
  BY <1>0, EmptySeq DEF FeedShape, WorkerShape, TypeOK, WorkerRecord
<1>2. /\ worker' \in WorkerRecord /\ worker'.at = "batch"
      /\ worker'.payload = worker.pending /\ worker'.pending = <<>>
      /\ worker'.done = 0 /\ worker'.id = worker.id + 1
      /\ worker'.batch = worker.batch
  <2> DEFINE w == [worker EXCEPT !.at = "batch", !.payload = worker.pending,
                                 !.pending = <<>>]
  <2>1. /\ w \in WorkerRecord /\ w.at = "batch" /\ w.payload = worker.pending
        /\ w.pending = <<>> /\ w.done = 0 /\ w.batch = worker.batch
    BY <1>1 DEF TypeOK, WorkerRecord
  <2>2. worker' = [w EXCEPT !.id = worker.id + 1] /\ worker.id + 1 \in Nat
    BY <1>0, <1>1
  <2> HIDE DEF w
  <2> QED BY <2>1, <2>2, IdSet
<1>3. TypeOK'
  <2>1. wire' \subseteq Request
    BY <1>0, <1>1 DEF TypeOK, Request
  <2>2. answer' \in [kind : {"none", "ok", "failed"}, bars : Nat]
    BY <1>0 DEF NoAnswer
  <2> QED BY <1>0, <1>2, <2>1, <2>2 DEF TypeOK
<1>4. Hand(worker') = Hand(worker)
  BY <1>1, <1>2, HandWhole
<1>5. WorkerShape(worker', nextSeq', arrived')
  <2>1. Ordered(<<>>)
    BY DEF Ordered
  <2> QED BY <1>0, <1>1, <1>2, <1>4, <2>1 DEF FeedShape, WorkerShape
<1>6. Accounted'
  <2>1. Held' = Held
    BY <1>0, <1>2, <1>4 DEF Held
  <2> QED BY <1>0, <1>2, <2>1 DEF FeedShape, Accounted
<1>7. /\ WireShape' /\ Passed(Hand(worker'), feed'.last, taken')
      /\ Awaited' /\ \E r \in wire' : r.id = worker'.id
  <2>1. wire' = wire \union {[id |-> worker'.id, ticks |-> Asked(worker')]}
    BY <1>0, <1>2 DEF Asked
  <2>2. nextSeq <= nextSeq'
    BY <1>0 DEF TypeOK
  <2> QED BY <1>0, <1>2, <1>3, <1>4, <1>5, <2>1, <2>2, SendFeed
<1>8. Blamed'
  BY <1>0, <1>2, <1>7 DEF Blamed, FeedShape, NoAnswer
<1> QED BY <1>3, <1>5, <1>6, <1>7, <1>8 DEF FeedShape

\* A time-out: the payload is sent again, or the first of its ticks.
LEMMA TimesOutFeed == ASSUME FeedInv, TimesOut PROVE FeedInv'
<1> USE DEF FeedInv
<1>0. /\ worker.at = "batch" /\ faults' = faults + 1 /\ answer' = NoAnswer
      /\ UNCHANGED <<queueVars, life, nextSeq, serverVars, dropped,
                     interrupted>>
      /\ \/ /\ worker' = [[worker EXCEPT !.attempt = @ + 1]
                          EXCEPT !.id = worker.id + 1]
            /\ wire' = wire \union
                       {[id |-> worker.id + 1, ticks |-> worker.payload]}
         \/ /\ worker' = [[worker EXCEPT !.at = "single"]
                          EXCEPT !.id = worker.id + 1]
            /\ wire' = wire \union
                       {[id |-> worker.id + 1, ticks |-> <<worker.payload[1]>>]}
  BY DEF TimesOut, Send
<1> USE DEF queueVars, serverVars, feedVars
<1>1. /\ worker.payload \in Seq(Tick) /\ worker.id \in Nat /\ worker.done = 0
      /\ worker.pending = <<>> /\ worker.done < Len(worker.payload)
  BY <1>0 DEF FeedShape, WorkerShape, TypeOK, WorkerRecord
<1>2. /\ worker' \in WorkerRecord /\ worker'.at \in {"batch", "single"}
      /\ worker'.id = worker.id + 1
      /\ UNCHANGED <<worker.batch, worker.payload, worker.pending, worker.done>>
      /\ wire' = wire \union {[id |-> worker'.id, ticks |-> Asked(worker')]}
  <2>1. CASE /\ worker' = [[worker EXCEPT !.attempt = @ + 1]
                           EXCEPT !.id = worker.id + 1]
             /\ wire' = wire \union
                    {[id |-> worker.id + 1, ticks |-> worker.payload]}
    <3>1. worker' \in WorkerRecord /\ worker'.at = "batch"
          /\ worker'.id = worker.id + 1
          /\ UNCHANGED <<worker.batch, worker.payload, worker.pending,
                         worker.done>>
      <4> DEFINE w == [worker EXCEPT !.attempt = @ + 1]
      <4>1. /\ w \in WorkerRecord /\ w.at = "batch" /\ w.batch = worker.batch
            /\ w.payload = worker.payload /\ w.pending = worker.pending
            /\ w.done = worker.done
        <5>1. worker \in WorkerRecord /\ worker.attempt + 1 \in Nat
          BY DEF TypeOK, WorkerRecord
        <5> QED BY <1>0, <5>1 DEF WorkerRecord
      <4>2. worker' = [w EXCEPT !.id = worker.id + 1] /\ worker.id + 1 \in Nat
        BY <1>1, <2>1
      <4> HIDE DEF w
      <4> QED BY <4>1, <4>2, IdSet
    <3> QED BY <2>1, <3>1 DEF Asked
  <2>2. CASE /\ worker' = [[worker EXCEPT !.at = "single"]
                           EXCEPT !.id = worker.id + 1]
             /\ wire' = wire \union
                    {[id |-> worker.id + 1, ticks |-> <<worker.payload[1]>>]}
    <3>1. worker' \in WorkerRecord /\ worker'.at = "single"
          /\ worker'.id = worker.id + 1
          /\ UNCHANGED <<worker.batch, worker.payload, worker.pending,
                         worker.done>>
      <4> DEFINE w == [worker EXCEPT !.at = "single"]
      <4>1. /\ w \in WorkerRecord /\ w.at = "single" /\ w.batch = worker.batch
            /\ w.payload = worker.payload /\ w.pending = worker.pending
            /\ w.done = worker.done
        BY DEF TypeOK, WorkerRecord
      <4>2. worker' = [w EXCEPT !.id = worker.id + 1] /\ worker.id + 1 \in Nat
        BY <1>1, <2>2
      <4> HIDE DEF w
      <4> QED BY <4>1, <4>2, IdSet
    <3> QED BY <1>1, <2>2, <3>1 DEF Asked
  <2> QED BY <1>0, <2>1, <2>2
<1>3. Hand(worker') = Hand(worker)
  BY <1>2 DEF Hand
<1>4. TypeOK'
  <2>1. Asked(worker') \in Seq(Tick)
    BY <1>1, <1>2 DEF Asked
  <2>2. wire' \subseteq Request
    BY <1>1, <1>2, <2>1 DEF TypeOK, Request
  <2>3. answer' \in [kind : {"none", "ok", "failed"}, bars : Nat]
    BY <1>0 DEF NoAnswer
  <2> QED BY <1>0, <1>2, <2>2, <2>3 DEF TypeOK
<1>5. WorkerShape(worker', nextSeq', arrived')
  BY <1>0, <1>1, <1>2, <1>3 DEF FeedShape, WorkerShape
<1>6. Accounted'
  <2>1. Held' = Held
    BY <1>0, <1>2, <1>3 DEF Held
  <2> QED BY <1>0, <1>2, <2>1 DEF FeedShape, Accounted
<1>7. /\ WireShape' /\ Passed(Hand(worker'), feed'.last, taken')
      /\ Awaited' /\ \E r \in wire' : r.id = worker'.id
  <2>1. nextSeq <= nextSeq'
    BY <1>0 DEF TypeOK
  <2> QED BY <1>0, <1>2, <1>3, <1>4, <1>5, <2>1, SendFeed
<1>8. Blamed'
  BY <1>0, <1>2, <1>7 DEF Blamed, FeedShape, NoAnswer, TypeOK
<1> QED BY <1>4, <1>5, <1>6, <1>7, <1>8 DEF FeedShape

-----------------------------------------------------------------------------
(* The worker: answers, predictions, exceptions. *)

\* A step that ends a request asks for nothing new: the hand loses ticks that
\* servers have, or that are given up.
LEMMA HandKept ==
    ASSUME FeedInv, TypeOK', UNCHANGED <<arrived, nextSeq, serving, taken, feed,
           wire>>, worker'.id = worker.id,
           Hand(worker') \subseteq Hand(worker)
    PROVE  WireShape' /\ Passed(Hand(worker'), feed'.last, taken')
<1>1. arrived \in Nat /\ nextSeq \in Nat /\ worker.id \in Nat
  BY DEF FeedInv, TypeOK, WorkerRecord
<1>2. arrived <= arrived' /\ nextSeq <= nextSeq' /\ worker.id <= worker'.id
  BY <1>1
<1> QED BY <1>2, WireKept DEF FeedInv, FeedShape

\* What Settled leaves of the worker, in a state that follows a flush.
LEMMA SettledRecord ==
    ASSUME NEW w \in WorkerRecord
    PROVE  /\ Settled(w) \in WorkerRecord
           /\ Settled(w).payload = <<>> /\ Settled(w).done = 0
           /\ Settled(w).batch = w.batch /\ Settled(w).size = w.size
           /\ Settled(w).pending = w.pending /\ Settled(w).id = w.id
           /\ Settled(w).at = w.at
<1>1. <<>> \in Seq(Tick) /\ 0 \in Nat
  OBVIOUS
<1>2. Settled(w) \in WorkerRecord
  BY <1>1 DEF Settled, WorkerRecord
<1>3. Settled(w).payload = <<>> /\ Settled(w).done = 0
  BY DEF Settled, WorkerRecord
<1>4. /\ Settled(w).batch = w.batch /\ Settled(w).size = w.size
      /\ Settled(w).pending = w.pending /\ Settled(w).id = w.id
      /\ Settled(w).at = w.at
  BY DEF Settled, WorkerRecord
<1> QED BY <1>2, <1>3, <1>4

LEMMA AtSet ==
    ASSUME NEW w \in WorkerRecord, NEW at \in {"number", "predict"},
           NEW v, v = [w EXCEPT !.at = at]
    PROVE  /\ v \in WorkerRecord /\ v.at = at /\ v.id = w.id
           /\ v.batch = w.batch /\ v.payload = w.payload
           /\ v.pending = w.pending /\ v.done = w.done
BY DEF WorkerRecord

\* A flush that succeeded, of a worker that differs from w in what a flush
\* counts only.
LEMMA FlushedRecord ==
    ASSUME NEW w \in WorkerRecord, Flushed(w)
    PROVE  /\ worker' \in WorkerRecord /\ worker'.id = w.id
           /\ worker'.batch = w.batch /\ worker'.pending = w.pending
           /\ \/ /\ worker'.at = "number" /\ worker'.payload = <<>>
                 /\ worker'.done = 0
              \/ /\ worker'.at = "predict" /\ worker'.payload = w.payload
                 /\ worker'.done = w.done
<1>1. CASE w.bars > 0
  BY <1>1, AtSet DEF Flushed
<1>2. CASE ~ w.bars > 0
  <2> DEFINE v == Settled(w)
  <2>1. v \in WorkerRecord /\ v.payload = <<>> /\ v.done = 0
        /\ v.batch = w.batch /\ v.pending = w.pending /\ v.id = w.id
    BY SettledRecord
  <2>2. worker' = [v EXCEPT !.at = "number"]
    BY <1>2 DEF Flushed
  <2> HIDE DEF v
  <2> QED BY <2>1, <2>2, AtSet
<1> QED BY <1>1, <1>2

\* Once every tick of a flush has been answered, servers have all of it.
LEMMA FlushedFeed ==
    ASSUME FeedInv, Waiting, NEW w \in WorkerRecord, Flushed(w),
           w.payload = worker.payload, w.pending = worker.pending,
           w.batch = worker.batch, w.id = worker.id,
           w.done \in worker.done .. Len(w.payload),
           \A h \in Hand(worker) : h.tick \in taken,
           answer' = NoAnswer,
           UNCHANGED <<queueVars, life, nextSeq, wire, serverVars, faults,
                       dropped, interrupted>>
    PROVE  FeedInv'
<1> USE DEF FeedInv, queueVars, serverVars, feedVars
<1>1. /\ worker' \in WorkerRecord /\ worker'.id = worker.id
      /\ worker'.batch = worker.batch /\ worker'.pending = <<>>
      /\ \/ /\ worker'.at = "number" /\ worker'.payload = <<>>
            /\ worker'.done = 0
         \/ /\ worker'.at = "predict" /\ worker'.payload = worker.payload
            /\ worker'.done = w.done
  BY FlushedRecord DEF FeedShape, WorkerShape, Waiting
<1>2. TypeOK'
  <2>1. answer' \in [kind : {"none", "ok", "failed"}, bars : Nat]
    BY DEF NoAnswer
  <2> QED BY <1>1, <2>1 DEF TypeOK
<1>3. worker.payload \in Seq(Tick) /\ worker.done \in Nat /\ w.done \in Nat
      /\ worker.done <= w.done /\ w.done <= Len(worker.payload)
      /\ Ordered(worker.payload) /\ worker.id > 0
  BY DEF TypeOK, WorkerRecord, FeedShape, WorkerShape, Waiting
<1>4. Hand(worker') \subseteq Hand(worker)
  BY <1>1, <1>3 DEF Hand
<1>5. WorkerShape(worker', nextSeq', arrived')
  <2>1. Ordered(<<>>)
    BY DEF Ordered
  <2>2. \A h \in Hand(worker') : h.seq < nextSeq' /\ h.tick \in 1 .. arrived'
    BY <1>4 DEF FeedShape, WorkerShape
  <2> QED BY <1>1, <1>3, <2>1, <2>2 DEF WorkerShape
<1>6. Accounted'
  <2>1. Held = {h.tick : h \in Hand(worker)}
    BY DEF Held, Waiting
  <2>2. Held \subseteq taken
    BY <2>1
  <2>3. Held' \subseteq Held
    BY <1>4, <2>1 DEF Held
  <2> QED BY <1>1, <2>2, <2>3 DEF FeedShape, Accounted
<1>7. WireShape' /\ Passed(Hand(worker'), feed'.last, taken')
  BY <1>1, <1>2, <1>4, HandKept
<1>8. Awaited' /\ Blamed'
  BY <1>1 DEF Awaited, Blamed, Waiting, FeedShape, NoAnswer
<1> QED BY <1>2, <1>5, <1>6, <1>7, <1>8 DEF FeedShape

LEMMA BatchAnsweredFeed == ASSUME FeedInv, BatchAnswered PROVE FeedInv'
<1> DEFINE w == [worker EXCEPT !.bars = answer.bars]
<1>1. worker \in WorkerRecord /\ answer.bars \in Nat
  BY DEF FeedInv, TypeOK
<1>2. /\ w \in WorkerRecord /\ w.payload = worker.payload
      /\ w.pending = worker.pending /\ w.batch = worker.batch
      /\ w.id = worker.id /\ w.done = worker.done
  BY <1>1 DEF WorkerRecord
<1>3. worker.at = "batch" /\ answer.kind = "ok" /\ Waiting
  BY DEF BatchAnswered, Waiting
<1>4. \A h \in Hand(worker) : h.tick \in taken
  <2>1. worker.done = 0 /\ worker.pending = <<>> /\ Asked(worker) = worker.payload
    BY <1>3 DEF FeedInv, FeedShape, WorkerShape, Asked
  <2>2. Hand(worker) = {worker.payload[i] : i \in 1 .. Len(worker.payload)}
    BY <2>1, HandWhole
  <2> QED BY <1>3, <2>1, <2>2 DEF FeedInv, FeedShape, Awaited
<1>5. w.done \in worker.done .. Len(w.payload)
  BY <1>1, <1>2 DEF FeedInv, FeedShape, WorkerShape, WorkerRecord
<1>6. /\ Flushed(w) /\ answer' = NoAnswer
      /\ UNCHANGED <<queueVars, life, nextSeq, wire, serverVars, faults,
                     dropped, interrupted>>
  BY DEF BatchAnswered
<1> HIDE DEF w
<1> QED BY <1>2, <1>3, <1>4, <1>5, <1>6, FlushedFeed

LEMMA SingleAnsweredFeed == ASSUME FeedInv, SingleAnswered PROVE FeedInv'
<1> USE DEF FeedInv
<1> DEFINE w == [worker EXCEPT !.done = @ + 1, !.bars = @ + answer.bars]
<1>1. worker \in WorkerRecord /\ answer.bars \in Nat /\ worker.done \in Nat
      /\ worker.bars \in Nat /\ worker.id \in Nat /\ worker.payload \in Seq(Tick)
  BY DEF TypeOK, WorkerRecord
<1>2. /\ w \in WorkerRecord /\ w.payload = worker.payload /\ w.at = worker.at
      /\ w.pending = worker.pending /\ w.batch = worker.batch
      /\ w.id = worker.id /\ w.done = worker.done + 1
  <2>1. worker.done + 1 \in Nat /\ worker.bars + answer.bars \in Nat
    BY <1>1
  <2>2. w \in WorkerRecord
    BY <1>1, <2>1 DEF WorkerRecord
  <2> QED BY <1>1, <2>2 DEF WorkerRecord
<1>3. worker.at = "single" /\ answer.kind = "ok" /\ Waiting
      /\ UNCHANGED <<queueVars, life, nextSeq, serverVars, faults, dropped,
                     interrupted>>
  BY DEF SingleAnswered, Waiting
<1>4. IF w.done < Len(w.payload)
      THEN Send(w, <<w.payload[w.done + 1]>>)
      ELSE Flushed(w) /\ answer' = NoAnswer /\ UNCHANGED wire
  BY DEF SingleAnswered
<1> HIDE DEF w
<1>5. worker.done < Len(worker.payload) /\ worker.pending = <<>>
      /\ worker.id > 0 /\ Ordered(worker.payload)
  BY <1>3 DEF FeedShape, WorkerShape
<1>6. Hand(worker) = {worker.payload[i] : i \in worker.done + 1 .. Len(worker.payload)}
  BY <1>5 DEF Hand
<1>7. worker.payload[worker.done + 1].tick \in taken
  <2>1. Asked(worker) = <<worker.payload[worker.done + 1]>>
    BY <1>3 DEF Asked
  <2>2. 1 \in 1 .. Len(Asked(worker))
        /\ Asked(worker)[1] = worker.payload[worker.done + 1]
    BY <2>1
  <2> QED BY <1>3, <2>2 DEF FeedShape, Awaited
<1>8. CASE ~ w.done < Len(w.payload)
  <2>1. worker.done + 1 = Len(worker.payload)
    BY <1>1, <1>2, <1>5, <1>8
  <2>2. \A h \in Hand(worker) : h.tick \in taken
    BY <1>1, <1>6, <1>7, <2>1
  <2>3. w.done \in worker.done .. Len(w.payload)
    BY <1>1, <1>2, <2>1
  <2> QED BY <1>2, <1>3, <1>4, <1>8, <2>2, <2>3, FlushedFeed
<1>9. CASE w.done < Len(w.payload)
  <2> USE DEF queueVars, serverVars, feedVars
  <2>1. /\ worker' = [w EXCEPT !.id = worker.id + 1] /\ answer' = NoAnswer
        /\ wire' = wire \union {[id |-> worker.id + 1,
                                 ticks |-> <<w.payload[w.done + 1]>>]}
    BY <1>4, <1>9 DEF Send
  <2>2. /\ worker' \in WorkerRecord /\ worker'.id = worker.id + 1
        /\ worker'.at = "single" /\ worker'.payload = worker.payload
        /\ worker'.pending = <<>> /\ worker'.batch = worker.batch
        /\ worker'.done = worker.done + 1
    <3>1. worker.id + 1 \in Nat
      BY <1>1
    <3>2. /\ worker' \in WorkerRecord /\ worker'.id = worker.id + 1
          /\ worker'.at = w.at /\ worker'.payload = w.payload
          /\ worker'.pending = w.pending /\ worker'.batch = w.batch
          /\ worker'.done = w.done
      BY <1>2, <2>1, <3>1, IdSet
    <3> QED BY <1>2, <1>3, <1>5, <3>2
  <2>3. wire' = wire \union {[id |-> worker'.id, ticks |-> Asked(worker')]}
    BY <1>2, <2>1, <2>2 DEF Asked
  <2>4. Hand(worker') = {worker.payload[i] :
                             i \in worker.done + 2 .. Len(worker.payload)}
    BY <1>1, <2>2 DEF Hand
  <2>5. Hand(worker) = Hand(worker') \union {worker.payload[worker.done + 1]}
    <3>1. worker.done + 1 .. Len(worker.payload) =
              {worker.done + 1} \union worker.done + 2 .. Len(worker.payload)
      BY <1>1, <1>5
    <3> QED BY <1>6, <2>4, <3>1
  <2>6. TypeOK'
    <3>1. worker.done + 2 <= Len(worker.payload)
      BY <1>1, <1>2, <1>9
    <3>2. Asked(worker') \in Seq(Tick)
      BY <1>1, <2>2, <3>1 DEF Asked
    <3>3. wire' \subseteq Request
      BY <1>1, <2>2, <2>3, <3>2 DEF TypeOK, Request
    <3>4. answer' \in [kind : {"none", "ok", "failed"}, bars : Nat]
      BY <2>1 DEF NoAnswer
    <3> QED BY <1>3, <2>2, <3>3, <3>4 DEF TypeOK
  <2>7. WorkerShape(worker', nextSeq', arrived')
    <3>1. Ordered(<<>>)
      BY DEF Ordered
    <3>2. \A h \in Hand(worker') : h.seq < nextSeq' /\ h.tick \in 1 .. arrived'
      BY <1>3, <2>5 DEF FeedShape, WorkerShape
    <3>3. worker'.done < Len(worker'.payload) /\ worker'.id > 0
      BY <1>1, <1>2, <1>9, <2>2
    <3> QED BY <1>1, <1>5, <2>2, <3>1, <3>2, <3>3 DEF WorkerShape
  <2>8. Accounted'
    <3>1. Held = Held' \union {worker.payload[worker.done + 1].tick}
      BY <1>3, <2>2, <2>5 DEF Held
    <3> QED BY <1>3, <1>7, <2>2, <3>1 DEF FeedShape, Accounted
  <2>9. /\ WireShape' /\ Passed(Hand(worker'), feed'.last, taken')
        /\ Awaited' /\ \E r \in wire' : r.id = worker'.id
    <3>1. nextSeq <= nextSeq'
      BY <1>3 DEF TypeOK
    <3> QED BY <1>3, <2>1, <2>2, <2>3, <2>5, <2>6, <2>7, <3>1, SendFeed
  <2>10. Blamed'
    BY <1>3, <2>1, <2>2, <2>9 DEF Blamed, FeedShape, NoAnswer
  <2> QED BY <2>6, <2>7, <2>8, <2>9, <2>10 DEF FeedShape
<1> QED BY <1>8, <1>9

LEMMA PredictedFeed == ASSUME FeedInv, Predicted PROVE FeedInv'
<1> USE DEF FeedInv, queueVars, serverVars, feedVars
<1>0. /\ worker.at = "predict" /\ worker' = [Settled(worker) EXCEPT !.at = "number"]
      /\ UNCHANGED <<queueVars, life, nextSeq, wire, answer, serverVars,
                     faults, dropped, interrupted>>
  BY DEF Predicted
<1>1. worker \in WorkerRecord /\ worker.pending = <<>>
  BY <1>0 DEF TypeOK, FeedShape, WorkerShape
<1>2. /\ worker' \in WorkerRecord /\ worker'.at = "number"
      /\ worker'.payload = <<>> /\ worker'.done = 0 /\ worker'.pending = <<>>
      /\ worker'.batch = worker.batch /\ worker'.id = worker.id
  <2> DEFINE v == Settled(worker)
  <2>1. v \in WorkerRecord /\ v.payload = <<>> /\ v.done = 0
        /\ v.batch = worker.batch /\ v.pending = worker.pending
        /\ v.id = worker.id
    BY <1>1, SettledRecord
  <2>2. worker' = [v EXCEPT !.at = "number"]
    BY <1>0
  <2> HIDE DEF v
  <2> QED BY <1>1, <2>1, <2>2, AtSet
<1>3. Hand(worker') = {}
  BY <1>2 DEF Hand
<1>4. TypeOK'
  BY <1>0, <1>2 DEF TypeOK
<1>5. WorkerShape(worker', nextSeq', arrived')
  BY <1>2, <1>3 DEF WorkerShape, Ordered
<1>6. Accounted'
  BY <1>0, <1>2, <1>3 DEF FeedShape, Accounted, Held
<1>7. WireShape' /\ Passed(Hand(worker'), feed'.last, taken')
  BY <1>0, <1>2, <1>3, <1>4, HandKept
<1>8. Awaited' /\ Blamed'
  BY <1>0, <1>2 DEF Awaited, Blamed, Waiting, FeedShape
<1> QED BY <1>4, <1>5, <1>6, <1>7, <1>8 DEF FeedShape

\* The rest of a payload, put back before what was numbered since: nothing.
LEMMA RestOf ==
    ASSUME NEW s \in Seq(Tick), NEW d \in Nat, d <= Len(s), Ordered(s),
           NEW u, u = SubSeq(s, d + 1, Len(s)) \o <<>>
    PROVE  /\ u \in Seq(Tick) /\ Ordered(u)
           /\ {u[i] : i \in 1 .. Len(u)} = {s[i] : i \in d + 1 .. Len(s)}
<1>1. Len(s) \in Nat /\ Len(s) <= Len(s)
  OBVIOUS
<1>2. \A i \in d + 1 .. Len(s) : s[i] \in Tick
  OBVIOUS
<1>3. /\ SubSeq(s, d + 1, Len(s)) \in Seq(Tick)
      /\ Len(SubSeq(s, d + 1, Len(s))) = Len(s) - d
      /\ \A i \in 1 .. Len(s) - d : SubSeq(s, d + 1, Len(s))[i] = s[d + i]
  BY <1>1, <1>2
<1>4. u = SubSeq(s, d + 1, Len(s))
  BY <1>3, ConcatEmptySeq
<1>5. u \in Seq(Tick) /\ Len(u) = Len(s) - d
      /\ \A i \in 1 .. Len(s) - d : u[i] = s[d + i]
  BY <1>3, <1>4
<1>6. Ordered(u)
  <2> SUFFICES ASSUME NEW i \in 1 .. Len(u), NEW j \in 1 .. Len(u), i < j
               PROVE  u[i].seq < u[j].seq
    BY DEF Ordered
  <2>1. d + i \in 1 .. Len(s) /\ d + j \in 1 .. Len(s) /\ d + i < d + j
    BY <1>1, <1>5
  <2> QED BY <1>5, <2>1 DEF Ordered
<1>7. {u[i] : i \in 1 .. Len(u)} = {s[i] : i \in d + 1 .. Len(s)}
  <2>1. \A i \in 1 .. Len(u) : d + i \in d + 1 .. Len(s) /\ u[i] = s[d + i]
    BY <1>1, <1>5
  <2>2. \A i \in d + 1 .. Len(s) : i - d \in 1 .. Len(u) /\ s[i] = u[i - d]
    <3> TAKE i \in d + 1 .. Len(s)
    <3>1. i - d \in 1 .. Len(s) - d /\ d + (i - d) = i
      BY <1>1
    <3> QED BY <1>5, <3>1
  <2>3. {u[i] : i \in 1 .. Len(u)} \subseteq {s[i] : i \in d + 1 .. Len(s)}
    BY <2>1
  <2>4. {s[i] : i \in d + 1 .. Len(s)} \subseteq {u[i] : i \in 1 .. Len(u)}
    BY <2>2
  <2> QED BY <2>3, <2>4
<1> QED BY <1>5, <1>6, <1>7

LEMMA EndedRecord ==
    ASSUME NEW w \in WorkerRecord,
           NEW v, v = [w EXCEPT !.at = "take", !.batch = <<>>, !.size = 0]
    PROVE  /\ v \in WorkerRecord /\ v.at = "take" /\ v.batch = <<>>
           /\ v.payload = w.payload /\ v.done = w.done
           /\ v.pending = w.pending /\ v.id = w.id
<1>1. <<>> \in Seq(Nat) /\ 0 \in Nat
  OBVIOUS
<1>2. v \in WorkerRecord
  BY <1>1 DEF WorkerRecord
<1>3. v.at = "take" /\ v.batch = <<>>
  BY DEF WorkerRecord
<1>4. /\ v.payload = w.payload /\ v.done = w.done
      /\ v.pending = w.pending /\ v.id = w.id
  BY DEF WorkerRecord
<1> QED BY <1>2, <1>3, <1>4

\* An exception: the ticks not answered for stay in hand, and those of the
\* batch are given up.
LEMMA EscapeFeed ==
    ASSUME FeedInv, worker.at \in {"batch", "single", "predict"}, Escape(worker),
           UNCHANGED <<arrived, queue, draining, life, nextSeq, wire,
                       serverVars>>,
           faults' \in {faults, faults + 1},
           interrupted' \in {interrupted, TRUE},
           answer' \in {answer, NoAnswer},
           faults' > 0 \/ interrupted'
    PROVE  FeedInv'
<1> USE DEF FeedInv, serverVars, feedVars
<1> DEFINE u == SubSeq(worker.payload, worker.done + 1, Len(worker.payload))
                \o worker.pending
           v == Settled(worker)
           w == [v EXCEPT !.pending = SubSeq(worker.payload, worker.done + 1,
                                             Len(worker.payload)) \o @]
<1>1. /\ worker \in WorkerRecord /\ worker.payload \in Seq(Tick)
      /\ worker.done \in Nat /\ worker.done <= Len(worker.payload)
      /\ Ordered(worker.payload) /\ worker.pending = <<>>
  BY DEF TypeOK, WorkerRecord, FeedShape, WorkerShape
<1>2. /\ v \in WorkerRecord /\ v.payload = <<>> /\ v.done = 0
      /\ v.batch = worker.batch /\ v.pending = worker.pending
      /\ v.id = worker.id
  BY <1>1, SettledRecord
<1>3. /\ u \in Seq(Tick) /\ Ordered(u)
      /\ {u[i] : i \in 1 .. Len(u)} =
             {worker.payload[i] : i \in worker.done + 1 .. Len(worker.payload)}
  BY <1>1, RestOf
<1>4. worker' = [w EXCEPT !.at = "take", !.batch = <<>>, !.size = 0]
      /\ dropped' = dropped \union Range(w.batch)
  BY DEF Escape, EndBatch
<1> HIDE DEF v
<1>5. w = [v EXCEPT !.pending = u]
  BY <1>2 DEF WorkerRecord
<1> HIDE DEF w, u
<1>6. /\ w \in WorkerRecord /\ w.payload = <<>> /\ w.done = 0
      /\ w.batch = worker.batch /\ w.pending = u /\ w.id = worker.id
  BY <1>2, <1>3, <1>5 DEF WorkerRecord
<1>7. /\ worker' \in WorkerRecord /\ worker'.payload = <<>> /\ worker'.done = 0
      /\ worker'.batch = <<>> /\ worker'.pending = u /\ worker'.id = worker.id
      /\ worker'.at = "take"
  BY <1>4, <1>6, EndedRecord
<1>8. TypeOK'
  <2>1. answer' \in [kind : {"none", "ok", "failed"}, bars : Nat]
    BY DEF TypeOK, NoAnswer
  <2>2. faults' \in Nat /\ interrupted' \in BOOLEAN
    <3>1. faults \in Nat /\ interrupted \in BOOLEAN
      BY DEF TypeOK
    <3>2. faults' \in Nat
      BY <3>1
    <3>3. interrupted' \in BOOLEAN
      BY <3>1, Zenon
    <3> QED BY <3>2, <3>3
  <2>3. /\ life' \in {"running", "stopping", "flushing", "stopped"}
        /\ serving' \in [id : Nat, ticks : Seq(Tick), bars : Nat]
        /\ feed' \in [last : Nat, buffer : Seq(Nat)]
    BY DEF TypeOK
  <2>4. /\ arrived' \in Nat /\ queue' \in Seq(Nat) /\ draining' \in BOOLEAN
        /\ nextSeq' \in Nat \ {0} /\ wire' \subseteq Request
    BY DEF TypeOK
  <2> QED BY <1>7, <2>1, <2>2, <2>3, <2>4 DEF TypeOK
<1>9. Hand(worker') = Hand(worker)
  <2>1. Hand(worker') = {u[i] : i \in 1 .. Len(u)}
    BY <1>7, HandWhole
  <2>2. Hand(worker) =
            {worker.payload[i] : i \in worker.done + 1 .. Len(worker.payload)}
    BY <1>1 DEF Hand
  <2> QED BY <1>3, <2>1, <2>2
<1>10. WorkerShape(worker', nextSeq', arrived')
  <2>1. Ordered(<<>>)
    BY DEF Ordered
  <2> QED BY <1>3, <1>7, <1>9, <2>1 DEF FeedShape, WorkerShape
<1>11. Accounted'
  <2>1. Held' = {h.tick : h \in Hand(worker)}
    BY <1>7, <1>9 DEF Held
  <2>2. Held \subseteq Held' /\ Held' \subseteq 1 .. arrived
    <3>1. Held \subseteq Held'
      BY <2>1 DEF Held
    <3>2. \A h \in Hand(worker) : h.tick \in 1 .. arrived
      BY DEF FeedShape, WorkerShape
    <3> QED BY <2>1, <3>1, <3>2
  <2>3. CASE worker.at = "predict"
    BY <1>4, <1>6, <1>7, <2>2, EmptyRange DEF FeedShape, Accounted
  <2>4. CASE worker.at # "predict"
    <3>1. Held = Held'
      BY <2>1, <2>4 DEF Held
    <3> QED BY <1>4, <1>6, <1>7, <3>1, EmptyRange DEF FeedShape, Accounted
  <2> QED BY <2>3, <2>4
<1>12. WireShape' /\ Passed(Hand(worker'), feed'.last, taken')
  BY <1>7, <1>8, <1>9, HandKept
<1>13. Awaited'
  BY <1>7 DEF Awaited, Waiting
<1>14. Blamed'
  <2>1. faults' > 0 \/ faults' = faults
    BY DEF TypeOK
  <2>2. answer'.kind = "failed" => faults' > 0
    BY <2>1 DEF NoAnswer, FeedShape, Blamed, TypeOK
  <2> QED BY <1>7, <2>2 DEF Blamed, Waiting
<1> QED BY <1>8, <1>10, <1>11, <1>12, <1>13, <1>14 DEF FeedShape

LEMMA CallFailsFeed == ASSUME FeedInv, CallFails PROVE FeedInv'
<1>1. /\ Waiting /\ Escape(worker) /\ answer' = NoAnswer
      /\ UNCHANGED <<arrived, queue, draining, life, nextSeq, wire, serverVars,
                     interrupted>>
  BY DEF CallFails
<1>2. faults \in Nat /\ interrupted \in BOOLEAN
  BY DEF FeedInv, TypeOK
<1>3. faults' \in {faults, faults + 1} /\ faults' > 0
  <2>1. CASE answer.kind = "failed" /\ UNCHANGED faults
    BY <2>1 DEF FeedInv, FeedShape, Blamed
  <2>2. CASE /\ answer.kind = "none" /\ UNCHANGED faults
             /\ \A r \in wire \union {serving} : r.id # worker.id
    BY <1>1, <2>2 DEF FeedInv, FeedShape, Blamed
  <2>3. CASE faults' = faults + 1
    BY <1>2, <2>3
  <2> QED BY <2>1, <2>2, <2>3 DEF CallFails
<1> QED BY <1>1, <1>2, <1>3, EscapeFeed DEF Waiting

LEMMA PredictThrowsFeed == ASSUME FeedInv, PredictThrows PROVE FeedInv'
<1>1. faults' = faults + 1 /\ faults \in Nat
  BY DEF PredictThrows, FeedInv, TypeOK
<1>2. /\ worker.at = "predict" /\ Escape(worker)
      /\ UNCHANGED <<arrived, queue, draining, life, nextSeq, wire, answer,
                     serverVars, interrupted>>
  BY DEF PredictThrows
<1>3. faults' > 0
  BY <1>1
<1> QED BY <1>1, <1>2, <1>3, EscapeFeed

\* The stop breaks a request off; between two attempts it loses the payload.
LEMMA InterruptedFeed == ASSUME FeedInv, Interrupted PROVE FeedInv'
<1> USE DEF FeedInv
<1>0. /\ Waiting /\ interrupted' = TRUE /\ answer' = NoAnswer
      /\ UNCHANGED <<arrived, queue, draining, life, nextSeq, wire, serverVars,
                     faults>>
  BY DEF Interrupted
<1>1. CASE Escape(worker)
  BY <1>0, <1>1, EscapeFeed DEF Waiting
<1> DEFINE v == Settled(worker)
           lost == worker.batch \o [i \in DOMAIN worker.payload |->
                                        worker.payload[i].tick]
           w == [v EXCEPT !.batch = @ \o [i \in DOMAIN worker.payload |->
                                              worker.payload[i].tick]]
<1>2. CASE worker.at = "batch" /\ EndBatch(w)
  <2> USE DEF serverVars, feedVars
  <2>1. /\ worker \in WorkerRecord /\ worker.payload \in Seq(Tick)
        /\ worker.batch \in Seq(Nat) /\ worker.pending = <<>> /\ worker.done = 0
    BY <1>2 DEF TypeOK, WorkerRecord, FeedShape, WorkerShape
  <2>2. /\ v \in WorkerRecord /\ v.payload = <<>> /\ v.done = 0
        /\ v.batch = worker.batch /\ v.pending = worker.pending
        /\ v.id = worker.id
    BY <2>1, SettledRecord
  <2> DEFINE ticks == [i \in DOMAIN worker.payload |-> worker.payload[i].tick]
  <2>3. ticks \in Seq(Nat) /\ Range(ticks) = {h.tick : h \in Hand(worker)}
    <3>1. DOMAIN worker.payload = 1 .. Len(worker.payload)
          /\ Len(worker.payload) \in Nat
      BY <2>1
    <3>2. \A i \in 1 .. Len(worker.payload) : worker.payload[i].tick \in Nat
      <4>1. \A i \in 1 .. Len(worker.payload) : worker.payload[i] \in Tick
        BY <2>1
      <4> QED BY <4>1 DEF Tick
    <3>3. ticks \in Seq(Nat)
      <4>1. ticks \in [1 .. Len(worker.payload) -> Nat]
        BY <3>1, <3>2
      <4> HIDE DEF ticks
      <4> QED BY <3>1, <4>1, SeqDef
    <3>4. Range(ticks) = {worker.payload[i].tick : i \in 1 .. Len(worker.payload)}
      BY <3>1 DEF Range
    <3>5. Hand(worker) = {worker.payload[i] : i \in 1 .. Len(worker.payload)}
      BY <2>1, HandWhole
    <3> QED BY <3>3, <3>4, <3>5
  <2>4. lost \in Seq(Nat) /\ Range(lost) = Range(worker.batch) \union Range(ticks)
    <3>1. lost = worker.batch \o ticks
      OBVIOUS
    <3> HIDE DEF ticks, lost
    <3> QED BY <2>1, <2>3, <3>1, ConcatProperties, RangeConcatenation
  <2>5. w = [v EXCEPT !.batch = lost]
    BY <2>2 DEF WorkerRecord
  <2>6. worker' = [w EXCEPT !.at = "take", !.batch = <<>>, !.size = 0]
        /\ dropped' = dropped \union Range(w.batch)
    BY <1>2 DEF EndBatch
  <2> HIDE DEF v, lost, w, ticks
  <2>7. /\ w \in WorkerRecord /\ w.payload = <<>> /\ w.done = 0
        /\ w.batch = lost /\ w.pending = <<>> /\ w.id = worker.id
    BY <2>1, <2>2, <2>4, <2>5 DEF WorkerRecord
  <2>8. /\ worker' \in WorkerRecord /\ worker'.at = "take"
        /\ worker'.batch = <<>> /\ worker'.payload = <<>> /\ worker'.done = 0
        /\ worker'.pending = <<>> /\ worker'.id = worker.id
    BY <2>6, <2>7, EndedRecord
  <2>9. Hand(worker') = {}
    BY <2>8 DEF Hand
  <2>10. TypeOK'
    <3>1. answer' \in [kind : {"none", "ok", "failed"}, bars : Nat]
      BY <1>0 DEF NoAnswer
    <3> QED BY <1>0, <2>8, <3>1 DEF TypeOK
  <2>11. WorkerShape(worker', nextSeq', arrived')
    BY <2>8, <2>9 DEF WorkerShape, Ordered
  <2>12. Accounted'
    <3>1. Held = Range(ticks) /\ Held' = {}
      BY <1>2, <2>3, <2>9 DEF Held
    <3> QED BY <1>0, <2>4, <2>6, <2>7, <2>8, <3>1, EmptyRange
               DEF FeedShape, Accounted
  <2>13. WireShape' /\ Passed(Hand(worker'), feed'.last, taken')
    BY <1>0, <2>8, <2>9, <2>10, HandKept
  <2>14. Awaited' /\ Blamed'
    BY <1>0, <2>8 DEF Awaited, Blamed, Waiting, FeedShape, NoAnswer
  <2> QED BY <2>10, <2>11, <2>12, <2>13, <2>14 DEF FeedShape
<1> QED BY <1>1, <1>2 DEF Interrupted

-----------------------------------------------------------------------------
(* The server: what it answers for. *)

LEMMA AcceptFeed == ASSUME FeedInv, NEW r \in wire, Accept(r) PROVE FeedInv'
<1> USE DEF FeedInv, queueVars, clientVars, feedVars
<1>0. /\ serving = Free /\ wire' = wire \ {r}
      /\ serving' = [id |-> r.id, ticks |-> r.ticks, bars |-> 0]
      /\ UNCHANGED <<queueVars, clientVars, answer, feedVars, faults>>
  BY DEF Accept
<1>1. r.id \in Nat \ {0} /\ r.ticks \in Seq(Tick)
      /\ serving'.id = r.id /\ serving'.ticks = r.ticks
  BY <1>0 DEF TypeOK, Request
<1>2. TypeOK'
  <2>1. serving' \in [id : Nat, ticks : Seq(Tick), bars : Nat]
    BY <1>0, <1>1
  <2> QED BY <1>0, <2>1 DEF TypeOK
<1>3. WireShape'
  BY <1>0, <1>1 DEF FeedShape, WireShape
<1>4. Awaited'
  <2> SUFFICES ASSUME Waiting, r.id = worker.id, NEW i \in 1 .. Len(Asked(worker))
               PROVE  \E j \in 1 .. Len(r.ticks) : r.ticks[j] = Asked(worker)[i]
    BY <1>0, <1>1 DEF FeedShape, Awaited, Waiting, Asked
  <2> QED BY DEF FeedShape, Awaited
<1>5. Blamed'
  <2>1. ASSUME NEW q \in wire \union {serving}, q.id = worker.id, Waiting
        PROVE  \E x \in wire' \union {serving'} : x.id = worker.id
    <3>1. worker.id > 0
      BY <2>1 DEF FeedShape, WorkerShape, Waiting
    <3>2. q \in wire
      BY <1>0, <2>1, <3>1 DEF Free
    <3> QED BY <1>0, <1>1, <2>1, <3>2
  <2> QED BY <1>0, <2>1 DEF FeedShape, Blamed, Waiting
<1> QED BY <1>0, <1>2, <1>3, <1>4, <1>5 DEF FeedShape, Accounted, Held

\* What the worker asks for is in its hand.
LEMMA AskedInHand ==
    ASSUME FeedInv, Waiting, NEW i \in 1 .. Len(Asked(worker))
    PROVE  Asked(worker)[i] \in Hand(worker)
<1>1. /\ worker.done < Len(worker.payload) /\ worker.done \in Nat
      /\ (worker.at = "batch" => worker.done = 0)
      /\ worker.payload \in Seq(Tick)
  BY DEF FeedInv, FeedShape, WorkerShape, Waiting, TypeOK, WorkerRecord
<1>2. CASE worker.at = "batch"
  BY <1>1, <1>2 DEF Asked, Hand
<1>3. CASE worker.at # "batch"
  <2>1. Asked(worker)[i] = worker.payload[worker.done + 1]
    BY <1>3 DEF Asked
  <2>2. worker.done + 1 \in worker.done + 1 .. Len(worker.payload)
    BY <1>1
  <2> QED BY <2>1, <2>2 DEF Hand
<1> QED BY <1>2, <1>3

\* A tick handled: what was in hand before it is with a server, and so is the
\* tick itself unless its request fails.
LEMMA HandledFeed ==
    ASSUME FeedInv, serving.ticks # <<>>, NEW t, t = Head(serving.ticks),
           UNCHANGED <<queueVars, clientVars, wire>>,
           feed' \in [last : Nat, buffer : Seq(Nat)],
           taken \subseteq taken', taken' \subseteq taken \union {t.tick},
           feed'.last = feed.last \/ (feed'.last = t.seq /\ t.tick \in taken'),
           \/ Raise
           \/ /\ t.seq <= feed.last \/ t.tick \in taken'
              /\ \E bars \in Nat : GoOn(bars)
    PROVE  FeedInv'
<1> USE DEF FeedInv, queueVars, clientVars
<1> DEFINE ticks == serving.ticks
           hand == Hand(worker)
           answers == Waiting /\ serving.id = worker.id
           rest == Tail(ticks)
<1>1. /\ serving \in [id : Nat, ticks : Seq(Tick), bars : Nat]
      /\ ticks \in Seq(Tick) /\ serving.id \in Nat /\ serving.bars \in Nat
      /\ faults \in Nat /\ nextSeq \in Nat /\ arrived \in Nat
      /\ feed.last \in Nat /\ hand \subseteq Tick
  BY HandType DEF TypeOK
<1>2. /\ Len(ticks) \in Nat \ {0} /\ t = ticks[1] /\ t \in Tick
      /\ rest \in Seq(Tick) /\ Len(rest) = Len(ticks) - 1
      /\ \A i \in 1 .. Len(ticks) - 1 : rest[i] = ticks[i + 1]
  BY <1>1, HeadTailProperties, LenProperties, EmptySeq
<1> HIDE DEF rest
<1>3. Covered(ticks, hand, nextSeq, arrived, taken)
  BY DEF FeedShape, WireShape
<1>4. /\ t.seq < nextSeq /\ t.tick \in 1 .. arrived
      /\ \A h \in hand : /\ h.seq = t.seq => h = t
                         /\ h.seq < t.seq => h.tick \in taken
  BY <1>2, <1>3 DEF Covered
<1>5. ~Raise => (t \in hand => t.tick \in taken')
  BY DEF FeedShape, Passed
<1>6. Passed(hand, feed'.last, taken')
  <2> SUFFICES ASSUME NEW h \in hand, h.seq <= feed'.last
               PROVE  h.tick \in taken'
    BY DEF Passed
  <2>1. CASE feed'.last = feed.last
    BY <2>1 DEF FeedShape, Passed
  <2>2. CASE feed'.last = t.seq /\ t.tick \in taken'
    <3>1. h.seq \in Nat /\ t.seq \in Nat
      BY <1>1, <1>2 DEF Tick
    <3> QED BY <1>4, <2>2, <3>1
  <2> QED BY <2>1, <2>2
<1>7. ASSUME ~Raise
      PROVE  Covered(rest, hand, nextSeq, arrived, taken')
  <2> SUFFICES ASSUME NEW i \in 1 .. Len(ticks) - 1
               PROVE  /\ rest[i].seq < nextSeq
                      /\ rest[i].tick \in 1 .. arrived
                      /\ \A h \in hand :
                             /\ h.seq = rest[i].seq => h = rest[i]
                             /\ h.seq < rest[i].seq =>
                                    \/ h.tick \in taken'
                                    \/ \E j \in 1 .. i - 1 : h = rest[j]
    <3> HIDE DEF hand
    <3> QED BY <1>2 DEF Covered
  <2>1. i + 1 \in 1 .. Len(ticks)
    BY <1>2
  <2>2. /\ ticks[i + 1].seq < nextSeq /\ ticks[i + 1].tick \in 1 .. arrived
        /\ \A h \in hand :
               /\ h.seq = ticks[i + 1].seq => h = ticks[i + 1]
               /\ h.seq < ticks[i + 1].seq =>
                      h.tick \in taken \/ \E j \in 1 .. i : h = ticks[j]
    <3>1. (i + 1) - 1 = i
      OBVIOUS
    <3> QED BY <1>3, <2>1, <3>1 DEF Covered
  <2>3. ASSUME NEW h \in hand, NEW j \in 1 .. i, h = ticks[j]
        PROVE  h.tick \in taken' \/ \E k \in 1 .. i - 1 : h = rest[k]
    <3>1. CASE j = 1
      BY <1>2, <1>5, <1>7, <2>3, <3>1
    <3>2. CASE j # 1
      <4>1. j - 1 \in 1 .. i - 1 /\ j - 1 \in 1 .. Len(ticks) - 1
            /\ (j - 1) + 1 = j
        BY <1>2, <3>2
      <4> QED BY <1>2, <2>3, <4>1
    <3> QED BY <3>1, <3>2
  <2>4. rest[i] = ticks[i + 1]
    BY <1>2
  <2> QED BY <2>2, <2>3, <2>4
<1>8. ASSUME ~Raise, answers, NEW i \in 1 .. Len(Asked(worker))
      PROVE  \/ Asked(worker)[i].tick \in taken'
             \/ \E j \in 1 .. Len(ticks) - 1 : rest[j] = Asked(worker)[i]
  <2>1. CASE Asked(worker)[i].tick \in taken
    BY <2>1
  <2>2. ASSUME NEW j \in 1 .. Len(ticks), ticks[j] = Asked(worker)[i]
        PROVE  \/ Asked(worker)[i].tick \in taken'
               \/ \E k \in 1 .. Len(ticks) - 1 : rest[k] = Asked(worker)[i]
    <3>1. CASE j = 1
      BY <1>2, <1>5, <1>8, <2>2, <3>1, AskedInHand
    <3>2. CASE j # 1
      <4>1. j - 1 \in 1 .. Len(ticks) - 1 /\ (j - 1) + 1 = j
        BY <1>2, <3>2
      <4> QED BY <1>2, <2>2, <4>1
    <3> QED BY <3>1, <3>2
  <2> QED BY <1>8, <2>1, <2>2 DEF FeedShape, Awaited
<1>9. \/ /\ faults' = faults + 1 /\ serving' = Free
         /\ answer' = IF answers THEN [kind |-> "failed", bars |-> 0] ELSE answer
      \/ /\ ~Raise /\ faults' = faults /\ Len(ticks) > 1 /\ answer' = answer
         /\ \E bars \in Nat :
                serving' = [serving EXCEPT !.ticks = Tail(@), !.bars = @ + bars]
      \/ /\ ~Raise /\ faults' = faults /\ Len(ticks) = 1 /\ serving' = Free
         /\ \E bars \in Nat :
                answer' = IF answers THEN [kind |-> "ok", bars |-> bars]
                          ELSE answer
  <2>1. CASE Raise
    BY <2>1 DEF Raise, Respond
  <2>2. CASE ~Raise
    <3>1. PICK bars \in Nat : GoOn(bars)
      BY <2>2
    <3>2. serving.bars + bars \in Nat
      BY <1>1
    <3>3. CASE Len(ticks) > 1
      BY <2>2, <3>1, <3>3 DEF GoOn
    <3>4. CASE Len(ticks) = 1
      <4>1. serving' = Free /\ faults' = faults
            /\ answer' = IF answers
                         THEN [kind |-> "ok", bars |-> serving.bars + bars]
                         ELSE answer
        BY <3>1, <3>4 DEF GoOn, Respond
      <4> QED BY <2>2, <3>2, <3>4, <4>1
    <3>5. Len(ticks) > 1 \/ Len(ticks) = 1
      <4>1. \A n \in Nat \ {0} : n > 1 \/ n = 1
        OBVIOUS
      <4> QED BY <1>2, <4>1
    <3> QED BY <3>3, <3>4, <3>5
  <2> QED BY <2>1, <2>2
<1> HIDE DEF hand, answers
<1>10. WorkerShape(worker, nextSeq, arrived)' /\ Accounted'
  BY <1>4 DEF FeedShape, Accounted, Held
<1>11. feed'.last < nextSeq
  BY <1>4 DEF FeedShape, WireShape
<1>12. \A r \in wire : Covered(r.ticks, hand, nextSeq, arrived, taken')
  <2> TAKE r \in wire
  <2>1. r.ticks \in Seq(Tick)
    BY DEF TypeOK, Request
  <2>2. Covered(r.ticks, hand, nextSeq, arrived, taken)
    BY DEF FeedShape, WireShape, hand
  <2> QED BY <1>1, <2>1, <2>2, CoveredKept
<1>13. ASSUME Covered(serving'.ticks, hand, nextSeq, arrived, taken'),
              serving'.id <= worker.id,
              serving' # Free => serving'.ticks # <<>> /\ serving'.id > 0
       PROVE  WireShape'
  BY <1>11, <1>12, <1>13 DEF WireShape, FeedShape, hand
<1>14. worker.id \in Nat /\ (Waiting => worker.id > 0)
       /\ serving.id <= worker.id /\ serving # Free
  BY DEF FeedShape, WireShape, WorkerShape, Waiting, Free, TypeOK, WorkerRecord
<1>15. Free.id = 0 /\ Free.ticks = <<>>
       /\ Free \in [id : Nat, ticks : Seq(Tick), bars : Nat]
  BY DEF Free
<1>16. Covered(<<>>, hand, nextSeq, arrived, taken')
  BY DEF Covered
<1>17. \A i \in 1 .. Len(Asked(worker)) : Asked(worker)[i].tick \in taken =>
           Asked(worker)[i].tick \in taken'
  OBVIOUS
\* The request ended, with a response that may be the one awaited.
<1>18. ASSUME serving' = Free, faults' \in {faults, faults + 1},
              NEW kind \in {"ok", "failed"}, NEW bars \in Nat,
              answer' = IF answers THEN [kind |-> kind, bars |-> bars]
                        ELSE answer,
              kind = "failed" => faults' > 0,
              kind = "ok" /\ answers => \A i \in 1 .. Len(Asked(worker)) :
                                      Asked(worker)[i].tick \in taken'
       PROVE  FeedInv'
  <2>1. TypeOK'
    <3>1. answer' \in [kind : {"none", "ok", "failed"}, bars : Nat]
      BY <1>18 DEF TypeOK
    <3>2. serving' \in [id : Nat, ticks : Seq(Tick), bars : Nat]
      BY <1>15, <1>18
    <3>3. faults' \in Nat
      BY <1>1, <1>18
    <3> QED BY <3>1, <3>2, <3>3 DEF TypeOK
  <2>2. WireShape'
    BY <1>13, <1>14, <1>15, <1>16, <1>18
  <2>3. Awaited'
    <3>1. Waiting => serving'.id # worker.id
      BY <1>14, <1>15, <1>18
    <3>2. ASSUME Waiting, answer'.kind = "ok", NEW i \in 1 .. Len(Asked(worker))
          PROVE  Asked(worker)[i].tick \in taken'
      <4>1. CASE answers
        BY <1>18, <3>2, <4>1
      <4>2. CASE ~answers
        BY <1>17, <1>18, <3>2, <4>2 DEF FeedShape, Awaited
      <4> QED BY <4>1, <4>2
    <3> QED BY <3>1, <3>2 DEF FeedShape, Awaited, Waiting
  <2>4. Blamed'
    <3>1. faults > 0 => faults' > 0
      BY <1>1, <1>18
    <3>2. CASE answers
      BY <1>18, <3>1, <3>2 DEF FeedShape, Blamed
    <3>3. CASE ~answers
      BY <1>18, <3>1, <3>3 DEF FeedShape, Blamed, Waiting, answers
    <3> QED BY <3>2, <3>3
  <2> QED BY <1>6, <1>10, <2>1, <2>2, <2>3, <2>4 DEF FeedShape, hand
\* The request goes on.
<1>19. ASSUME ~Raise, faults' = faults, Len(ticks) > 1, answer' = answer,
              NEW bars \in Nat,
              serving' = [serving EXCEPT !.ticks = Tail(@), !.bars = @ + bars]
       PROVE  FeedInv'
  <2>1. /\ serving' \in [id : Nat, ticks : Seq(Tick), bars : Nat]
        /\ serving'.id = serving.id /\ serving'.ticks = rest
    <3>1. serving.bars + bars \in Nat
      BY <1>1
    <3> QED BY <1>1, <1>2, <1>19, <3>1 DEF rest
  <2>2. TypeOK'
    BY <1>19, <2>1 DEF TypeOK
  <2>3. WireShape'
    <3>1. rest # <<>>
      BY <1>2, <1>19, EmptySeq
    <3>2. serving.id > 0
      BY <1>14 DEF FeedShape, WireShape
    <3> QED BY <1>7, <1>13, <1>14, <1>19, <2>1, <3>1, <3>2
  <2>4. Awaited'
    BY <1>2, <1>8, <1>17, <1>19, <2>1, SMTT(20)
       DEF FeedShape, Awaited, Waiting, answers
  <2>5. Blamed'
    BY <1>19, <2>1 DEF FeedShape, Blamed, Waiting
  <2> QED BY <1>6, <1>10, <2>2, <2>3, <2>4, <2>5 DEF FeedShape, hand
<1>20. CASE /\ faults' = faults + 1 /\ serving' = Free
            /\ answer' = IF answers THEN [kind |-> "failed", bars |-> 0]
                         ELSE answer
  <2>1. faults' > 0
    BY <1>1, <1>20
  <2> QED BY <1>18, <1>20, <2>1
<1>21. CASE /\ ~Raise /\ faults' = faults /\ Len(ticks) = 1 /\ serving' = Free
            /\ \E bars \in Nat :
                   answer' = IF answers THEN [kind |-> "ok", bars |-> bars]
                             ELSE answer
  <2>1. answers => \A i \in 1 .. Len(Asked(worker)) :
                       Asked(worker)[i].tick \in taken'
    BY <1>8, <1>21
  <2>2. PICK bars \in Nat : answer' = IF answers THEN [kind |-> "ok", bars |-> bars]
                                      ELSE answer
    BY <1>21
  <2> QED BY <1>18, <1>21, <2>1, <2>2
<1> QED BY <1>9, <1>19, <1>20, <1>21

LEMMA IngestFeed == ASSUME FeedInv, Ingest PROVE FeedInv'
<1> DEFINE t == Head(serving.ticks)
<1>1. /\ serving.ticks # <<>> /\ UNCHANGED <<queueVars, clientVars, wire>>
      /\ Reject(t) \/ RecordRaises(t) \/ Buffer(t) \/ Store(t) \/ StoreRaises(t)
  BY DEF Ingest
<1>2. t \in Tick /\ feed \in [last : Nat, buffer : Seq(Nat)]
      /\ t.seq \in Nat /\ feed.last \in Nat
  <2>1. serving.ticks \in Seq(Tick)
    BY DEF FeedInv, TypeOK
  <2>2. t \in Tick
    BY <1>1, <2>1
  <2> QED BY <2>2 DEF FeedInv, TypeOK, Tick
<1> HIDE DEF t
<1>3. Append(feed.buffer, t.seq) \in Seq(Nat) /\ <<>> \in Seq(Nat)
  BY <1>2
<1>4. CASE Reject(t)
  <2>1. /\ UNCHANGED <<feed, taken>> /\ t.seq <= feed.last /\ GoOn(0)
    BY <1>2, <1>4 DEF Reject, Fresh, feedVars
  <2> QED BY <1>1, <1>2, <2>1, HandledFeed DEF t
<1>5. CASE RecordRaises(t)
  <2>1. UNCHANGED <<feed, taken>> /\ Raise
    BY <1>5 DEF RecordRaises, feedVars
  <2> QED BY <1>1, <1>2, <2>1, HandledFeed DEF t
<1>6. CASE Buffer(t)
  <2>1. /\ taken' = taken \union {t.tick} /\ GoOn(0)
        /\ feed' = [last |-> t.seq, buffer |-> Append(feed.buffer, t.seq)]
    BY <1>6 DEF Buffer, Aggregated
  <2>2. feed' \in [last : Nat, buffer : Seq(Nat)] /\ feed'.last = t.seq
    BY <1>2, <1>3, <2>1
  <2>3. t.tick \in taken' /\ taken \subseteq taken'
    BY <2>1
  <2> QED BY <1>1, <2>1, <2>2, <2>3, HandledFeed DEF t
<1>7. CASE Store(t)
  <2>1. /\ taken' = taken \union {t.tick} /\ GoOn(1)
        /\ feed' = [last |-> t.seq, buffer |-> <<>>]
    BY <1>7 DEF Store, Aggregated
  <2>2. feed' \in [last : Nat, buffer : Seq(Nat)] /\ feed'.last = t.seq
    BY <1>2, <1>3, <2>1
  <2>3. t.tick \in taken' /\ taken \subseteq taken'
    BY <2>1
  <2> QED BY <1>1, <2>1, <2>2, <2>3, HandledFeed DEF t
<1>8. CASE StoreRaises(t)
  <2>1. /\ taken' = taken \union {t.tick} /\ Raise
        /\ feed' = [feed EXCEPT !.buffer = <<>>]
    BY <1>8 DEF StoreRaises, Aggregated
  <2>2. feed' \in [last : Nat, buffer : Seq(Nat)] /\ feed'.last = feed.last
    BY <1>2, <1>3, <2>1
  <2>3. taken \subseteq taken'
    BY <2>1
  <2> QED BY <1>1, <2>1, <2>2, <2>3, HandledFeed DEF t
<1> QED BY <1>1, <1>4, <1>5, <1>6, <1>7, <1>8

LEMMA RestartFeed == ASSUME FeedInv, Restart PROVE FeedInv'
<1> USE DEF FeedInv, queueVars, clientVars
<1>0. /\ faults' = faults + 1 /\ feed' = NewFeed /\ wire' = {} /\ serving' = Free
      /\ UNCHANGED <<queueVars, clientVars, answer, taken>>
  BY DEF Restart
<1>1. faults \in Nat /\ faults' > 0 /\ worker.id \in Nat /\ nextSeq \in Nat \ {0}
      /\ worker \in WorkerRecord
  BY <1>0 DEF TypeOK, WorkerRecord
<1>2. TypeOK'
  <2>1. serving' \in [id : Nat, ticks : Seq(Tick), bars : Nat]
        /\ feed' \in [last : Nat, buffer : Seq(Nat)]
    BY <1>0 DEF Free, NewFeed
  <2> QED BY <1>0, <1>1, <2>1 DEF TypeOK
<1>3. WireShape'
  BY <1>0, <1>1 DEF WireShape, Covered, Free, NewFeed
<1>4. Passed(Hand(worker'), feed'.last, taken')
  BY <1>0, <1>1, HandType DEF Passed, Tick, NewFeed
<1>5. Awaited'
  <2>1. Waiting => worker.id > 0
    BY DEF FeedShape, WorkerShape, Waiting
  <2> QED BY <1>0, <2>1 DEF FeedShape, Awaited, Waiting, Free
<1>6. WorkerShape(worker, nextSeq, arrived)' /\ Accounted' /\ Blamed'
  BY <1>0, <1>1 DEF FeedShape, Accounted, Held, Blamed, Waiting
<1> QED BY <1>2, <1>3, <1>4, <1>5, <1>6 DEF FeedShape

LEMMA FeedInvInductive == FeedInv /\ [Next]_vars => FeedInv'
<1> SUFFICES ASSUME FeedInv, [Next]_vars PROVE FeedInv'
  OBVIOUS
<1>1. CASE UNCHANGED vars
  BY <1>1 DEF vars, queueVars, clientVars, serverVars, feedVars, FeedInv, TypeOK,
     FeedShape, WireShape, Awaited, Waiting, Accounted, Held, Blamed
<1>2. CASE Strategy
  BY <1>2, EnqueueFeed, WaitFeed DEF Strategy
<1>3. CASE Worker
  BY <1>3, TakeFeed, NumberTickFeed, BatchedFeed, BatchAnsweredFeed,
     SingleAnsweredFeed, CallFailsFeed, TimesOutFeed, PredictedFeed,
     PredictThrowsFeed, InterruptedFeed, FinalFlushFeed DEF Worker
<1>4. CASE Serve
  BY <1>4, IngestFeed, AcceptFeed DEF Serve
<1>5. CASE Restart
  BY <1>5, RestartFeed
<1> QED BY <1>1, <1>2, <1>3, <1>4, <1>5 DEF Next

\* The ticks of a sequence, by position.
LEMMA TicksOf ==
    ASSUME NEW s \in Seq(Tick)
    PROVE  Ticks(s) = {s[i].tick : i \in 1 .. Len(s)}
BY DEF Ticks

LEMMA FeedInvAccounts == FeedInv => TicksAccounted
<1> SUFFICES ASSUME FeedInv PROVE TicksAccounted
  OBVIOUS
<1> DEFINE d == worker.done
           s == worker.payload
<1>1. /\ s \in Seq(Tick) /\ d \in Nat /\ d <= Len(s)
      /\ worker.pending \in Seq(Tick) /\ Len(s) \in Nat
      /\ (worker.at \in {"take", "number"} => s = <<>>)
      /\ (Waiting \/ worker.at = "predict" => worker.pending = <<>>)
      /\ worker.at \in {"take", "number", "batch", "single", "predict"}
  BY DEF FeedInv, TypeOK, WorkerRecord, FeedShape, WorkerShape, Waiting
<1>2. Ticks(worker.pending) =
          {worker.pending[i].tick : i \in 1 .. Len(worker.pending)}
  BY <1>1, TicksOf
<1>3. Ticks(<<>>) = {}
  BY DEF Ticks
<1>4. CASE Waiting
  <2>1. Payload = SubSeq(s, d + 1, Len(s))
    BY <1>4 DEF Payload
  <2>2. /\ Payload \in Seq(Tick) /\ Len(Payload) = Len(s) - d
        /\ \A i \in 1 .. Len(s) - d : Payload[i] = s[d + i]
    <3>1. \A i \in d + 1 .. Len(s) : s[i] \in Tick
      BY <1>1
    <3> QED BY <1>1, <2>1, <3>1, SMTT(20)
  <2>3. Ticks(Payload) = {Payload[i].tick : i \in 1 .. Len(s) - d}
    BY <2>2, TicksOf
  <2>4. Ticks(Payload) = {s[i].tick : i \in d + 1 .. Len(s)}
    <3>1. \A i \in 1 .. Len(s) - d : d + i \in d + 1 .. Len(s)
      BY <1>1
    <3>2. \A i \in d + 1 .. Len(s) : i - d \in 1 .. Len(s) - d /\ d + (i - d) = i
      BY <1>1
    <3>3. Ticks(Payload) \subseteq {s[i].tick : i \in d + 1 .. Len(s)}
      BY <2>2, <2>3, <3>1
    <3>4. {s[i].tick : i \in d + 1 .. Len(s)} \subseteq Ticks(Payload)
      BY <2>2, <2>3, <3>2
    <3> QED BY <3>3, <3>4
  <2>5. Held = Ticks(Payload) \union Ticks(worker.pending)
    <3>1. Hand(worker) = {s[i] : i \in d + 1 .. Len(s)}
      BY <1>1, <1>4 DEF Hand
    <3> QED BY <1>1, <1>3, <1>4, <2>4, <3>1 DEF Held, Waiting
  <2> QED BY <2>5 DEF FeedInv, FeedShape, Accounted, Blamed, TicksAccounted
<1>5. CASE ~Waiting
  <2>1. Payload = <<>>
    BY <1>5 DEF Payload
  <2>2. Held = Ticks(worker.pending)
    <3>1. CASE worker.at = "predict"
      BY <1>1, <1>3, <3>1 DEF Held
    <3>2. CASE worker.at \in {"take", "number"}
      <4>1. Hand(worker) = {worker.pending[i] : i \in 1 .. Len(worker.pending)}
        BY <1>1, <3>2 DEF Hand
      <4> QED BY <1>2, <3>2, <4>1 DEF Held
    <3> QED BY <1>1, <1>5, <3>1, <3>2 DEF Waiting
  <2> QED BY <1>3, <2>1, <2>2 DEF FeedInv, FeedShape, Accounted, Blamed,
                                  TicksAccounted
<1> QED BY <1>4, <1>5

\* Whatever fails, is late or is retried, a queued tick is in the worker's
\* hands, or a server has aggregated it, or it was in a batch that an exception
\* or the stop broke off.
THEOREM NoTickLost == Spec => []TicksAccounted
<1>1. Spec => []FeedInv
  BY InitFeed, FeedInvInductive, PTL DEF Spec
<1> QED BY <1>1, FeedInvAccounts, PTL

-----------------------------------------------------------------------------
(* Arithmetic of blocks and of the rows between two prunes. *)

LEMMA Division ==
    ASSUME NEW n \in Int, NEW d \in Int, d > 0
    PROVE  n = d * (n \div d) + (n % d) /\ n % d \in 0 .. d - 1
BY SMTT(30)

LEMMA Remainder ==
    ASSUME NEW q \in Int, NEW d \in Nat \ {0}, NEW r \in 0 .. d - 1
    PROVE  (q * d + r) % d = r
BY SMTT(30)

LEMMA RemainderNext ==
    ASSUME NEW n \in Nat, NEW d \in Nat \ {0}
    PROVE  /\ n % d \in 0 .. d - 1
           /\ (n + 1) % d = IF n % d = d - 1 THEN 0 ELSE (n % d) + 1
<1> DEFINE q == n \div d
           r == n % d
<1>1. q \in Int /\ r \in 0 .. d - 1 /\ n = d * q + r
  BY Division
<1> HIDE DEF q, r
<1>2. CASE r = d - 1
  <2>1. n + 1 = (q + 1) * d + 0
    BY <1>1, <1>2
  <2>2. ((q + 1) * d + 0) % d = 0
    BY <1>1, Remainder
  <2> QED BY <1>1, <1>2, <2>1, <2>2 DEF r
<1>3. CASE r # d - 1
  <2>1. n + 1 = q * d + (r + 1)
    BY <1>1, <1>3
  <2>2. (q * d + (r + 1)) % d = r + 1
    BY <1>1, <1>3, Remainder
  <2> QED BY <1>1, <1>3, <2>1, <2>2 DEF r
<1> QED BY <1>2, <1>3

LEMMA Multiples ==
    ASSUME NEW k \in Nat, NEW q \in Nat, NEW d \in Nat \ {0}, k < q
    PROVE  /\ k * d \in Nat /\ (k + 1) * d \in Nat /\ q * d \in Nat
           /\ (k + 1) * d = k * d + d /\ (k + 1) * d <= q * d
BY SMTT(30)

\* A sequence keeps its parts as it grows, and the part up to its end grows
\* with it.
LEMMA SubSeqAppend ==
    ASSUME NEW s \in Seq(Nat), NEW e \in Nat, NEW m \in Nat \ {0}
    PROVE  /\ \A n \in Nat : n <= Len(s) =>
                  SubSeq(Append(s, e), m, n) = SubSeq(s, m, n)
           /\ m <= Len(s) + 1 =>
                  SubSeq(Append(s, e), m, Len(s) + 1) =
                      Append(SubSeq(s, m, Len(s)), e)
<1> DEFINE u == Append(s, e)
<1>1. /\ u \in Seq(Nat) /\ Len(u) = Len(s) + 1 /\ Len(s) \in Nat
      /\ u[Len(s) + 1] = e /\ \A i \in 1 .. Len(s) : u[i] = s[i]
  BY AppendProperties
<1> HIDE DEF u
<1>2. ASSUME NEW n \in Nat, n <= Len(s) PROVE SubSeq(u, m, n) = SubSeq(s, m, n)
  <2>1. CASE m <= n
    <3>1. m \in 1 .. Len(s) /\ n \in 1 .. Len(s)
      BY <1>1, <1>2, <2>1
    <3>2. u = s \o <<e>> /\ <<e>> \in Seq(Nat)
      BY AppendIsConcat DEF u
    <3> QED BY <3>1, <3>2, SubSeqOfConcat1
  <2>2. CASE ~ m <= n
    BY <1>1, <2>2, SubSeqEmpty
  <2> QED BY <2>1, <2>2
<1>3. ASSUME m <= Len(s) + 1
      PROVE  SubSeq(u, m, Len(s) + 1) = Append(SubSeq(s, m, Len(s)), e)
  <2> DEFINE a == SubSeq(u, m, Len(s) + 1)
             b == SubSeq(s, m, Len(s))
  <2>1. \A i \in m .. Len(s) + 1 : u[i] \in Nat
    BY <1>1
  <2>2. /\ a \in Seq(Nat) /\ Len(a) = Len(s) + 2 - m
        /\ \A i \in 1 .. Len(s) + 2 - m : a[i] = u[m + i - 1]
    BY <1>1, <1>3, <2>1
  <2>3. /\ b \in Seq(Nat) /\ Len(b) = Len(s) + 1 - m
        /\ \A i \in 1 .. Len(s) + 1 - m : b[i] = s[m + i - 1]
    BY <1>1, <1>3
  <2> HIDE DEF a, b
  <2>4. /\ Append(b, e) \in Seq(Nat) /\ Len(Append(b, e)) = Len(b) + 1
        /\ \A i \in 1 .. Len(b) : Append(b, e)[i] = b[i]
        /\ Append(b, e)[Len(b) + 1] = e
    <3>1. b \in Seq(Nat)
      BY <2>3
    <3> QED BY <3>1, AppendProperties
  <2>5. ASSUME NEW i \in 1 .. Len(a) PROVE a[i] = Append(b, e)[i]
    <3>1. CASE i = Len(b) + 1
      <4>1. m + i - 1 = Len(s) + 1
        BY <1>1, <2>3, <3>1
      <4> QED BY <1>1, <2>2, <2>4, <3>1, <4>1
    <3>2. CASE i # Len(b) + 1
      <4>1. i \in 1 .. Len(s) + 2 - m /\ i # Len(s) + 2 - m
        BY <1>1, <2>2, <2>3, <3>2
      <4>2. i \in 1 .. Len(s) + 1 - m /\ m + i - 1 \in 1 .. Len(s)
        BY <1>1, <1>3, <4>1
      <4> QED BY <1>1, <2>2, <2>3, <2>4, <4>1, <4>2
    <3> QED BY <3>1, <3>2
  <2>6. Len(a) = Len(Append(b, e))
    BY <1>1, <1>3, <2>2, <2>3, <2>4
  <2>7. a = Append(b, e)
    BY <2>2, <2>4, <2>5, <2>6, SeqEqual
  <2> QED BY <2>7 DEF a, b
<1> QED BY <1>2, <1>3 DEF u

-----------------------------------------------------------------------------
(* The bars. *)

LEMMA InitBars == Init => BarShape
<1> SUFFICES ASSUME Init PROVE BarShape
  OBVIOUS
<1>1. seen = <<>> /\ broken = {} /\ rows = <<>> /\ feed.buffer = <<>>
      /\ DOMAIN rows = {} /\ Len(<<>>) = 0 /\ <<>> \in Seq(Nat)
  BY DEF Init, NewFeed
<1>2. BarSize \in Nat \ {0}
  BY FeedConstants
<1>3. Blocks(0)
  <2>1. SubSeq(<<>>, 1, 0) = <<>>
    BY SubSeqEmpty
  <2>2. 0 * BarSize = 0
    BY <1>2
  <2> QED BY <1>1, <2>1, <2>2 DEF Blocks
<1> QED BY <1>1, <1>2, <1>3 DEF BarShape

\* A tick aggregated: what holds of seen whatever becomes of its bar.
LEMMA AggregatedSeen ==
    ASSUME BarShape, NEW t \in Tick, Aggregated(t), feed.last \in Nat,
           \/ feed'.last = t.seq /\ broken' = broken
           \/ feed'.last = feed.last /\ broken' = broken \union {Len(seen) + 1}
    PROVE  /\ seen' \in Seq(Nat) /\ Len(seen') = Len(seen) + 1
           /\ broken' \subseteq 1 .. Len(seen')
           /\ \A i \in 1 .. Len(seen') : seen'[i] <= feed'.last \/ i \in broken'
           /\ \A i, j \in 1 .. Len(seen') :
                  i < j => seen'[i] < seen'[j] \/ i \in broken'
<1>1. seen \in Seq(Nat) /\ t.seq \in Nat /\ Len(seen) \in Nat
      /\ seen' = Append(seen, t.seq) /\ t.seq > feed.last
  BY DEF BarShape, Tick, Aggregated, Fresh
<1>2. /\ seen' \in Seq(Nat) /\ Len(seen') = Len(seen) + 1
      /\ seen'[Len(seen) + 1] = t.seq
      /\ \A i \in 1 .. Len(seen) : seen'[i] = seen[i] /\ seen[i] \in Nat
  BY <1>1, AppendProperties
<1>3. \A i \in 1 .. Len(seen') : i \in 1 .. Len(seen) \/ i = Len(seen) + 1
  BY <1>1, <1>2
<1>4. \A i \in 1 .. Len(seen) :
          i \in broken' \/ seen[i] <= feed.last
  BY DEF BarShape
<1>5. ASSUME NEW i \in 1 .. Len(seen')
      PROVE  seen'[i] <= feed'.last \/ i \in broken'
  <2>1. CASE i \in 1 .. Len(seen)
    BY <1>1, <1>2, <1>4, <2>1
  <2>2. CASE i = Len(seen) + 1
    BY <1>1, <1>2, <2>2
  <2> QED BY <1>3, <2>1, <2>2
<1>6. ASSUME NEW i \in 1 .. Len(seen'), NEW j \in 1 .. Len(seen'), i < j
      PROVE  seen'[i] < seen'[j] \/ i \in broken'
  <2>1. i \in 1 .. Len(seen)
    BY <1>1, <1>2, <1>6
  <2>2. CASE j \in 1 .. Len(seen)
    BY <1>2, <1>6, <2>1, <2>2 DEF BarShape
  <2>3. CASE j = Len(seen) + 1
    BY <1>1, <1>2, <1>4, <2>1, <2>3
  <2> QED BY <1>3, <2>2, <2>3
<1>7. broken' \subseteq 1 .. Len(seen')
  <2>1. broken \subseteq 1 .. Len(seen)
    BY DEF BarShape
  <2>2. 1 .. Len(seen) \subseteq 1 .. Len(seen') /\ Len(seen) + 1 \in 1 .. Len(seen')
    BY <1>1, <1>2
  <2> QED BY <2>1, <2>2
<1> QED BY <1>2, <1>5, <1>6, <1>7

\* The blocks after a tick t has been aggregated; stored: its bar has a row.
LEMMA BlocksNext ==
    ASSUME BarShape, NEW t \in Tick, Aggregated(t), NEW q \in Nat, Blocks(q),
           DOMAIN rows' \subseteq DOMAIN rows \union {counter}, born' = born,
           counter \notin DOMAIN rows,
           \A i \in DOMAIN rows' :
               rows'[i] = IF i = counter THEN Append(feed.buffer, t.seq)
                          ELSE rows[i]
    PROVE  /\ ~Full(Append(feed.buffer, t.seq)) /\ rows' = rows
              /\ feed'.buffer = Append(feed.buffer, t.seq) =>
                  Blocks(q)' /\ Len(feed'.buffer) < BarSize
           /\ Full(Append(feed.buffer, t.seq)) /\ feed'.buffer = <<>> =>
                  /\ Blocks(q + 1)' /\ Len(feed'.buffer) < BarSize
                  /\ Len(seen') = (q + 1) * BarSize
<1> DEFINE buffer == Append(feed.buffer, t.seq)
           c == q * BarSize
<1>1. /\ seen \in Seq(Nat) /\ t.seq \in Nat /\ Len(seen) \in Nat
      /\ seen' = Append(seen, t.seq) /\ BarSize \in Nat \ {0}
      /\ Len(seen') = Len(seen) + 1
  BY FeedConstants, AppendProperties DEF BarShape, Tick, Aggregated
<1>2. /\ Len(seen) = c + Len(feed.buffer)
      /\ feed.buffer = SubSeq(seen, c + 1, Len(seen))
      /\ \A i \in DOMAIN rows : i >= born =>
             \E k \in 0 .. q - 1 :
                 rows[i] = SubSeq(seen, k * BarSize + 1, (k + 1) * BarSize)
  BY DEF Blocks
<1>3. c \in Nat /\ (q + 1) * BarSize = c + BarSize
  BY <1>1
<1> HIDE DEF c
<1>4. feed.buffer \in Seq(Nat) /\ Len(feed.buffer) \in Nat
      /\ Len(feed.buffer) < BarSize /\ c + 1 <= Len(seen) + 1
  <2>1. \A i \in c + 1 .. Len(seen) : seen[i] \in Nat
    <3>1. \A i \in c + 1 .. Len(seen) : i \in 1 .. Len(seen)
      BY <1>1, <1>3
    <3> QED BY <1>1, <3>1
  <2>2. feed.buffer \in Seq(Nat)
    BY <1>1, <1>2, <1>3, <2>1
  <2>3. Len(feed.buffer) \in Nat
    BY <2>2
  <2> QED BY <1>1, <1>2, <1>3, <2>2, <2>3 DEF BarShape
<1>5. buffer \in Seq(Nat) /\ Len(buffer) = Len(feed.buffer) + 1
  BY <1>1, <1>4, AppendProperties
<1>4a. Len(seen') = c + Len(buffer) /\ Len(buffer) \in 1 .. BarSize
  <2>1. Len(seen') = Len(seen) + 1 /\ Len(seen) = c + Len(feed.buffer)
    BY <1>1, <1>2
  <2> QED BY <1>1, <1>3, <1>4, <1>5, <2>1
<1>6. SubSeq(seen', c + 1, Len(seen')) = buffer
  <2>1. c + 1 \in Nat \ {0}
    BY <1>3
  <2>2. SubSeq(Append(seen, t.seq), c + 1, Len(seen) + 1) =
            Append(SubSeq(seen, c + 1, Len(seen)), t.seq)
    BY <1>1, <1>4, <2>1, SubSeqAppend
  <2> QED BY <1>1, <1>2, <2>2
<1> HIDE DEF buffer
<1>7. ASSUME NEW k \in 0 .. q - 1
      PROVE  SubSeq(seen', k * BarSize + 1, (k + 1) * BarSize) =
                 SubSeq(seen, k * BarSize + 1, (k + 1) * BarSize)
  <2>1. k \in Nat /\ k < q
    BY <1>7
  <2>2. k * BarSize \in Nat /\ (k + 1) * BarSize \in Nat
        /\ (k + 1) * BarSize <= c
    BY <1>1, <2>1, Multiples DEF c
  <2> DEFINE x == k * BarSize
             y == (k + 1) * BarSize
  <2> HIDE DEF x, y
  <2>3. x \in Nat /\ y \in Nat /\ y <= c
    BY <2>2 DEF x, y
  <2>4. x + 1 \in Nat \ {0} /\ y <= Len(seen)
    BY <1>1, <1>2, <1>3, <1>4, <2>3
  <2>5. SubSeq(seen', x + 1, y) = SubSeq(seen, x + 1, y)
    BY <1>1, <2>3, <2>4, SubSeqAppend
  <2> QED BY <2>5 DEF x, y
<1>8. ASSUME ~Full(buffer), rows' = rows, feed'.buffer = buffer
      PROVE  Blocks(q)' /\ Len(feed'.buffer) < BarSize
  <2>1. Len(buffer) < BarSize
    BY <1>1, <1>5, <1>8 DEF Full
  <2>2. Len(seen') = c + Len(feed'.buffer)
    BY <1>4a, <1>8
  <2>3. feed'.buffer = SubSeq(seen', c + 1, Len(seen'))
    BY <1>6, <1>8
  <2> QED BY <1>2, <1>7, <1>8, <2>1, <2>2, <2>3 DEF Blocks, c
<1>9. ASSUME Full(buffer), feed'.buffer = <<>>
      PROVE  /\ Blocks(q + 1)' /\ Len(feed'.buffer) < BarSize
             /\ Len(seen') = (q + 1) * BarSize
  <2>0. Len(buffer) = BarSize /\ Len(seen') = c + BarSize
    BY <1>1, <1>4a, <1>9 DEF Full
  <2>1. Len(buffer) = BarSize /\ Len(seen') = (q + 1) * BarSize
    BY <1>3, <2>0
  <2>2. Len(seen') = (q + 1) * BarSize + Len(feed'.buffer)
        /\ Len(feed'.buffer) < BarSize
    <3>1. Len(<<>>) = 0 /\ (q + 1) * BarSize \in Nat
      BY <1>1, <1>3
    <3> QED BY <1>1, <1>9, <2>1, <3>1
  <2>3. feed'.buffer = SubSeq(seen', (q + 1) * BarSize + 1, Len(seen'))
    <3>1. (q + 1) * BarSize + 1 \in Int /\ Len(seen') \in Int
          /\ Len(seen') < (q + 1) * BarSize + 1
      BY <1>1, <1>3, <2>1
    <3> QED BY <1>9, <3>1, SubSeqEmpty
  <2>4. ASSUME NEW i \in DOMAIN rows', i >= born
        PROVE  \E k \in 0 .. q :
                   rows'[i] = SubSeq(seen', k * BarSize + 1, (k + 1) * BarSize)
    <3>1. CASE i = counter
      <4>1. rows'[i] = buffer
        BY <3>1 DEF buffer
      <4>2. buffer = SubSeq(seen', q * BarSize + 1, (q + 1) * BarSize)
        BY <1>6, <2>1 DEF c
      <4>3. q \in 0 .. q
        OBVIOUS
      <4> QED BY <4>1, <4>2, <4>3
    <3>2. CASE i # counter
      <4>1. i \in DOMAIN rows /\ rows'[i] = rows[i]
        BY <3>2
      <4>2. PICK k \in 0 .. q - 1 :
                rows[i] = SubSeq(seen, k * BarSize + 1, (k + 1) * BarSize)
        BY <1>2, <2>4, <4>1
      <4>3. k \in 0 .. q
        OBVIOUS
      <4> QED BY <1>7, <4>1, <4>2, <4>3
    <3> QED BY <3>1, <3>2
  <2>5. (q + 1) - 1 = q
    OBVIOUS
  <2> QED BY <2>1, <2>2, <2>3, <2>4, <2>5 DEF Blocks
<1> QED BY <1>8, <1>9 DEF buffer

\* The steps that change the feed or its table.
LEMMA FeedSteps ==
    ASSUME TypeOK, [Next]_vars
    PROVE  /\ \/ UNCHANGED feedVars
              \/ Restart
              \/ \E t \in Tick : Buffer(t) \/ Store(t) \/ StoreRaises(t)
           /\ faults' \in {faults, faults + 1}
<1>1. CASE UNCHANGED vars
  BY <1>1 DEF vars, serverVars
<1>2. CASE Strategy
  BY <1>2 DEF Strategy, Enqueue, Drain, Drained, Stop, serverVars
<1>3. CASE Take \/ NumberTick \/ Batched \/ BatchAnswered
  BY <1>3 DEF Take, NumberTick, Batched, BatchAnswered, serverVars
<1>4. CASE SingleAnswered \/ TimesOut \/ Predicted \/ PredictThrows
  BY <1>4 DEF SingleAnswered, TimesOut, Predicted, PredictThrows, serverVars
<1>5. CASE Interrupted \/ DrainAll \/ FinalFlush
  BY <1>5 DEF Interrupted, DrainAll, FinalFlush, serverVars
<1>6. CASE CallFails
  BY <1>6 DEF CallFails, serverVars
<1>7. CASE \E r \in wire : Accept(r)
  BY <1>7 DEF Accept
<1>8. CASE Ingest
  <2> DEFINE t == Head(serving.ticks)
  <2>1. serving.ticks # <<>> /\ (Reject(t) \/ RecordRaises(t) \/ Buffer(t)
                                 \/ Store(t) \/ StoreRaises(t))
    BY <1>8 DEF Ingest
  <2>2. t \in Tick
    BY <2>1 DEF TypeOK
  <2> HIDE DEF t
  <2>3. \A bars \in Nat : GoOn(bars) => faults' = faults
    BY DEF GoOn
  <2>4. Raise => faults' = faults + 1
    BY DEF Raise
  <2>5. CASE Reject(t) \/ RecordRaises(t)
    BY <2>3, <2>4, <2>5 DEF Reject, RecordRaises
  <2>6. CASE Buffer(t) \/ Store(t) \/ StoreRaises(t)
    BY <2>2, <2>3, <2>4, <2>6 DEF Buffer, Store, StoreRaises
  <2> QED BY <2>1, <2>5, <2>6
<1>9. CASE Restart
  BY <1>9 DEF Restart
<1> QED BY <1>1, <1>2, <1>3, <1>4, <1>5, <1>6, <1>7, <1>8, <1>9
        DEF Next, Worker, Serve

LEMMA BarsNext ==
    ASSUME TypeOK, RowShape, BarShape, [Next]_vars PROVE BarShape'
<1>0. /\ feed \in [last : Nat, buffer : Seq(Nat)] /\ feed.last \in Nat
      /\ BarSize \in Nat \ {0} /\ counter \notin DOMAIN rows
      /\ seen \in Seq(Nat) /\ Len(seen) \in Nat
  <2>1. feed \in [last : Nat, buffer : Seq(Nat)]
    BY DEF TypeOK
  <2>2. BarSize \in Nat \ {0}
    BY FeedConstants
  <2>3. counter \in Nat /\ DOMAIN rows \subseteq 0 .. counter - 1
    BY DEF RowShape
  <2>4. counter \notin 0 .. counter - 1
    BY <2>3
  <2>5. seen \in Seq(Nat)
    BY DEF BarShape
  <2>6. Len(seen) \in Nat
    BY <2>5
  <2> QED BY <2>1, <2>2, <2>3, <2>4, <2>5, <2>6
<1>q. PICK q \in Nat : Blocks(q)
  BY DEF BarShape
<1>1. CASE UNCHANGED feedVars
  BY <1>1 DEF feedVars, BarShape, Blocks
<1>2. CASE Restart
  <2>1. /\ seen' = <<>> /\ broken' = {} /\ feed' = NewFeed /\ rows' = rows
        /\ born' = counter' /\ DOMAIN rows \subseteq 0 .. counter - 1
        /\ counter \in Nat
        /\ counter' = IF DOMAIN rows = {} THEN 0 ELSE Max(DOMAIN rows) + 1
    BY <1>2 DEF Restart, RowShape
  <2>2. \A i \in DOMAIN rows : ~ i >= born'
    <3>1. CASE DOMAIN rows # {}
      <4>1. DOMAIN rows \subseteq Nat /\ \A i \in DOMAIN rows : i <= counter - 1
        BY <2>1
      <4>2. counter - 1 \in DOMAIN rows
        BY <3>1 DEF RowShape
      <4>3. Max(DOMAIN rows) = counter - 1
        BY <4>1, <4>2 DEF Max
      <4> QED BY <2>1, <3>1, <4>1, <4>3
    <3> QED BY <3>1
  <2>3. Len(<<>>) = 0 /\ <<>> \in Seq(Nat) /\ 0 * BarSize = 0
        /\ SubSeq(<<>>, 1, 0) = <<>>
    BY <1>0, SubSeqEmpty
  <2>4. Blocks(0)'
    BY <2>1, <2>2, <2>3 DEF Blocks, NewFeed
  <2> QED BY <1>0, <2>1, <2>3, <2>4 DEF BarShape, NewFeed
<1>3. ASSUME NEW t \in Tick, Buffer(t) PROVE BarShape'
  <2>1. /\ Aggregated(t) /\ ~Full(Append(feed.buffer, t.seq)) /\ born' = born
        /\ feed'.last = t.seq /\ feed'.buffer = Append(feed.buffer, t.seq)
        /\ rows' = rows /\ broken' = broken
    BY <1>3 DEF Buffer, Aggregated
  <2>2. Blocks(q)' /\ Len(feed'.buffer) < BarSize
    BY <1>0, <1>q, <2>1, BlocksNext
  <2>3. \A i \in broken' : \E k \in Nat : i = k * BarSize
    BY <2>1 DEF BarShape
  <2> QED BY <1>0, <2>1, <2>2, <2>3, AggregatedSeen DEF BarShape
<1>4. ASSUME NEW t \in Tick, Store(t) \/ StoreRaises(t) PROVE BarShape'
  <2>1. /\ Aggregated(t) /\ Full(Append(feed.buffer, t.seq)) /\ born' = born
        /\ feed'.buffer = <<>>
        /\ \/ feed'.last = t.seq /\ broken' = broken
           \/ feed'.last = feed.last /\ broken' = broken \union {Len(seen) + 1}
        /\ \/ rows' = rows
           \/ rows' = Inserted(Append(feed.buffer, t.seq))
           \/ rows' = Pruned(Inserted(Append(feed.buffer, t.seq)), counter + 1)
    <3>1. CASE Store(t)
      BY <3>1 DEF Store, Aggregated
    <3>2. CASE StoreRaises(t)
      BY <1>0, <3>2 DEF StoreRaises, Aggregated
    <3> QED BY <1>4, <3>1, <3>2
  <2>2. /\ DOMAIN rows' \subseteq DOMAIN rows \union {counter}
        /\ \A i \in DOMAIN rows' :
               rows'[i] = IF i = counter THEN Append(feed.buffer, t.seq)
                          ELSE rows[i]
    BY <1>0, <2>1 DEF Inserted, Pruned
  <2>3. /\ Blocks(q + 1)' /\ Len(feed'.buffer) < BarSize
        /\ Len(seen') = (q + 1) * BarSize
    BY <1>0, <1>q, <2>1, <2>2, BlocksNext
  <2>4. /\ seen' \in Seq(Nat) /\ Len(seen') = Len(seen) + 1
        /\ broken' \subseteq 1 .. Len(seen')
        /\ \A i \in 1 .. Len(seen') : seen'[i] <= feed'.last \/ i \in broken'
        /\ \A i, j \in 1 .. Len(seen') :
               i < j => seen'[i] < seen'[j] \/ i \in broken'
    BY <1>0, <2>1, AggregatedSeen
  <2>5. q + 1 \in Nat
    OBVIOUS
  <2>6. \A i \in broken' : \E k \in Nat : i = k * BarSize
    BY <2>1, <2>3, <2>4, <2>5 DEF BarShape
  <2> QED BY <2>3, <2>4, <2>5, <2>6 DEF BarShape
<1> QED BY <1>1, <1>2, <1>3, <1>4, FeedSteps

\* The sequence of what is aggregated goes out of order only at a bar that
\* could not be appended; blocks and buffer are cut from it.
LEMMA BarShapeBlocks == TypeOK /\ BarShape => BarsAreBlocks
<1> SUFFICES ASSUME TypeOK, BarShape PROVE BarsAreBlocks
  OBVIOUS
<1>1. /\ seen \in Seq(Nat) /\ Len(seen) \in Nat /\ BarSize \in Nat \ {0}
      /\ DOMAIN seen = 1 .. Len(seen) /\ Len(feed.buffer) \in 0 .. BarSize - 1
  <2>1. feed.buffer \in Seq(Nat) /\ seen \in Seq(Nat)
    BY DEF BarShape, TypeOK
  <2>2. Len(feed.buffer) \in Nat /\ Len(seen) \in Nat
        /\ DOMAIN seen = 1 .. Len(seen)
    BY <2>1
  <2>3. BarSize \in Nat \ {0} /\ Len(feed.buffer) < BarSize
    BY FeedConstants DEF BarShape
  <2> QED BY <2>1, <2>2, <2>3
<1>2. PICK q \in Nat : Blocks(q)
  BY DEF BarShape
<1> DEFINE c == q * BarSize
<1>3. c \in Nat /\ Len(seen) = c + Len(feed.buffer)
      /\ feed.buffer = SubSeq(seen, c + 1, Len(seen))
  <2>1. c \in Nat
    BY <1>1
  <2> QED BY <1>2, <2>1 DEF Blocks
<1>4. feed.buffer = SubSeq(seen, Len(seen) + 1 - (Len(seen) % BarSize), Len(seen))
  <2>0. \A r \in 0 .. BarSize - 1 : (q * BarSize + r) % BarSize = r
    <3>1. q \in Int /\ BarSize \in Nat \ {0}
      BY <1>1
    <3> QED BY <3>1, Remainder
  <2>1. (c + Len(feed.buffer)) % BarSize = Len(feed.buffer)
    BY <1>1, <2>0
  <2> HIDE DEF c
  <2>2. Len(seen) % BarSize = Len(feed.buffer)
    BY <1>3, <2>1
  <2>3. Len(seen) + 1 - (Len(seen) % BarSize) = c + 1
    <3> DEFINE n == Len(seen)
               b == Len(feed.buffer)
               m == Len(seen) % BarSize
    <3>0. Len(feed.buffer) \in Nat
      BY <1>1
    <3>1. m = b /\ n = c + b /\ c \in Nat /\ b \in Nat
      BY <1>3, <2>2, <3>0, Zenon
    <3> HIDE DEF n, b, m
    <3>2. n + 1 - m = c + 1
      BY <3>1
    <3> QED BY <3>2 DEF n, m
  <2> QED BY <1>3, <2>3
<1>5. \A i \in broken : i % BarSize = 0
  <2> SUFFICES ASSUME NEW i \in broken PROVE i % BarSize = 0
    OBVIOUS
  <2>1. PICK k \in Nat : i = k * BarSize
    BY DEF BarShape
  <2>2. (k * BarSize + 0) % BarSize = 0
    BY <1>1, Remainder
  <2> QED BY <1>1, <2>1, <2>2
<1>6. ASSUME NEW i \in DOMAIN rows, i >= born
      PROVE  \E k \in {n \in 0 .. Len(seen) : (n + 1) * BarSize <= Len(seen)} :
                 rows[i] = SubSeq(seen, k * BarSize + 1, (k + 1) * BarSize)
  <2>1. PICK k \in 0 .. q - 1 :
            rows[i] = SubSeq(seen, k * BarSize + 1, (k + 1) * BarSize)
    BY <1>2, <1>6 DEF Blocks
  <2>2. /\ k * BarSize \in Nat /\ (k + 1) * BarSize = k * BarSize + BarSize
        /\ (k + 1) * BarSize <= c
    BY <1>1, Multiples
  <2>3. (k + 1) * BarSize <= Len(seen)
    <3> HIDE DEF c
    <3> DEFINE y == (k + 1) * BarSize
    <3> HIDE DEF y
    <3>1. y \in Nat /\ y <= c
      BY <1>1, <2>2, Multiples DEF y
    <3>2. y <= Len(seen)
      BY <1>1, <1>3, <3>1
    <3> QED BY <3>2 DEF y
  <2>4. k \in Nat /\ k <= k * BarSize
    <3>1. k \in Nat /\ BarSize \in Nat \ {0}
      BY <1>1
    <3> DEFINE b == BarSize
    <3> HIDE DEF b, c
    <3>2. k <= k * b
      BY <3>1, SMTT(30) DEF b
    <3> QED BY <3>1, <3>2 DEF b
  <2>5. k \in 0 .. Len(seen)
    <3> DEFINE x == k * BarSize
               y == (k + 1) * BarSize
    <3>1. /\ x \in Nat /\ y = x + BarSize /\ y <= Len(seen) /\ k <= x
          /\ BarSize \in Nat /\ Len(seen) \in Nat
      BY <1>1, <2>2, <2>3, <2>4
    <3> HIDE DEF x, y, c
    <3> QED BY <2>4, <3>1
  <2> QED BY <2>1, <2>3, <2>5
<1> QED BY <1>1, <1>4, <1>5, <1>6 DEF BarsAreBlocks, BarShape

-----------------------------------------------------------------------------
(* The rows. *)

LEMMA InitRows == Init => BarShape /\ RowShape
<1> SUFFICES ASSUME Init PROVE BarShape /\ RowShape
  OBVIOUS
<1> USE DEF Init, NewFeed
<1>1. BarSize \in Nat \ {0}
  BY FeedConstants
<1>2. BarShape
  BY <1>1, InitBars DEF BarShape
<1>3. RowShape
  <2>1. DOMAIN rows = {}
    OBVIOUS
  <2> QED BY <2>1 DEF RowShape
<1> QED BY <1>2, <1>3

\* A failure allows the table Every rows more.
LEMMA FaultRows ==
    ASSUME TypeOK
    PROVE  /\ Every * faults \in Nat
           /\ Every * (faults + 1) = Every * faults + Every
<1> DEFINE e == Every
           f == faults
<1>1. e \in Nat /\ f \in Nat
  BY FeedConstants DEF TypeOK
<1> HIDE DEF e, f
<1>2. e * f \in Nat /\ e * (f + 1) = e * f + e
  BY <1>1, SMTT(30)
<1> QED BY <1>2 DEF e, f

\* A bar is inserted behind the newest row.
LEMMA RowsInserted ==
    ASSUME RowShape, NEW buffer
    PROVE  /\ DOMAIN Inserted(buffer) = DOMAIN rows \union {counter}
           /\ DOMAIN Inserted(buffer) \subseteq 0 .. counter
           /\ \A i \in 0 .. counter : i + Keep >= counter + 1 =>
                  i \in DOMAIN Inserted(buffer)
<1>1. Keep \in Nat /\ counter \in Nat
  BY FeedConstants DEF RowShape
<1>2. DOMAIN Inserted(buffer) = DOMAIN rows \union {counter}
  BY DEF Inserted
<1>3. \A i \in 0 .. counter : i + Keep >= counter + 1 =>
          i = counter \/ i \in DOMAIN rows
  BY <1>1 DEF RowShape
<1>4. DOMAIN rows \subseteq 0 .. counter - 1 /\ 0 .. counter - 1 \subseteq 0 .. counter
  BY <1>1 DEF RowShape
<1> QED BY <1>1, <1>2, <1>3, <1>4

LEMMA RowsNext ==
    ASSUME TypeOK, RowShape, [Next]_vars PROVE RowShape'
<1> DEFINE m == counter % Every
           w == Every * faults
<1>0. /\ Keep \in Nat /\ Every \in Nat \ {0} /\ counter \in Nat
      /\ born \in 0 .. counter /\ faults \in Nat
      /\ DOMAIN rows \subseteq 0 .. counter - 1
  BY FeedConstants DEF TypeOK, RowShape
<1>1. m \in 0 .. Every - 1
      /\ (counter + 1) % Every = IF m = Every - 1 THEN 0 ELSE m + 1
  BY <1>0, RemainderNext
<1>2. w \in Nat /\ Every * (faults + 1) = w + Every
  BY FaultRows
<1>3. \A i \in DOMAIN rows : i + Keep + m + w >= counter
  BY DEF RowShape
<1> HIDE DEF m, w
<1>4. \A i \in DOMAIN rows : i \in Nat /\ i < counter
  BY <1>0
<1>5. \A i \in DOMAIN rows : i + Keep + m + (w + Every) >= counter
  BY <1>0, <1>1, <1>2, <1>3, <1>4
<1>6. CASE UNCHANGED feedVars
  <2>1. faults' \in {faults, faults + 1}
    BY FeedSteps
  <2>2. \A i \in DOMAIN rows :
            i + Keep + (counter % Every) + Every * faults' >= counter
    <3>1. CASE faults' = faults
      BY <1>3, <3>1 DEF m, w
    <3>2. CASE faults' = faults + 1
      <4>1. Every * faults' = w + Every
        BY <1>2, <3>2
      <4> QED BY <1>5, <4>1 DEF m
    <3> QED BY <2>1, <3>1, <3>2
  <2>3. counter' = counter /\ rows' = rows /\ born' = born
    BY <1>6 DEF feedVars
  <2> QED BY <2>2, <2>3 DEF RowShape
<1>7. CASE Restart
  <2>1. /\ rows' = rows /\ born' = counter' /\ faults' = faults + 1
        /\ counter' = IF DOMAIN rows = {} THEN 0 ELSE Max(DOMAIN rows) + 1
    BY <1>7 DEF Restart
  <2>2. CASE DOMAIN rows = {}
    BY <2>1, <2>2 DEF RowShape
  <2>3. CASE DOMAIN rows # {}
    <3>1. counter - 1 \in DOMAIN rows
      BY <2>3 DEF RowShape
    <3>2. Max(DOMAIN rows) = counter - 1
      BY <1>0, <1>4, <3>1 DEF Max
    <3>3. counter' = counter
      BY <1>0, <2>1, <2>3, <3>2
    <3>4. \A i \in DOMAIN rows :
              i + Keep + (counter % Every) + Every * faults' >= counter
      <4>1. Every * faults' = w + Every
        BY <1>2, <2>1
      <4> QED BY <1>5, <4>1 DEF m
    <3>5. born' \in 0 .. counter'
      BY <1>0, <2>1, <3>3
    <3> QED BY <2>1, <3>3, <3>4, <3>5 DEF RowShape
  <2> QED BY <2>2, <2>3
<1>8. ASSUME NEW t \in Tick, Buffer(t) PROVE RowShape'
  <2>1. UNCHANGED <<rows, counter, born>> /\ faults' = faults
    BY <1>8 DEF Buffer, Aggregated, GoOn
  <2> QED BY <2>1 DEF RowShape
<1>9. ASSUME NEW buffer,
             counter' = counter + 1, born' = born,
             \/ /\ faults' = faults
                /\ rows' = Pruned(Inserted(buffer), counter + 1)
             \/ /\ faults' = faults + 1 /\ rows' = Inserted(buffer)
                /\ (counter + 1) % Every = 0
      PROVE  RowShape'
  <2> DEFINE table == Inserted(buffer)
  <2>1. /\ DOMAIN table = DOMAIN rows \union {counter}
        /\ DOMAIN table \subseteq 0 .. counter
        /\ \A i \in 0 .. counter : i + Keep >= counter + 1 => i \in DOMAIN table
    BY RowsInserted
  <2> HIDE DEF table
  <2>2. counter' \in Nat /\ born' \in 0 .. counter' /\ counter' - 1 = counter
    BY <1>0, <1>9
  <2>3. CASE rows' = Pruned(table, counter + 1) /\ (counter + 1) % Every = 0
             /\ faults' = faults
    <3>1. DOMAIN rows' = {j \in DOMAIN table : j + Keep >= counter + 1}
      BY <2>3 DEF Pruned
    <3>2. DOMAIN rows' # {} => counter \in DOMAIN rows'
      <4> SUFFICES ASSUME NEW j \in DOMAIN rows' PROVE counter \in DOMAIN rows'
        OBVIOUS
      <4>1. j \in 0 .. counter /\ j + Keep >= counter + 1
        BY <2>1, <3>1
      <4>2. counter + Keep >= counter + 1
        BY <1>0, <4>1
      <4> QED BY <2>1, <3>1, <4>2
    <3>3. \A i \in 0 .. counter : i + Keep >= counter + 1 => i \in DOMAIN rows'
      BY <2>1, <3>1
    <3>4. \A i \in DOMAIN rows' : i + Keep + 0 + w >= counter + 1
      BY <1>0, <1>2, <2>1, <3>1
    <3>5. DOMAIN rows' \subseteq 0 .. counter
      BY <2>1, <3>1
    <3> QED BY <1>9, <2>2, <2>3, <3>2, <3>3, <3>4, <3>5 DEF RowShape, w
  <2>4. CASE /\ rows' = table
             /\ \/ (counter + 1) % Every # 0 /\ faults' = faults
                \/ (counter + 1) % Every = 0 /\ faults' = faults + 1
    <3>1. counter \in DOMAIN rows' /\ DOMAIN rows' \subseteq 0 .. counter
          /\ \A i \in 0 .. counter : i + Keep >= counter + 1 => i \in DOMAIN rows'
      BY <2>1, <2>4
    <3>2. \A i \in DOMAIN rows' :
              i + Keep + ((counter + 1) % Every) + Every * faults' >= counter + 1
      <4> SUFFICES ASSUME NEW i \in DOMAIN rows'
                   PROVE  i + Keep + ((counter + 1) % Every) + Every * faults'
                              >= counter + 1
        OBVIOUS
      <4> DEFINE r == (counter + 1) % Every
                 f == Every * faults'
      <4>1. \/ r = m + 1 /\ f = w
            \/ r = 0 /\ m = Every - 1 /\ f = w + Every
        <5>1. CASE (counter + 1) % Every # 0 /\ faults' = faults
          BY <1>1, <5>1 DEF w
        <5>2. CASE (counter + 1) % Every = 0 /\ faults' = faults + 1
          <6>1. m = Every - 1
            BY <1>0, <1>1, <5>2
          <6> QED BY <1>2, <5>2, <6>1
        <5> QED BY <2>4, <5>1, <5>2
      <4> HIDE DEF r, f
      <4>2. i \in Nat /\ (i = counter \/ i + Keep + m + w >= counter)
        BY <1>0, <1>3, <1>4, <2>1, <2>4
      <4>3. i + Keep + r + f >= counter + 1
        BY <1>0, <1>1, <1>2, <4>1, <4>2
      <4> QED BY <4>3 DEF r, f
    <3>3. \A i \in DOMAIN rows' :
              i + Keep + (counter' % Every) + Every * faults' >= counter'
      BY <1>9, <3>2
    <3>4. /\ counter' - 1 \in DOMAIN rows'
          /\ DOMAIN rows' \subseteq 0 .. counter' - 1
          /\ \A i \in 0 .. counter' - 1 : i + Keep >= counter' => i \in DOMAIN rows'
      BY <1>9, <2>2, <3>1
    <3> QED BY <2>2, <3>3, <3>4 DEF RowShape
  <2>5. CASE rows' = Pruned(table, counter + 1) /\ (counter + 1) % Every # 0
             /\ faults' = faults
    <3>1. rows' = table
      BY <2>5 DEF Pruned
    <3> QED BY <2>4, <2>5, <3>1
  <2> QED BY <1>9, <2>3, <2>4, <2>5 DEF table
<1>10. ASSUME NEW t \in Tick, Store(t) PROVE RowShape'
  <2>1. faults' = faults /\ born' = born /\ counter' = counter + 1
        /\ rows' = Pruned(Inserted(Append(feed.buffer, t.seq)), counter + 1)
    BY <1>10 DEF Store, Aggregated, GoOn
  <2> QED BY <1>9, <2>1
<1>11. ASSUME NEW t \in Tick, StoreRaises(t) PROVE RowShape'
  <2>1. /\ faults' = faults + 1 /\ born' = born
        /\ \/ UNCHANGED <<rows, counter>>
           \/ /\ (counter + 1) % Every = 0 /\ counter' = counter + 1
              /\ rows' = Inserted(Append(feed.buffer, t.seq))
    BY <1>11 DEF StoreRaises, Aggregated, Raise
  <2>2. CASE UNCHANGED <<rows, counter>>
    <3>1. Every * faults' = w + Every
      BY <1>2, <2>1
    <3>2. \A i \in DOMAIN rows :
              i + Keep + (counter % Every) + Every * faults' >= counter
      BY <1>5, <3>1 DEF m
    <3> QED BY <2>1, <2>2, <3>2 DEF RowShape
  <2> QED BY <1>9, <2>1, <2>2
<1> QED BY <1>6, <1>7, <1>8, <1>10, <1>11, FeedSteps

\* At most Keep + Every rows, and Every more for each failure.
LEMMA RowShapeWindow == TypeOK /\ RowShape => RowsKeepWindow
<1> SUFFICES ASSUME TypeOK, RowShape PROVE RowsKeepWindow
  OBVIOUS
<1> DEFINE m == counter % Every
           w == Every * faults
           k == Keep + m + w
           low == IF counter < k THEN 0 ELSE counter - k
<1>1. /\ Keep \in Nat /\ Every \in Nat \ {0} /\ counter \in Nat
      /\ DOMAIN rows \subseteq 0 .. counter - 1
  BY FeedConstants DEF TypeOK, RowShape
<1>2. m \in 0 .. Every - 1
  BY <1>1, RemainderNext
<1>3. w \in Nat /\ Every * (1 + faults) = w + Every
  BY FaultRows DEF TypeOK
<1>4. \A i \in DOMAIN rows : i + Keep + m + w >= counter
  BY DEF RowShape
<1> HIDE DEF m, w
<1>5. k \in Nat /\ k < Keep + (w + Every) /\ low \in 0 .. counter
  BY <1>1, <1>2, <1>3
<1>6. DOMAIN rows \subseteq low .. counter - 1
  <2> SUFFICES ASSUME NEW i \in DOMAIN rows PROVE i \in low .. counter - 1
    OBVIOUS
  <2> QED BY <1>1, <1>2, <1>3, <1>4
<1>7. IsFiniteSet(low .. counter - 1)
      /\ Cardinality(low .. counter - 1) = counter - low
  <2>1. IsFiniteSet(low .. counter - 1)
        /\ Cardinality(low .. counter - 1) =
               IF low > counter - 1 THEN 0 ELSE (counter - 1) - low + 1
    <3>1. low \in Int /\ counter - 1 \in Int
      BY <1>1, <1>5
    <3> HIDE DEF low
    <3> QED BY <3>1, FS_Interval
  <2> QED BY <1>1, <1>5, <2>1
<1>8. Cardinality(DOMAIN rows) <= counter - low
      /\ Cardinality(DOMAIN rows) \in Nat
  <2> HIDE DEF low
  <2>1. IsFiniteSet(DOMAIN rows)
        /\ Cardinality(DOMAIN rows) <= Cardinality(low .. counter - 1)
    BY <1>6, <1>7, FS_Subset
  <2>2. Cardinality(DOMAIN rows) \in Nat
    BY <2>1, FS_CardinalityType
  <2> QED BY <1>7, <2>1, <2>2
<1>9. Cardinality(DOMAIN rows) < Keep + (w + Every)
  <2>1. counter - low <= k
    BY <1>1, <1>5
  <2> QED BY <1>1, <1>3, <1>5, <1>8, <2>1
<1>10. Cardinality(DOMAIN rows) < Keep + Every * (1 + faults)
  BY <1>3, <1>9
<1> QED BY <1>1, <1>10 DEF RowsKeepWindow, RowShape

-----------------------------------------------------------------------------
LEMMA InitIInv == Init => IInv
BY InitFeed, InitRows DEF IInv, FeedInv

LEMMA IInvInductive == IInv /\ [Next]_vars => IInv'
<1> SUFFICES ASSUME IInv, [Next]_vars PROVE IInv'
  OBVIOUS
<1>1. FeedInv'
  BY FeedInvInductive DEF IInv, FeedInv
<1>2. BarShape' /\ RowShape'
  BY BarsNext, RowsNext DEF IInv
<1> QED BY <1>1, <1>2 DEF IInv, FeedInv

\* However often a request is repeated and however late it arrives: within one
\* life of the server nothing is aggregated twice or out of order, but after a
\* bar that could not be appended, and what is stored are whole consecutive
\* blocks of what was aggregated (_ingest_tick_internal, append_bar).
THEOREM BarsAreCutWhole == Spec => []BarsAreBlocks
<1>1. Spec => []IInv
  BY InitIInv, IInvInductive, PTL DEF Spec
<1>2. IInv => BarsAreBlocks
  BY BarShapeBlocks DEF IInv
<1> QED BY <1>1, <1>2, PTL

\* Whatever restarts and whichever prune fails, the newest Keep rows are in the
\* table, without a gap, and it holds fewer than Keep + Every rows and Every more
\* for each failure (append_bar, _restore_row_counters).
THEOREM RowsAreKept == Spec => []RowsKeepWindow
<1>1. Spec => []IInv
  BY InitIInv, IInvInductive, PTL DEF Spec
<1>2. IInv => RowsKeepWindow
  BY RowShapeWindow DEF IInv
<1> QED BY <1>1, <1>2, PTL
=============================================================================
