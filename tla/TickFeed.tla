------------------------------ MODULE TickFeed ------------------------------
(***************************************************************************)
(* From a market tick to a stored bar: the strategy thread that queues     *)
(* ticks (WorkerTickQueue), the SymbolWorker thread that numbers them and  *)
(* posts them in batches, retries, falls back to single ticks and asks for *)
(* predictions, and the server that filters by client sequence number,     *)
(* aggregates ticks to bars and appends and prunes the bar table.          *)
(*                                                                         *)
(* Requests may be late, their responses lost, the append may raise, the   *)
(* server may restart with its database, the strategy may be stopped.  One *)
(* symbol: workers and trackers of different symbols share nothing.  A     *)
(* tick is its arrival number; its prices do not matter here.  The bridge, *)
(* which numbers ticks of its own, is in module Readiness.                 *)
(***************************************************************************)
EXTENDS Naturals, SequencesExt

CONSTANTS MaxTicks,     \* bound: ticks that arrive
          BatchSize,    \* sessionConfig.tickBatchSize
          MaxRetries,   \* MAX_TICK_BATCH_TIMEOUT_RETRIES
          BarSize,      \* ticks of a bar (100 in the server)
          Keep, Every,  \* rows kept by a prune (600), rows between two (100)
          MaxFaults     \* bound on failures and restarts

ASSUME FeedConstants ==
    /\ {MaxTicks, MaxRetries, Keep, MaxFaults} \subseteq Nat
    /\ {BatchSize, BarSize, Every} \subseteq Nat \ {0}

VARIABLES
    arrived,   \* ticks the strategy thread has queued
    queue,     \* WorkerTickQueue.queue
    unmarked,  \* WorkerTickQueue.pendingCount
    draining,  \* the strategy thread waits in awaitDrained
    life,      \* of the worker: running, stopping, flushing (stop()), stopped
    worker,    \* where the worker thread is, and its local variables
    nextSeq,   \* nextClientTickSeq
    wire,      \* requests the server has not handled (nor ever may)
    serving,   \* the request the server handles: the ticks it has still to
               \* ingest, and the bars completed by those before
    answer,    \* the response on its way to the worker
    feed,      \* the server's tracker and aggregator buffer, in memory
    rows, counter, \* tick_bars: ticks of every stored row, and _row_counters
    faults,
    seen,      \* history: sequence numbers aggregated by this server process
    broken,    \* history: where in seen a bar failed to be appended
    taken,     \* history: ticks aggregated by any server process
    dropped,   \* history: ticks the worker has given up
    interrupted, \* history: the stop interrupted a batch
    born       \* history: the counter this server process started from

queueVars == <<arrived, queue, unmarked, draining>>
clientVars == <<life, worker, nextSeq, dropped, interrupted>>
feedVars == <<feed, rows, counter, seen, broken, taken, born>>
serverVars == <<serving, feedVars>>
vars == <<queueVars, clientVars, wire, answer, serverVars, faults>>

-----------------------------------------------------------------------------
\* A numbered tick is what IncomingTickPayload keeps of it.
Numbered == [tick : 1 .. MaxTicks, seq : 1 .. MaxTicks]
Ticks(s) == {s[i].tick : i \in DOMAIN s}

\* at: "take" waits for a tick, "number" numbers the batch, "batch" and
\* "single" await a response, "predict" awaits predictions and executes them.
\* size: events taken from the queue; id: the request awaited; bars: completed
\* bars the responses to this flush told of.
Idle == [at |-> "take", batch |-> <<>>, size |-> 0, pending |-> <<>>,
         payload |-> <<>>, attempt |-> 0, done |-> 0, bars |-> 0, id |-> 0]

NoAnswer == [kind |-> "none", bars |-> 0]
Free == [id |-> 0, ticks |-> <<>>, bars |-> 0]
NewFeed == [last |-> 0, buffer |-> <<>>]

Init ==
    /\ arrived = 0 /\ queue = <<>> /\ unmarked = 0 /\ draining = FALSE
    /\ life = "running" /\ worker = Idle /\ nextSeq = 1
    /\ wire = {} /\ serving = Free /\ answer = NoAnswer
    /\ feed = NewFeed /\ rows = <<>> /\ counter = 0 /\ faults = 0
    /\ seen = <<>> /\ broken = {} /\ taken = {} /\ dropped = {} /\ born = 0
    /\ interrupted = FALSE

-----------------------------------------------------------------------------
(* The strategy thread. *)

Enqueue ==
    /\ arrived < MaxTicks /\ ~draining /\ life = "running"
    /\ arrived' = arrived + 1
    /\ queue' = Append(queue, arrived + 1)
    /\ unmarked' = unmarked + 1
    /\ UNCHANGED <<draining, clientVars, wire, answer, serverVars, faults>>

Drain ==
    /\ ~draining /\ life = "running" /\ unmarked > 0
    /\ draining' = TRUE
    /\ UNCHANGED <<arrived, queue, unmarked, clientVars, wire, answer,
                   serverVars, faults>>

Drained ==
    /\ draining /\ unmarked = 0
    /\ draining' = FALSE
    /\ UNCHANGED <<arrived, queue, unmarked, clientVars, wire, answer,
                   serverVars, faults>>

-----------------------------------------------------------------------------
(* The worker thread. *)

Take ==
    /\ life = "running" /\ worker.at = "take" /\ queue # <<>>
    /\ worker' = [worker EXCEPT !.at = "number", !.batch = queue,
                                !.size = Len(queue)]
    /\ queue' = <<>>
    /\ UNCHANGED <<arrived, unmarked, draining, life, nextSeq, wire,
                   answer, serverVars, faults, dropped, interrupted>>

\* Mutant of EndBatch: an exception leaves its batch unmarked.
EndBatchUnmarked(w) ==
    /\ worker' = [w EXCEPT !.at = "take", !.batch = <<>>, !.size = 0]
    /\ unmarked' = IF w.batch = <<>> THEN unmarked - w.size ELSE unmarked
    /\ dropped' = dropped \union Range(w.batch)

\* The end of a batch, or an exception that left processBatch: what was not
\* numbered yet is forgotten, and markProcessed counts the whole batch.
EndBatch(w) ==
    /\ worker' = [w EXCEPT !.at = "take", !.batch = <<>>, !.size = 0]
    /\ unmarked' = unmarked - w.size
    /\ dropped' = dropped \union Range(w.batch)

\* The request of a flush; done counts the ticks already sent one by one.
Send(w, ticks) ==
    /\ worker' = [w EXCEPT !.id = worker.id + 1]
    /\ wire' = wire \union {[id |-> worker.id + 1, ticks |-> ticks]}
    /\ answer' = NoAnswer

Flush(w) ==
    Send([w EXCEPT !.at = "batch", !.payload = w.pending, !.pending = <<>>],
         w.pending)

NumberTick ==
    /\ worker.at = "number" /\ worker.batch # <<>>
    /\ LET w == [worker EXCEPT
                     !.batch = Tail(@),
                     !.pending = Append(@, [tick |-> Head(worker.batch),
                                            seq |-> nextSeq])]
       IN IF Len(w.pending) >= BatchSize
          THEN Flush(w)
          ELSE worker' = w /\ UNCHANGED <<wire, answer>>
    /\ nextSeq' = nextSeq + 1
    /\ UNCHANGED <<queueVars, life, serverVars, faults, dropped,
                   interrupted>>

Batched ==
    /\ worker.at = "number" /\ worker.batch = <<>>
    /\ EndBatch(worker)
    /\ UNCHANGED <<arrived, queue, draining, life, nextSeq, wire,
                   answer, serverVars, faults, interrupted>>

Settled(w) == [w EXCEPT !.payload = <<>>, !.attempt = 0, !.done = 0, !.bars = 0]

\* A flush that succeeded: predictions if a bar completed, the rest of the
\* batch otherwise.
Flushed(w) ==
    /\ worker' = IF w.bars > 0 THEN [w EXCEPT !.at = "predict"]
                               ELSE [Settled(w) EXCEPT !.at = "number"]

BatchAnswered ==
    /\ worker.at = "batch" /\ answer.kind = "ok" /\ life # "stopping"
    /\ Flushed([worker EXCEPT !.bars = answer.bars])
    /\ answer' = NoAnswer
    /\ UNCHANGED <<queueVars, life, nextSeq, wire, serverVars, faults, dropped,
                   interrupted>>

SingleAnswered ==
    /\ worker.at = "single" /\ answer.kind = "ok" /\ life # "stopping"
    /\ LET w == [worker EXCEPT !.done = @ + 1, !.bars = @ + answer.bars]
       IN IF w.done < Len(w.payload)
          THEN Send(w, <<w.payload[w.done + 1]>>)
          ELSE Flushed(w) /\ answer' = NoAnswer /\ UNCHANGED wire
    /\ UNCHANGED <<queueVars, life, nextSeq, serverVars, faults, dropped,
                   interrupted>>

\* Mutant of Escape: the ticks of the failed flush are not put back.
EscapeForgets(w) == EndBatch(Settled(w))

\* An exception leaves the flush: the ticks not yet ingested one by one go
\* back to the front of pendingTicks.
Escape(w) ==
    EndBatch([Settled(w) EXCEPT
                  !.pending = SubSeq(w.payload, w.done + 1, Len(w.payload)) \o @])

Waiting == worker.at \in {"batch", "single"}

\* A 5xx response, or a failure of the connection other than a time-out; a
\* request that died with the server always fails.
CallFails ==
    /\ Waiting /\ life # "stopping"
    /\ \/ answer.kind = "failed" /\ UNCHANGED faults
       \/ /\ answer.kind = "none"
          /\ \A r \in wire \union {serving} : r.id # worker.id
          /\ UNCHANGED faults
       \/ /\ answer.kind # "failed" /\ faults < MaxFaults
          /\ faults' = faults + 1
    /\ Escape(worker)
    /\ answer' = NoAnswer
    /\ UNCHANGED <<arrived, queue, draining, life, nextSeq, wire,
                   serverVars, interrupted>>

\* A time-out is retried, and then the payload is sent tick by tick; there
\* it is a failure like any other.
TimesOut ==
    /\ worker.at = "batch" /\ life # "stopping"
    /\ answer.kind # "failed" /\ faults < MaxFaults
    /\ faults' = faults + 1
    /\ IF worker.attempt < MaxRetries
       THEN Send([worker EXCEPT !.attempt = @ + 1], worker.payload)
       ELSE Send([worker EXCEPT !.at = "single"], <<worker.payload[1]>>)
    /\ UNCHANGED <<queueVars, life, nextSeq, serverVars, dropped,
                   interrupted>>

\* A PythonApiException of /predict ends the prediction quietly; any other
\* exception (of an order, say) leaves the flush like a failed post, except
\* that the single-tick fallback is already outside the try.
Predicted ==
    /\ worker.at = "predict"
    /\ worker' = [Settled(worker) EXCEPT !.at = "number"]
    /\ UNCHANGED <<queueVars, life, nextSeq, wire, answer, serverVars,
                   faults, dropped, interrupted>>

PredictThrows ==
    /\ worker.at = "predict" /\ faults < MaxFaults
    /\ faults' = faults + 1
    /\ Escape(worker)
    /\ UNCHANGED <<arrived, queue, draining, life, nextSeq, wire,
                   answer, serverVars, interrupted>>

-----------------------------------------------------------------------------
(* stop(): interrupt the worker, and finish its work on the calling thread. *)

Stop ==
    /\ life = "running" /\ ~draining
    /\ life' = "stopping"
    /\ UNCHANGED <<queueVars, worker, nextSeq, wire, answer,
                   serverVars, faults, dropped, interrupted>>

\* The interrupted worker fails every request at once, and loses its payload
\* when it sleeps between two attempts.
Interrupted ==
    /\ life = "stopping" /\ Waiting
    /\ \/ Escape(worker)
       \/ /\ worker.at = "batch" /\ worker.attempt > 0
          /\ EndBatch([Settled(worker) EXCEPT
                  !.batch = @ \o [i \in DOMAIN worker.payload |->
                                       worker.payload[i].tick]])
    /\ interrupted' = TRUE /\ answer' = NoAnswer
    /\ UNCHANGED <<arrived, queue, draining, life, nextSeq, wire,
                   serverVars, faults>>

DrainAll ==
    /\ life = "stopping" /\ worker.at = "take"
    /\ life' = "flushing"
    /\ worker' = [worker EXCEPT !.at = "number", !.batch = queue,
                                !.size = Len(queue)]
    /\ queue' = <<>>
    /\ UNCHANGED <<arrived, unmarked, draining, nextSeq, wire, answer,
                   serverVars, faults, dropped, interrupted>>

\* The last flush; if it fails its ticks stay in pendingTicks.
FinalFlush ==
    /\ life = "flushing" /\ worker.at = "take" /\ worker.pending # <<>>
    /\ life' = "stopped"
    /\ Flush(worker)
    /\ UNCHANGED <<queueVars, nextSeq, serverVars, faults, dropped,
                   interrupted>>

-----------------------------------------------------------------------------
(* The server: one request at a time, no await in its handlers. *)

\* /ticks/batch, and /ticks for a single tick.  A late request of an earlier
\* attempt is handled like any other.
Accept(r) ==
    /\ serving = Free
    /\ wire' = wire \ {r}
    /\ serving' = [id |-> r.id, ticks |-> r.ticks, bars |-> 0]
    /\ UNCHANGED <<queueVars, clientVars, answer, feedVars, faults>>

\* The response; nobody reads that of an earlier attempt.
Respond(kind, bars) ==
    /\ serving' = Free
    /\ answer' = IF Waiting /\ serving.id = worker.id
                 THEN [kind |-> kind, bars |-> bars]
                 ELSE answer

\* The handler goes on to the next tick of the request.
GoOn(bars) ==
    /\ UNCHANGED faults
    /\ IF Len(serving.ticks) > 1
       THEN /\ serving' = [serving EXCEPT !.ticks = Tail(@), !.bars = @ + bars]
            /\ UNCHANGED answer
       ELSE Respond("ok", serving.bars + bars)

\* An exception ends the request: the ticks after this one are not ingested.
Raise ==
    /\ faults < MaxFaults
    /\ faults' = faults + 1
    /\ Respond("failed", 0)

\* Mutant of Fresh: the last number itself passes the filter.
FreshRepeats(t) == t.seq >= feed.last

\* A number not above the last one accepted is dropped.
Fresh(t) == t.seq > feed.last

Reject(t) ==
    /\ ~Fresh(t)
    /\ GoOn(0)
    /\ UNCHANGED feedVars

\* The raw tick cannot be recorded: nothing has happened yet.
RecordRaises(t) ==
    /\ Fresh(t)
    /\ Raise
    /\ UNCHANGED feedVars

Full(buffer) == Len(buffer) >= BarSize

\* TickAggregator.add_ticks of one tick: the buffer of a bar it completes is
\* consumed whether or not append_bar raises.
Aggregated(t) ==
    /\ Fresh(t)
    /\ seen' = Append(seen, t.seq)
    /\ taken' = taken \union {t.tick}
    /\ UNCHANGED born

Buffer(t) ==
    LET buffer == Append(feed.buffer, t.seq)
    IN /\ Aggregated(t)
       /\ ~Full(buffer)
       /\ feed' = [last |-> t.seq, buffer |-> buffer]
       /\ GoOn(0)
       /\ UNCHANGED <<rows, counter, broken>>

\* Mutant of Pruned: the row at the edge of the window goes too.
PrunedTooFar(r, n) ==
    IF n % Every = 0
    THEN [i \in {j \in DOMAIN r : j + Keep > n} |-> r[i]]
    ELSE r

\* append_bar: insert, advance the counter, prune every so many rows.
Pruned(r, n) ==
    IF n % Every = 0
    THEN [i \in {j \in DOMAIN r : j + Keep >= n} |-> r[i]]
    ELSE r

Inserted(buffer) ==
    [i \in DOMAIN rows \union {counter} |->
        IF i = counter THEN buffer ELSE rows[i]]

Store(t) ==
    LET buffer == Append(feed.buffer, t.seq)
    IN /\ Aggregated(t)
       /\ Full(buffer)
       /\ feed' = [last |-> t.seq, buffer |-> <<>>]
       /\ rows' = Pruned(Inserted(buffer), counter + 1)
       /\ counter' = counter + 1
       /\ GoOn(1)
       /\ UNCHANGED broken

\* The insert raises, or the prune after it: the number of the tick is not
\* recorded, though it was aggregated.
StoreRaises(t) ==
    LET buffer == Append(feed.buffer, t.seq)
    IN /\ Aggregated(t)
       /\ Full(buffer)
       /\ feed' = [feed EXCEPT !.buffer = <<>>]
       /\ broken' = broken \union {Len(seen) + 1}
       /\ \/ UNCHANGED <<rows, counter>>
          \/ /\ (counter + 1) % Every = 0
             /\ rows' = Inserted(buffer)
             /\ counter' = counter + 1
       /\ Raise

\* _ingest_tick_internal for the next tick of the request.
Ingest ==
    /\ serving.ticks # <<>>
    /\ LET t == Head(serving.ticks)
       IN \/ Reject(t) \/ RecordRaises(t)
          \/ Buffer(t) \/ Store(t) \/ StoreRaises(t)
    /\ UNCHANGED <<queueVars, clientVars, wire>>

Serve == Ingest \/ \E r \in wire : Accept(r)

\* The tracker and the buffer are gone, the counters come back from the
\* table, and the connections of the requests under way break.
Restart ==
    /\ faults < MaxFaults
    /\ faults' = faults + 1
    /\ feed' = NewFeed /\ seen' = <<>> /\ broken' = {}
    /\ counter' = IF DOMAIN rows = {} THEN 0 ELSE Max(DOMAIN rows) + 1
    /\ born' = counter'
    /\ wire' = {} /\ serving' = Free
    /\ UNCHANGED <<queueVars, clientVars, answer, rows, taken>>

-----------------------------------------------------------------------------
Strategy == Enqueue \/ Drain \/ Drained \/ Stop
Worker ==
    \/ Take \/ NumberTick \/ Batched \/ BatchAnswered \/ SingleAnswered
    \/ CallFails \/ TimesOut \/ Predicted \/ PredictThrows
    \/ Interrupted \/ DrainAll \/ FinalFlush

Next == Strategy \/ Worker \/ Serve \/ Restart

\* The threads run, and the server takes the request the worker awaits and
\* handles what it has taken.
Spec ==
    /\ Init /\ [][Next]_vars
    /\ WF_vars(Worker) /\ WF_vars(Drained)
    /\ WF_vars(Ingest)
    /\ WF_vars(Waiting /\ \E r \in wire : r.id = worker.id /\ Accept(r))

-----------------------------------------------------------------------------
Payload == IF Waiting
           THEN SubSeq(worker.payload, worker.done + 1, Len(worker.payload))
           ELSE <<>>

\* Whatever fails, is late or is retried: a tick the strategy has queued is
\* still in the worker's hands, or a server has aggregated it, or it was in a
\* batch that an exception or the stop broke off - so a response the worker
\* takes for a success always stands for an ingested tick.
TicksAccounted ==
    /\ 1 .. arrived =
           Range(queue) \union Range(worker.batch) \union Ticks(worker.pending)
           \union Ticks(Payload) \union taken \union dropped
    /\ dropped # {} => faults > 0 \/ interrupted

\* Within one life of the server no tick is aggregated twice or out of order,
\* though every request may be repeated and arrive late, but at a tick whose
\* bar could not be appended: its number is not recorded, so that it, and what
\* the worker had given up before it, may still be ingested.  The bars stored
\* are consecutive blocks of what is aggregated, and the buffer is the block
\* begun: a failed append loses its bar and shifts no other.
BarsAreBlocks ==
    LET block(k) == SubSeq(seen, k * BarSize + 1, (k + 1) * BarSize)
        blocks == {block(k) : k \in {n \in 0 .. Len(seen) :
                                         (n + 1) * BarSize <= Len(seen)}}
    IN /\ \A i, j \in DOMAIN seen :
              i < j => seen[i] < seen[j] \/ i \in broken
       /\ \A i \in broken : i % BarSize = 0
       /\ feed.buffer = SubSeq(seen, Len(seen) + 1 - (Len(seen) % BarSize),
                               Len(seen))
       /\ \A i \in DOMAIN rows : i >= born => rows[i] \in blocks

\* The newest rows are always there, numbered without a gap, and the table
\* stays bounded: restarts and a failed prune included.
RowsKeepWindow ==
    /\ \A i \in 0 .. counter - 1 : i + Keep >= counter => i \in DOMAIN rows
    /\ \A i \in DOMAIN rows : i < counter
    /\ Cardinality(DOMAIN rows) < Keep + Every * (1 + faults)

\* drain() returns: whatever fails, the worker marks every event of every
\* batch as processed.
DrainReturns == draining ~> ~draining
=============================================================================
