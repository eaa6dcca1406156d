------------------------------ MODULE Readiness ------------------------------
(***************************************************************************)
(* How a symbol becomes tradable: the startup thread that loads the        *)
(* warm-up ticks, publishes them to /backfill, bridges the broker's        *)
(* history up to now and hands the client sequence number over to the      *)
(* worker (LiveReadinessCoordinator.initializeSymbol, BrokerBridgeLoader), *)
(* the live ticks and heartbeats that refresh and publish the state, retry *)
(* a failed start and let entries pass (SymbolReadinessRegistry), the      *)
(* worker that numbers live ticks meanwhile, and the server's filter.      *)
(*                                                                         *)
(* One symbol; symbols share only the heartbeat.  A tick is its place in   *)
(* the broker's stream after the last warm-up tick, and is stale once the  *)
(* freshness threshold has passed it; the broker's history has it no later *)
(* than onTick, which gets it before it is stale.  The worker posts tick   *)
(* by tick and without failures (module TickFeed has those), and the       *)
(* server stays up.                                                        *)
(***************************************************************************)
EXTENDS Naturals, SequencesExt

CONSTANTS Gap,       \* ticks between the warm-up and the start
          MaxTicks,  \* bound: ticks of the broker's stream
          Need,      \* ticks to bridge until WARMUP_BAR_COUNT_THRESHOLD is met
          Warm,      \* sizes a warm-up may have
          MaxFaults  \* bound on failed calls

ASSUME ReadinessConstants ==
    /\ {Gap, MaxTicks, Need, MaxFaults} \subseteq Nat /\ Gap <= MaxTicks
    /\ Warm \subseteq Nat /\ Warm # {}
    /\ \A w \in Warm : w > MaxTicks

VARIABLES
    arrived,       \* ticks of the broker's stream so far
    heard, old,    \* how many of them onTick was called with, and are stale
    entry,         \* the registry's entry: state, last tick, reason, timedOut
    inFlight,      \* the symbol is in initializationInFlightSymbols
    init,          \* the startup thread: its step and locals
    seq,           \* nextClientTickSeqBySymbol of the bridge
    allowed,       \* entriesAllowed of the symbol in the core
    queue, number, \* the worker: its ticks, nextClientTickSeq
    read,          \* the counter the worker is incrementing, 0 if it is not
    feed,          \* the server's tracker: last number, newest tick
    faults,
    warmed,    \* history: the size of the first warm-up, 0 before
    resized,   \* history: a retry loaded a warm-up of another size
    warmups,   \* history: how often the server has counted the warm-up
    bridged,   \* history: ticks taken from the bridge
    again,     \* history: ticks taken from the bridge more than once
    skipped,   \* history: stale ticks nobody had counted when it was READY
    ahead,     \* history: worker's ticks taken before anything of the bridge
    during,    \* history: worker's ticks taken while it was bridging
    late,      \* history: worker's ticks taken after it was seeded
    denied,    \* history: worker's ticks refused after the final seed
    halfway,   \* history: a bridge that was not complete has seeded the worker
    seeded,    \* history: a ready bridge has seeded the worker
    disturbed  \* history: a seed fell behind the worker's counter, or was lost

market == <<arrived, heard, old>>
client == <<queue, number, read>>
startup == <<inFlight, init, seq>>
sizes == <<warmed, resized>>
bridge == <<bridged, again>>
own == <<ahead, during, late, denied>>
seeds == <<halfway, seeded, disturbed>>
histories == <<sizes, warmups, bridge, skipped, own, seeds>>
vars == <<market, entry, startup, allowed, client, feed, faults, histories>>

-----------------------------------------------------------------------------
State == {"COLD", "PARQUET_WARMING", "BRIDGING", "READY", "STALE_PAUSED",
          "ERROR_PAUSED"}
Step == {"off", "load", "backfill", "post", "status", "check", "seed",
         "report", "caught", "closing", "leave"}

\* cursor: the last tick bridged; last: the lastClientTickSeq of the result (0
\* is null); ready: the bridge was complete; expired: its deadline is over;
\* why: the prefixes of the message of a wrapped exception.
Off == [at |-> "off", warm |-> 0, cursor |-> 0, last |-> 0, ready |-> FALSE,
        expired |-> FALSE, why |-> <<>>]

\* initialize(): everything is published once, which forbids entries, and the
\* initialization is submitted.
Init ==
    /\ arrived = Gap /\ heard = Gap /\ old \in 0 .. Gap
    /\ entry = [state |-> "COLD", last |-> 0, reason |-> <<>>, timedOut |-> FALSE]
    /\ inFlight = TRUE /\ init = [Off EXCEPT !.at = "load"] /\ seq = 1
    /\ allowed = FALSE
    /\ queue = <<>> /\ number = 1 /\ read = 0
    /\ feed = [last |-> 0, tick |-> 0] /\ faults = 0
    /\ warmed = 0 /\ resized = FALSE /\ warmups = 0
    /\ bridged = {} /\ again = {} /\ skipped = {}
    /\ ahead = {} /\ during = {} /\ late = {} /\ denied = {}
    /\ halfway = FALSE /\ seeded = FALSE /\ disturbed = FALSE

Fault == faults < MaxFaults /\ faults' = faults + 1

-----------------------------------------------------------------------------
(* The registry. *)

Fresh(t) == t = 0 \/ t > old

\* Mutant of Refreshed: a stale feed is never noticed.
RefreshedNever(e) == e

\* refreshFreshness.
Refreshed(e) ==
    CASE e.state = "READY" /\ ~Fresh(e.last) -> [e EXCEPT !.state = "STALE_PAUSED"]
      [] e.state = "STALE_PAUSED" /\ Fresh(e.last) -> [e EXCEPT !.state = "READY"]
      [] OTHER -> e

\* Mutant of Tradable: whatever has not failed may trade.
TradableUnlessFailed(e) == Refreshed(e).state # "ERROR_PAUSED"

\* publishSnapshot: snapshotAt derives the state once more, and the core takes
\* entriesAllowed over before the file is written.
Tradable(e) == Refreshed(e).state = "READY"

MarkErrorPaused(e, reason) ==
    [e EXCEPT !.state = "ERROR_PAUSED", !.reason = reason]

-----------------------------------------------------------------------------
(* The strategy thread and the heartbeat. *)

\* maybeRetryBridgeInitialization: the reason must begin with the bridge's words.
Retriable(e) ==
    /\ e.state = "ERROR_PAUSED" /\ ~e.timedOut
    /\ e.reason # <<>> /\ Head(e.reason) = "bridge"

\* The broker has another tick.
Arrive ==
    /\ arrived < MaxTicks
    /\ arrived' = arrived + 1
    /\ UNCHANGED <<heard, old, entry, startup, allowed, client, feed, faults,
                   histories>>

\* onTick: recordLiveTick and onHeartbeat, then the worker's queue; a status
\* file that cannot be written takes the tick with it.
LiveTick ==
    /\ heard < arrived
    /\ heard' = heard + 1
    /\ entry' = Refreshed([entry EXCEPT !.last = heard + 1])
    /\ IF Retriable(entry) /\ ~inFlight
       THEN inFlight' = TRUE /\ init' = [Off EXCEPT !.at = "load"]
       ELSE UNCHANGED <<inFlight, init>>
    /\ allowed' = Tradable(entry')
    /\ \/ queue' = Append(queue, heard + 1) /\ UNCHANGED faults
       \/ Fault /\ UNCHANGED queue
    /\ UNCHANGED <<arrived, old, seq, number, read, feed, histories>>

Heartbeat ==
    /\ entry' = Refreshed(entry)
    /\ allowed' = Tradable(entry')
    /\ UNCHANGED <<market, startup, client, feed, faults, histories>>

\* No tick for longer than the freshness threshold.
Quiet ==
    /\ old < heard
    /\ old' \in old + 1 .. heard
    /\ UNCHANGED <<arrived, heard, entry, startup, allowed, client, feed, faults,
                   histories>>

-----------------------------------------------------------------------------
(* The server takes what is numbered above the last one, and the worker. *)

\* Mutant of Taken: the filter accepts the last number again.
TakenAgain(s) == s >= feed.last

Taken(s) == s > feed.last

\* nextClientTickSeq++ is a read and a write of an unsynchronized field.
ReadNumber ==
    /\ queue # <<>> /\ read = 0
    /\ read' = number
    /\ UNCHANGED <<market, entry, startup, allowed, queue, number, feed, faults,
                   histories>>

\* Where a tick of the worker that the server takes belongs.
WorkerCounted(t) ==
    LET to(phase, set) == IF phase THEN set \union {t} ELSE set
        before == ~seeded /\ ~halfway
    IN /\ ahead' = to(before /\ bridged = {}, ahead)
       /\ during' = to(before /\ bridged # {}, during)
       /\ late' = to(~before, late)

PostTick ==
    /\ read # 0
    /\ number' = read + 1 /\ read' = 0 /\ queue' = Tail(queue)
    /\ IF Taken(read)
       THEN /\ feed' = [last |-> read, tick |-> Max({feed.tick, Head(queue)})]
            /\ WorkerCounted(Head(queue)) /\ UNCHANGED denied
       ELSE /\ denied' = IF seeded THEN denied \union {Head(queue)} ELSE denied
            /\ UNCHANGED <<feed, ahead, during, late>>
    /\ disturbed' = (disturbed \/ (seeded /\ number # read))
    /\ UNCHANGED <<market, entry, startup, allowed, faults, sizes, warmups,
                   bridge, skipped, halfway, seeded>>

-----------------------------------------------------------------------------
(* The startup thread, initializeSymbol. *)

At(step) == init.at = step
Goto(step) == init' = [init EXCEPT !.at = step]

\* publishSnapshot, forced, with the entry e, and on to the thread's next step,
\* unless the status file cannot be written.
Publish(e, next) ==
    /\ entry' = e
    /\ allowed' = Tradable(e)
    /\ \/ init' = next /\ UNCHANGED faults
       \/ init' = [next EXCEPT !.at = "caught"] /\ Fault

\* HistoricalWarmupLoader.load and markParquetWarming.  The number of ticks
\* depends on where the lookback begins, that is, on the time.
Load ==
    /\ At("load")
    /\ \/ \E w \in Warm :
            /\ Publish([entry EXCEPT !.state = "PARQUET_WARMING",
                                     !.reason = <<>>, !.timedOut = FALSE],
                       [init EXCEPT !.at = "backfill", !.warm = w])
            /\ warmed' = IF warmed = 0 THEN w ELSE warmed
            /\ resized' = (resized \/ warmed \notin {0, w})
       \/ Goto("caught") /\ Fault /\ UNCHANGED <<entry, allowed, warmed, resized>>
    /\ UNCHANGED <<market, inFlight, seq, client, feed, warmups, bridge, skipped,
                   own, seeds>>

\* POST /backfill, which passes the feed's filter by: every call aggregates
\* the whole warm-up, and so may one that has lost its response.  Then the seed
\* of the bridge and markBridging.  A failure is wrapped in the bridge's words.
Backfill ==
    /\ At("backfill")
    /\ \/ /\ Publish([entry EXCEPT !.state = "BRIDGING", !.reason = <<>>,
                                   !.timedOut = FALSE],
                     [init EXCEPT !.at = "post"])
          /\ seq' = init.warm + 1
          /\ warmups' = warmups + 1
       \/ /\ init' = [init EXCEPT !.at = "caught", !.why = <<"bridge">>] /\ Fault
          /\ warmups' \in {warmups, warmups + 1}
          /\ UNCHANGED <<seq, entry, allowed>>
    /\ UNCHANGED <<market, inFlight, client, feed, sizes, bridge, skipped, own,
                   seeds>>

\* A call of the bridge failed: 599 (no response) polls on until the deadline,
\* anything else pauses the symbol and ends the bridge.
CallFails ==
    /\ Fault
    /\ \/ Goto("check") /\ UNCHANGED entry
       \/ Goto("seed") /\ entry' = MarkErrorPaused(entry, <<"bridge">>)

\* The number of a tick in the next batch; the ticks up to t the server takes.
NumberOf(t) == seq + (t - init.cursor) - 1
Accepted(t) == {u \in init.cursor + 1 .. t : Taken(NumberOf(u))}

ServerTakes(t) ==
    /\ feed' = [last |-> Max({feed.last} \union {NumberOf(u) : u \in Accepted(t)}),
                tick |-> Max({feed.tick} \union Accepted(t))]
    /\ bridged' = bridged \union Accepted(t)
    /\ again' = again \union (Accepted(t) \intersect bridged)

\* One window of the broker's history, up to now or less, is posted; an empty
\* one is not.  When the response is missing the server may have taken some of
\* the ticks, and the same numbers are used again.
Post ==
    /\ At("post")
    /\ \E t \in init.cursor .. arrived :
         \/ /\ t = init.cursor
            /\ Goto("status") /\ UNCHANGED <<entry, seq, feed, bridge, faults>>
         \/ /\ t > init.cursor
            /\ ServerTakes(t)
            /\ seq' = NumberOf(t) + 1
            /\ init' = [init EXCEPT !.at = "status", !.cursor = t,
                                    !.last = feed'.last]
            /\ entry' = [entry EXCEPT !.last = t]
            /\ UNCHANGED faults
         \/ ServerTakes(t) /\ CallFails /\ UNCHANGED seq
    /\ UNCHANGED <<market, inFlight, allowed, client, sizes, warmups, skipped, own,
                   seeds>>

Counted == bridged \union ahead \union during \union late

\* feedStatus, and markReady when the bars suffice and the feed is fresh.
Status ==
    /\ At("status")
    /\ \/ LET known == [entry EXCEPT !.last = IF feed.tick = 0 THEN @ ELSE feed.tick]
          IN /\ IF init.cursor >= Need /\ feed.tick > old
                THEN /\ entry' = [known EXCEPT !.state = "READY", !.reason = <<>>]
                     /\ init' = [init EXCEPT !.at = "seed", !.last = feed.last,
                                             !.ready = TRUE]
                     /\ skipped' = (1 .. old) \ Counted
                ELSE entry' = known /\ Goto("check") /\ UNCHANGED skipped
             /\ UNCHANGED faults
       \/ CallFails /\ UNCHANGED skipped
    /\ UNCHANGED <<market, inFlight, seq, allowed, client, feed, sizes, warmups,
                   bridge, own, seeds>>

Expire ==
    /\ init.at \in {"post", "status", "check"} /\ ~init.expired
    /\ init' = [init EXCEPT !.expired = TRUE]
    /\ UNCHANGED <<market, entry, inFlight, seq, allowed, client, feed, faults,
                   histories>>

\* The end of a round of the bridge's loop.
Check ==
    /\ At("check")
    /\ IF init.expired
       THEN /\ entry' = [MarkErrorPaused(entry, <<"timeout">>) EXCEPT
                             !.timedOut = TRUE]
            /\ Goto("seed")
       ELSE Goto("post") /\ UNCHANGED entry
    /\ UNCHANGED <<market, inFlight, seq, allowed, client, feed, faults, histories>>

\* core.seedClientTickSeq with the number of the result, if it has one.
Seed ==
    /\ At("seed")
    /\ Goto("report")
    /\ IF init.last = 0
       THEN UNCHANGED <<number, seeds>>
       ELSE /\ number' = init.last + 1
            /\ seeded' = (seeded \/ init.ready)
            /\ halfway' = (halfway \/ ~init.ready)
            /\ disturbed' = (disturbed \/ (init.ready /\ number > init.last + 1))
    /\ UNCHANGED <<market, entry, inFlight, seq, allowed, queue, read, feed,
                   faults, sizes, warmups, bridge, skipped, own>>

Report ==
    /\ At("report")
    /\ Publish(entry, [init EXCEPT !.at = "leave"])
    /\ UNCHANGED <<market, inFlight, seq, client, feed, histories>>

\* The outer handler puts its own words in front of the message and publishes;
\* whether the file is written makes no difference any more.
Caught ==
    /\ At("caught")
    /\ entry' = MarkErrorPaused(entry, <<"startup">> \o init.why)
    /\ Goto("closing")
    /\ UNCHANGED <<market, inFlight, seq, allowed, client, feed, faults, histories>>

Closing ==
    /\ At("closing")
    /\ allowed' = Tradable(entry)
    /\ Goto("leave")
    /\ UNCHANGED <<market, entry, inFlight, seq, client, feed, faults, histories>>

Leave ==
    /\ At("leave")
    /\ inFlight' = FALSE /\ init' = Off
    /\ UNCHANGED <<market, entry, seq, allowed, client, feed, faults, histories>>

-----------------------------------------------------------------------------
Worker == ReadNumber \/ PostTick
Startup == Load \/ Backfill \/ Post \/ Status \/ Check \/ Seed \/ Report
              \/ Caught \/ Closing \/ Leave

Next == Arrive \/ LiveTick \/ Heartbeat \/ Quiet \/ Worker \/ Startup \/ Expire

\* The threads run, the deadline passes, and ticks arrive up to the bound.
Spec ==
    /\ Init /\ [][Next]_vars
    /\ WF_vars(Startup) /\ WF_vars(Expire) /\ WF_vars(Heartbeat)
    /\ WF_vars(Arrive) /\ WF_vars(LiveTick)

-----------------------------------------------------------------------------
\* Types; the startup thread has work exactly while its symbol is in flight.
TypeOK ==
    /\ arrived \in 0 .. MaxTicks /\ heard \in 0 .. arrived /\ old \in 0 .. heard
    /\ entry.state \in State /\ entry.last \in 0 .. arrived
    /\ entry.timedOut \in BOOLEAN
    /\ entry.reason \in {<<>>, <<"bridge">>, <<"timeout">>, <<"startup">>,
                         <<"startup", "bridge">>}
    /\ init.at \in Step /\ inFlight = (init.at # "off")
    /\ init.cursor \in 0 .. arrived /\ seq \in Nat
    /\ queue \in Seq(1 .. MaxTicks) /\ {number, read} \subseteq Nat
    /\ (read # 0 => queue # <<>>)
    /\ feed.last \in Nat /\ feed.tick \in 0 .. arrived

\* Entries pass only when a bridge was complete and the worker has its number
\* or is about to: live ticks, heartbeats and the startup thread publish in any
\* order, and none of them lets a symbol trade that is starting or has failed,
\* but for the moment between a failure and its publication.
EntriesFollowReadiness ==
    allowed => \/ /\ entry.state \in {"READY", "STALE_PAUSED"}
                  /\ seeded \/ At("seed")
               \/ init.at \in {"caught", "closing"}

\* What the server counts more than once.  The warm-up: once more by a retry,
\* at most once for each failed call.  A tick of the bridge: twice by the bridge
\* only when a retry's warm-up had another size, and once more by the worker
\* only when the worker posted it before anything of the bridge was taken, or
\* after a bridge had seeded it; in between none of the worker's is taken.
RepeatsNamed ==
    /\ warmups <= faults + 1
    /\ again # {} => resized
    /\ bridged \intersect (ahead \union during \union late) \subseteq ahead \union late

\* What it never counts.  The bridge leaves no hole: unless a retry's warm-up
\* had another size or a bridge that was not complete seeded the worker, all
\* ticks it went past were taken.  Then a tick that is stale when the symbol is
\* READY was counted, unless a tick the worker posted ahead of the bridge made
\* the feed look fresh.  After the final seed the server refuses no tick of the
\* worker, unless that seed set the worker back or was lost.  What is left are
\* ticks still fresh at READY and later than the bridge's last window, which
\* the worker posted before the seed and the server refused, or never got.
LossesNamed ==
    /\ ~resized /\ ~halfway =>
           \A u \in bridged \union {init.cursor} : 1 .. u \subseteq bridged
    /\ skipped # {} => ahead # {} \/ halfway \/ resized
    /\ denied # {} => disturbed

\* Warm-up, bridge and worker hand the stream over from one to the next, and
\* the server repeats and loses no tick of it but in the named cases.
HandoverExact == RepeatsNamed /\ LossesNamed

\* A symbol the bridge has paused is started again by the next live tick; a
\* start comes to its end; and a stale feed stops entries.
PausesAndStartsEnd ==
    /\ (Retriable(entry) /\ ~inFlight /\ heard < MaxTicks) ~> ~Retriable(entry)
    /\ inFlight ~> ~inFlight
    /\ (allowed /\ ~Fresh(entry.last)) ~> (~allowed \/ Fresh(entry.last))

\* "transient failures (e.g. 503 during server startup) are retryable, same as
\* broker bridge errors": so says initializeSymbol of the backfill.
BackfillFailuresRetried ==
    LET failed == entry.state = "ERROR_PAUSED" /\ "bridge" \in Range(entry.reason)
    IN (failed /\ ~inFlight /\ heard < MaxTicks) ~> ~failed
=============================================================================
