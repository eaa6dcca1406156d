---------------------------- MODULE ReadinessProofs ----------------------------
(* Proofs about Readiness.tla. *)
EXTENDS Readiness, SequenceTheorems, TLAPS

Reasons == {<<>>, <<"bridge">>, <<"timeout">>, <<"startup">>,
            <<"startup", "bridge">>}
Why == {<<>>, <<"bridge">>}

Types ==
    /\ arrived \in 0 .. MaxTicks /\ heard \in 0 .. arrived /\ old \in 0 .. heard
    /\ entry \in [state : State, last : 0 .. arrived, reason : Reasons,
                  timedOut : BOOLEAN]
    /\ init \in [at : Step, warm : Nat, cursor : 0 .. arrived, last : Nat,
                 ready : BOOLEAN, expired : BOOLEAN,
                 why : Why]
    /\ inFlight = (init.at # "off")
    /\ seq \in Nat \ {0} /\ number \in Nat \ {0} /\ read \in Nat
    /\ queue \in Seq(1 .. heard) /\ (read # 0 => queue # <<>>)
    /\ feed \in [last : Nat, tick : 0 .. arrived]
    /\ faults \in Nat /\ warmed \in Nat /\ warmups \in Nat /\ bridged \subseteq Nat
    /\ allowed \in BOOLEAN /\ resized \in BOOLEAN /\ halfway \in BOOLEAN
    /\ seeded \in BOOLEAN /\ disturbed \in BOOLEAN

Started == entry.state \in {"READY", "STALE_PAUSED"}
Bridging == init.at \in {"post", "status", "check"}

\* What the step of the startup thread says of the registry's entry.  After the
\* final seed nothing starts the symbol again.
StepShape ==
    /\ At("load") => entry.state \in {"COLD", "ERROR_PAUSED"}
    /\ At("backfill") => entry.state = "PARQUET_WARMING"
    /\ Bridging => entry.state = "BRIDGING"
    /\ Started => seeded \/ (At("seed") /\ init.ready)
    /\ At("seed") /\ init.ready => Started /\ init.last > 0
    /\ init.ready => init.at \in {"seed", "report", "caught", "closing", "leave"}
    /\ seeded => /\ init.at \in {"report", "caught", "closing", "leave", "off"}
                 /\ Started \/ entry.state = "ERROR_PAUSED"
                 /\ ~Retriable(entry)
    /\ feed.tick > 0 => feed.last > 0

\* While warm-ups have one size, a tick of the bridge has one number; it is
\* always above those the worker gives before it is seeded.
NumberShape ==
    /\ init.at \in {"load", "backfill"} => init.cursor = 0
    /\ At("backfill") \/ Bridging => warmed > 0 /\ init.warm \in Warm
    /\ Bridging => seq = init.warm + 1 + init.cursor
    /\ bridged # {} => warmed > 0 /\ feed.last > MaxTicks
    /\ ~resized =>
         /\ At("backfill") \/ Bridging => init.warm = warmed
         /\ \A u \in bridged : feed.last >= warmed + u
         /\ again = {}

\* A bridge no seed has disturbed takes the stream from its beginning on, and
\* the server's last number is that of the last tick of it.
BridgeShape ==
    ~resized /\ ~halfway =>
        /\ \A u \in bridged \union {init.cursor} : 1 .. u \subseteq bridged
        /\ ~seeded /\ bridged # {} => feed.last - warmed \in bridged

\* Before the first seed the worker's numbers count the ticks it has had.
WorkerShape ==
    /\ during = {}
    /\ ~seeded /\ ~halfway =>
         /\ number + Len(queue) <= heard + 1
         /\ read # 0 => read = number
         /\ bridged = {} => feed.last <= MaxTicks
         /\ ahead = {} /\ feed.tick > 0 => feed.tick \in bridged

\* A start that may come, or has not reached the backfill, has been paid for by
\* a failed call.
WarmupShape ==
    /\ warmups <= faults + 1
    /\ At("load") \/ At("backfill") \/ Retriable(entry) => warmups <= faults

\* The worker's counter from the last look of the bridge at the feed on.
HandShape ==
    /\ seeded /\ ~disturbed => number > feed.last
    /\ At("seed") /\ init.ready =>
         /\ init.last <= feed.last
         /\ feed.last > init.last =>
              number > feed.last /\ (read # 0 => read = number)
    /\ denied # {} => disturbed
    /\ skipped # {} => ahead # {} \/ halfway \/ resized

IInv == Types /\ StepShape /\ EntriesFollowReadiness /\ NumberShape /\ BridgeShape
          /\ WorkerShape /\ WarmupShape /\ HandShape

USE DEF market, client, startup, sizes, bridge, own, seeds, histories

LEMMA Numbers ==
    IInv => /\ MaxTicks \in Nat /\ arrived \in Nat /\ arrived <= MaxTicks
            /\ heard \in Nat /\ heard <= arrived /\ old \in 0 .. heard
            /\ read \in Nat /\ number \in Nat \ {0} /\ faults \in Nat /\ seq \in Nat
            /\ warmups \in Nat /\ warmed \in Nat
BY ReadinessConstants DEF IInv, Types

\* A number of warm-ups stays within a number of failures that has not shrunk.
LEMMA Counting ==
    ASSUME NEW w \in Nat, NEW f \in Nat, NEW g \in Nat, g >= f
    PROVE  /\ w <= f + 1 => w <= g + 1
           /\ w <= f => w <= g /\ w <= g + 1
           /\ w <= f + 1 /\ g > f => w <= g
OBVIOUS

LEMMA WarmSizes == \A w \in Warm : w \in Nat /\ w > MaxTicks /\ w > 0
BY ReadinessConstants

LEMMA Records ==
    IInv => /\ entry \in [state : State, last : 0 .. arrived,
                          reason : Reasons, timedOut : BOOLEAN]
            /\ init \in [at : Step, warm : Nat, cursor : 0 .. arrived,
                         last : Nat, ready : BOOLEAN, expired : BOOLEAN,
                         why : Why]
            /\ feed \in [last : Nat, tick : 0 .. arrived]
BY DEF IInv, Types

LEMMA Queue ==
    IInv => queue \in Seq(1 .. heard) /\ (read # 0 => queue # <<>>)
BY DEF IInv, Types

LEMMA InitIInv == Init => IInv
<1> SUFFICES ASSUME Init PROVE IInv
  OBVIOUS
<1> USE ReadinessConstants DEF Init, Off
<1>1. Types
  <2>1. /\ arrived \in 0 .. MaxTicks /\ heard \in 0 .. arrived /\ old \in 0 .. heard
        /\ seq \in Nat \ {0} /\ number \in Nat \ {0} /\ read \in Nat
        /\ faults \in Nat /\ warmed \in Nat /\ warmups \in Nat
        /\ bridged \subseteq Nat
    OBVIOUS
  <2>2. entry \in [state : State, last : 0 .. arrived, reason : Reasons,
                   timedOut : BOOLEAN]
    BY <2>1 DEF State, Reasons
  <2>3. init \in [at : Step, warm : Nat, cursor : 0 .. arrived, last : Nat,
                  ready : BOOLEAN, expired : BOOLEAN,
                  why : Why]
    <3>1. init = [at |-> "load", warm |-> 0, cursor |-> 0, last |-> 0,
                  ready |-> FALSE, expired |-> FALSE, why |-> <<>>]
      OBVIOUS
    <3>2. <<>> \in Why /\ "load" \in Step
      BY DEF Why, Step
    <3>3. 0 \in 0 .. arrived /\ 0 \in Nat
      BY <2>1
    <3> HIDE DEF Init
    <3> QED BY <3>1, <3>2, <3>3
  <2>4. feed \in [last : Nat, tick : 0 .. arrived]
    BY <2>1
  <2>5. queue \in Seq(1 .. heard)
    OBVIOUS
  <2> QED BY <2>1, <2>2, <2>3, <2>4, <2>5 DEF Types
<1>2. StepShape /\ EntriesFollowReadiness /\ NumberShape
  BY DEF StepShape, Started, Bridging, At, EntriesFollowReadiness, NumberShape
<1>3. HandShape /\ WarmupShape
  BY DEF HandShape, WarmupShape, At, Retriable
<1>4. BridgeShape
  BY DEF BridgeShape
<1>5. WorkerShape
  <2>1. Len(queue) = 0 /\ heard \in Nat /\ heard = Gap
    OBVIOUS
  <2> QED BY <2>1 DEF WorkerShape
<1> QED BY <1>1, <1>2, <1>3, <1>4, <1>5 DEF IInv

LEMMA HeartbeatIInv == ASSUME IInv, Heartbeat PROVE IInv'
<1> USE DEF IInv, Heartbeat, Refreshed
<1>1. Types'
  BY DEF Types, State, Tradable
<1>2. StepShape'
  BY DEF Types, StepShape, Started, Bridging, At, Retriable
<1>3. EntriesFollowReadiness'
  BY DEF Types, StepShape, Started, At, EntriesFollowReadiness, Tradable
<1>4. NumberShape' /\ HandShape'
  BY DEF NumberShape, HandShape, Bridging, At
<1>5. BridgeShape' /\ WorkerShape'
  BY DEF BridgeShape, WorkerShape
<1>6. WarmupShape'
  BY DEF Types, WarmupShape, At, Retriable
<1> QED BY <1>1, <1>2, <1>3, <1>4, <1>5, <1>6

LEMMA ArriveIInv == ASSUME IInv, Arrive PROVE IInv'
<1>1. /\ arrived' = arrived + 1 /\ arrived < MaxTicks
      /\ UNCHANGED <<heard, old, entry, startup, allowed, client, feed, faults,
                     histories>>
  BY DEF Arrive
<1>2. arrived \in Nat /\ 0 .. arrived \subseteq 0 .. arrived'
  BY <1>1, Numbers
<1>3. arrived' \in 0 .. MaxTicks
  BY <1>1, <1>2, Numbers
<1>4. Types'
  BY <1>1, <1>2, <1>3 DEF IInv, Types
<1>5. StepShape' /\ EntriesFollowReadiness' /\ NumberShape' /\ HandShape'
  BY <1>1 DEF IInv, StepShape, Started, Bridging, At, Retriable,
              EntriesFollowReadiness, NumberShape, HandShape
<1>6. BridgeShape' /\ WorkerShape' /\ WarmupShape'
  BY <1>1 DEF IInv, BridgeShape, WorkerShape, WarmupShape, At, Retriable
<1> QED BY <1>4, <1>5, <1>6 DEF IInv

LEMMA QuietIInv == ASSUME IInv, Quiet PROVE IInv'
<1>1. /\ old' \in old + 1 .. heard
      /\ UNCHANGED <<arrived, heard, entry, startup, allowed, client, feed, faults,
                     histories>>
  BY DEF Quiet
<1>2. old' \in 0 .. heard'
  BY <1>1, Numbers
<1>3. Types'
  BY <1>1, <1>2 DEF IInv, Types
<1>4. StepShape' /\ EntriesFollowReadiness' /\ NumberShape' /\ HandShape'
  BY <1>1 DEF IInv, StepShape, Started, Bridging, At, Retriable,
              EntriesFollowReadiness, NumberShape, HandShape
<1>5. BridgeShape' /\ WorkerShape' /\ WarmupShape'
  BY <1>1 DEF IInv, BridgeShape, WorkerShape, WarmupShape, At, Retriable
<1> QED BY <1>3, <1>4, <1>5 DEF IInv

LEMMA ExpireIInv == ASSUME IInv, Expire PROVE IInv'
<1> USE DEF IInv, Expire
<1>1. /\ init'.at = init.at /\ init'.cursor = init.cursor
      /\ init'.warm = init.warm /\ init'.last = init.last
      /\ init'.ready = init.ready
  BY DEF Types
<1>2. Types'
  <2>1. init' \in [at : Step, warm : Nat, cursor : 0 .. arrived, last : Nat,
                   ready : BOOLEAN, expired : BOOLEAN, why : Why]
    BY DEF Types
  <2> QED BY <1>1, <2>1 DEF Types
<1> HIDE DEF Expire
<1>3. UNCHANGED <<market, entry, inFlight, seq, allowed, client, feed, faults,
                  histories>>
  BY DEF Expire
<1>4. StepShape' /\ EntriesFollowReadiness' /\ NumberShape' /\ HandShape'
  BY <1>1, <1>3 DEF StepShape, Started, Bridging, At, Retriable,
                    EntriesFollowReadiness, NumberShape, HandShape
<1>5. BridgeShape' /\ WorkerShape' /\ WarmupShape'
  BY <1>1, <1>3 DEF BridgeShape, WorkerShape, WarmupShape, At, Retriable
<1> QED BY <1>2, <1>4, <1>5

LEMMA LeaveIInv == ASSUME IInv, Leave PROVE IInv'
<1> USE DEF IInv, Leave, Off
<1>1. Types'
  <2>1. init' \in [at : Step, warm : Nat, cursor : 0 .. arrived, last : Nat,
                   ready : BOOLEAN, expired : BOOLEAN, why : Why]
    <3>1. /\ 0 \in 0 .. arrived /\ 0 \in Nat /\ FALSE \in BOOLEAN
          /\ <<>> \in Why /\ "off" \in Step
      BY DEF Why, Step, Types
    <3>2. init' = Off
      OBVIOUS
    <3> HIDE DEF IInv, Leave
    <3> QED BY <3>1, <3>2
  <2>2. init'.at = "off"
    OBVIOUS
  <2> QED BY <2>1, <2>2 DEF Types
<1>2. /\ init'.at = "off" /\ init'.ready = FALSE /\ init'.cursor = 0
      /\ At("leave")
  OBVIOUS
<1>3. UNCHANGED <<market, entry, seq, allowed, client, feed, faults, histories>>
  OBVIOUS
<1> HIDE DEF Leave, Off
<1>4. StepShape' /\ EntriesFollowReadiness' /\ NumberShape' /\ HandShape'
  BY <1>2, <1>3 DEF StepShape, Started, Bridging, At, Retriable,
                    EntriesFollowReadiness, NumberShape, HandShape
<1>5. BridgeShape'
  <2>1. 1 .. init'.cursor = {}
    BY <1>2
  <2> QED BY <1>3, <2>1 DEF BridgeShape
<1>6. WorkerShape' /\ WarmupShape'
  BY <1>2, <1>3 DEF WorkerShape, WarmupShape, At, Retriable
<1> QED BY <1>1, <1>4, <1>5, <1>6

\* A live tick starts a symbol only that the final seed has not reached.
LEMMA LiveTickIInv == ASSUME IInv, LiveTick PROVE IInv'
<1> DEFINE live == [entry EXCEPT !.last = heard + 1]
<1>1. /\ heard < arrived /\ heard' = heard + 1
      /\ entry' = Refreshed(live)
      /\ allowed' = Tradable(entry')
      /\ UNCHANGED <<arrived, old, seq, number, read, feed, histories>>
  BY DEF LiveTick
<1>2. \/ Retriable(entry) /\ ~inFlight /\ inFlight' = TRUE
         /\ init' = [Off EXCEPT !.at = "load"]
      \/ UNCHANGED <<inFlight, init>>
  BY DEF LiveTick
<1>3. \/ queue' = Append(queue, heard + 1) /\ faults' = faults
      \/ faults' = faults + 1 /\ queue' = queue
  BY DEF LiveTick, Fault
<1>4. /\ arrived \in Nat /\ heard \in Nat /\ heard' \in Nat /\ heard' \in 0 .. arrived
      /\ 1 .. heard \subseteq 1 .. heard' /\ 0 .. heard \subseteq 0 .. heard'
      /\ heard + 1 \in 1 .. heard' /\ heard + 1 \in 0 .. arrived
  <2> HIDE DEF live
  <2> QED BY <1>1, Numbers
<1>5. /\ entry' \in [state : State, last : 0 .. arrived', reason : Reasons,
                     timedOut : BOOLEAN]
      /\ entry'.reason = entry.reason /\ entry'.timedOut = entry.timedOut
      /\ \/ entry'.state = entry.state
         \/ Started /\ entry'.state \in {"READY", "STALE_PAUSED"}
  <2>1. /\ live \in [state : State, last : 0 .. arrived', reason : Reasons,
                      timedOut : BOOLEAN]
        /\ live.reason = entry.reason /\ live.timedOut = entry.timedOut
        /\ live.state = entry.state
    <3>1. arrived' = arrived
      BY <1>1
    <3> QED BY <3>1, <1>4, Records
  <2> HIDE DEF live
  <2> QED BY <1>1, <2>1 DEF Refreshed, State, Started
<1>6. /\ queue' \in Seq(1 .. heard') /\ (read' # 0 => queue' # <<>>)
      /\ Len(queue) \in Nat /\ Len(queue') \in Nat /\ Len(queue') <= Len(queue) + 1
  <2>1. queue \in Seq(1 .. heard') /\ (read # 0 => queue # <<>>)
    BY <1>4, Queue, SeqMonotonic
  <2>2. CASE queue' = queue
    BY <1>1, <2>1, <2>2
  <2>3. CASE queue' = Append(queue, heard + 1)
    <3>1. queue' \in Seq(1 .. heard') /\ queue' # <<>>
      BY <1>4, <2>1, <2>3
    <3>2. Len(queue') = Len(queue) + 1 /\ Len(queue) \in Nat
      BY <1>4, <2>1, <2>3
    <3> QED BY <3>1, <3>2
  <2> QED BY <1>3, <2>2, <2>3
<1>7. /\ init' \in [at : Step, warm : Nat, cursor : 0 .. arrived', last : Nat,
                    ready : BOOLEAN, expired : BOOLEAN, why : Why]
      /\ inFlight' = (init'.at # "off")
      /\ \/ init' = init
         \/ /\ Retriable(entry) /\ init.at = "off"
            /\ init'.at = "load" /\ init'.cursor = 0 /\ init'.ready = FALSE
  <2>1. CASE init' = init /\ inFlight' = inFlight
    <3>1. arrived' = arrived
      BY <1>1
    <3>2. inFlight = (init.at # "off")
      BY DEF IInv, Types
    <3> QED BY <2>1, <3>1, <3>2, Records
  <2>2. CASE /\ Retriable(entry) /\ ~inFlight /\ inFlight' = TRUE
             /\ init' = [Off EXCEPT !.at = "load"]
    <3>1. init' = [at |-> "load", warm |-> 0, cursor |-> 0, last |-> 0,
                   ready |-> FALSE, expired |-> FALSE, why |-> <<>>]
      BY <2>2 DEF Off
    <3>2. /\ 0 \in 0 .. arrived' /\ 0 \in Nat /\ FALSE \in BOOLEAN
          /\ <<>> \in Why /\ "load" \in Step
      BY <1>1, <1>4 DEF Why, Step
    <3>3. init' \in [at : Step, warm : Nat, cursor : 0 .. arrived', last : Nat,
                     ready : BOOLEAN, expired : BOOLEAN, why : Why]
      BY <3>1, <3>2
    <3>4. init.at = "off"
      <4> HIDE DEF live
      <4> QED BY <2>2 DEF IInv, Types
    <3>5. init'.at = "load" /\ init'.cursor = 0 /\ init'.ready = FALSE
      BY <3>1
    <3>6. inFlight' = (init'.at # "off")
      BY <2>2, <3>5
    <3> QED BY <2>2, <3>3, <3>4, <3>5, <3>6
  <2> QED BY <1>2, <2>1, <2>2
<1>8. allowed' \in BOOLEAN /\ (allowed' => entry'.state \in {"READY", "STALE_PAUSED"})
  <2>1. entry'.state \in State
    BY <1>5
  <2> QED BY <1>1, <2>1 DEF Tradable, Refreshed, State
<1> HIDE DEF live
<1>9. Types'
  <2>1. feed' \in [last : Nat, tick : 0 .. arrived'] /\ old' \in 0 .. heard'
    BY <1>1, <1>4, Records, Numbers
  <2>2. faults' \in Nat
    BY <1>3, Numbers
  <2> QED BY <1>1, <1>4, <1>5, <1>6, <1>7, <1>8, <2>1, <2>2 DEF IInv, Types
<1>10. Retriable(entry) => entry.state = "ERROR_PAUSED" /\ ~seeded
  BY DEF IInv, StepShape, Retriable
<1>11. ~Retriable(entry) => ~Retriable(entry')
  BY <1>5 DEF Retriable, Started
<1>12. Started' = Started
  BY <1>5 DEF Started
<1>13. StepShape'
  <2>1. CASE init' = init
    BY <2>1, <1>1, <1>5, <1>11, <1>12 DEF IInv, StepShape, Started, Bridging, At
  <2>2. CASE /\ Retriable(entry) /\ init.at = "off"
             /\ init'.at = "load" /\ init'.cursor = 0 /\ init'.ready = FALSE
    BY <2>2, <1>1, <1>5, <1>10, <1>12 DEF IInv, StepShape, Started, Bridging, At
  <2> QED BY <1>7, <2>1, <2>2
<1>14. EntriesFollowReadiness'
  <2>1. CASE init' = init
    BY <2>1, <1>1, <1>8, <1>12 DEF IInv, StepShape, Started, At, EntriesFollowReadiness
  <2>2. CASE Retriable(entry) /\ init'.at = "load"
    BY <2>2, <1>5, <1>8, <1>10 DEF EntriesFollowReadiness, Started
  <2> QED BY <1>7, <2>1, <2>2
<1>15. NumberShape'
  BY <1>1, <1>7 DEF IInv, NumberShape, Bridging, At
<1>16. BridgeShape'
  <2>1. init'.cursor = init.cursor \/ 1 .. init'.cursor = {}
    BY <1>7
  <2> QED BY <1>1, <2>1 DEF IInv, BridgeShape
<1>17. WorkerShape'
  <2>1. number + Len(queue) <= heard + 1 => number + Len(queue') <= heard' + 1
    <3> DEFINE had == Len(queue)
               has == Len(queue')
    <3>1. had \in Nat /\ has \in Nat /\ has <= had + 1
      BY <1>6
    <3> HIDE DEF had, has
    <3>2. number + had <= heard + 1 => number + has <= heard' + 1
      BY <3>1, <1>1, Numbers
    <3> QED BY <3>2 DEF had, has
  <2> QED BY <1>1, <2>1 DEF IInv, WorkerShape
<1>18. WarmupShape'
  <2>1. faults' \in Nat /\ faults' >= faults /\ faults \in Nat /\ warmups \in Nat
    BY <1>3, Numbers
  <2>2. warmups <= faults + 1 /\ (At("load") \/ At("backfill") \/ Retriable(entry)
                                   => warmups <= faults)
    BY DEF IInv, WarmupShape
  <2>3. At("load")' \/ At("backfill")' \/ Retriable(entry')
            => At("load") \/ At("backfill") \/ Retriable(entry)
    BY <1>7, <1>11 DEF At
  <2>4. warmups' = warmups /\ warmups <= faults' + 1
        /\ (warmups <= faults => warmups <= faults')
    BY <1>1, <2>1, <2>2, Counting
  <2>5. Retriable(entry)' <=> Retriable(entry')
    BY DEF Retriable
  <2> QED BY <2>2, <2>3, <2>4, <2>5 DEF WarmupShape
<1>19. HandShape'
  BY <1>1, <1>7 DEF IInv, HandShape, At
<1> QED BY <1>9, <1>13, <1>14, <1>15, <1>16, <1>17, <1>18, <1>19 DEF IInv

LEMMA ReadNumberIInv == ASSUME IInv, ReadNumber PROVE IInv'
<1>1. /\ queue # <<>> /\ read = 0 /\ read' = number
      /\ UNCHANGED <<market, entry, startup, allowed, queue, number, feed, faults,
                     histories>>
  BY DEF ReadNumber
<1>2. Types'
  BY <1>1 DEF IInv, Types
<1>3. StepShape' /\ EntriesFollowReadiness' /\ NumberShape' /\ HandShape'
  BY <1>1 DEF IInv, StepShape, Started, Bridging, At, Retriable,
              EntriesFollowReadiness, NumberShape, HandShape
<1>4. BridgeShape' /\ WorkerShape' /\ WarmupShape'
  BY <1>1 DEF IInv, BridgeShape, WorkerShape, WarmupShape, At, Retriable
<1> QED BY <1>2, <1>3, <1>4 DEF IInv

\* The larger of two numbers, as TLA+'s library finds it.
LEMMA MaxOfTwo ==
    ASSUME NEW a \in Int, NEW b \in Int
    PROVE  Max({a, b}) = IF a >= b THEN a ELSE b
BY DEF Max

\* Before the first seed the worker's number is one of the stream's, so that
\* nothing of it is taken once something of the bridge was.
LEMMA WorkerBehind ==
    ASSUME IInv, read # 0, ~seeded, ~halfway
    PROVE  /\ read = number /\ read <= MaxTicks
           /\ bridged # {} => ~(read > feed.last)
<1>1. /\ number + Len(queue) <= heard + 1 /\ read = number
      /\ (bridged # {} => feed.last > MaxTicks)
  BY DEF IInv, WorkerShape, NumberShape
<1>2. Len(queue) \in Nat /\ Len(queue) > 0
  <2>1. queue \in Seq(1 .. heard) /\ queue # <<>>
    BY Queue
  <2> QED BY <2>1
<1>3. feed.last \in Nat
  BY Records
<1>4. read <= MaxTicks
  BY <1>1, <1>2, Numbers
<1> QED BY <1>1, <1>3, <1>4, Numbers

LEMMA PostTickIInv == ASSUME IInv, PostTick PROVE IInv'
<1> DEFINE before == ~seeded /\ ~halfway
           head == Head(queue)
<1>1. /\ read # 0 /\ number' = read + 1 /\ read' = 0 /\ queue' = Tail(queue)
      /\ disturbed' = (disturbed \/ (seeded /\ number # read))
      /\ UNCHANGED <<arrived, heard, old, entry, inFlight, init, seq, allowed, faults,
                      warmed, resized, warmups, bridged, again, skipped, halfway,
                      seeded>>
  BY DEF PostTick
<1>2. \/ /\ read > feed.last /\ denied' = denied
         /\ feed' = [last |-> read, tick |-> Max({feed.tick, head})]
         /\ ahead' = IF before /\ bridged = {} THEN ahead \union {head} ELSE ahead
         /\ during' = IF before /\ bridged # {} THEN during \union {head} ELSE during
      \/ /\ ~(read > feed.last) /\ feed' = feed
         /\ ahead' = ahead /\ during' = during
         /\ denied' = IF seeded THEN denied \union {head} ELSE denied
  BY DEF PostTick, Taken, WorkerCounted
<1>3. queue \in Seq(1 .. heard) /\ queue # <<>>
  BY <1>1, Queue
<1>4. head \in 1 .. heard /\ Tail(queue) \in Seq(1 .. heard)
      /\ Len(queue) \in Nat /\ Len(Tail(queue)) = Len(queue) - 1
  <2>1. Head(queue) \in 1 .. heard /\ Tail(queue) \in Seq(1 .. heard)
    <3> DEFINE S == 1 .. heard
    <3>1. queue \in Seq(S) /\ queue # <<>>
      BY <1>3
    <3> HIDE DEF S
    <3>2. Head(queue) \in S /\ Tail(queue) \in Seq(S)
      BY <3>1, HeadTailProperties
    <3> QED BY <3>2 DEF S
  <2>2. Len(queue) \in Nat /\ Len(Tail(queue)) = Len(queue) - 1
    BY <1>3
  <2> QED BY <2>1, <2>2 DEF head
<1> HIDE DEF before, head
<1>5. feed.last \in Nat /\ feed.tick \in 0 .. arrived /\ feed.tick \in Nat
      /\ head \in Nat /\ head \in 0 .. arrived /\ read \in Nat
  <2>1. feed.last \in Nat /\ feed.tick \in 0 .. arrived
    BY Records
  <2>2. arrived \in Nat /\ heard \in Nat /\ heard <= arrived /\ read \in Nat
    BY Numbers
  <2> QED BY <2>1, <2>2, <1>4
<1>6. /\ feed' \in [last : Nat, tick : 0 .. arrived]
      /\ feed'.last \in Nat /\ feed'.last >= feed.last
      /\ (feed' # feed => read > feed.last /\ feed'.last = read)
      /\ (feed'.tick > 0 => feed'.last > 0)
  <2>1. CASE read > feed.last /\ feed' = [last |-> read, tick |-> Max({feed.tick, head})]
    <3>1. Max({feed.tick, head}) \in {feed.tick, head}
      BY <1>5, MaxOfTwo
    <3>2. Max({feed.tick, head}) \in 0 .. arrived
      BY <1>5, <3>1
    <3> QED BY <1>5, <2>1, <3>2
  <2>2. CASE feed' = feed
    BY <1>5, <2>2, Records DEF IInv, StepShape
  <2> QED BY <1>2, <2>1, <2>2
<1>7. Types'
  <2>1. read + 1 \in Nat \ {0} /\ 0 \in Nat
    BY <1>5
  <2>2. disturbed' \in BOOLEAN
    BY <1>1 DEF IInv, Types
  <2> QED BY <1>1, <1>4, <1>6, <2>1, <2>2 DEF IInv, Types
<1>8. StepShape'
  BY <1>1, <1>6 DEF IInv, StepShape, Started, Bridging, At, Retriable
<1>9. EntriesFollowReadiness' /\ WarmupShape'
  BY <1>1 DEF IInv, EntriesFollowReadiness, WarmupShape, At, Retriable
<1>10. NumberShape'
  <2>1. /\ bridged # {} => warmed > 0 /\ feed.last > MaxTicks
        /\ ~resized => \A u \in bridged : feed.last >= warmed + u
    BY DEF IInv, NumberShape
  <2>2. /\ bridged # {} => feed'.last > MaxTicks
        /\ ~resized => \A u \in bridged : feed'.last >= warmed + u
    <3>1. \A u \in bridged : u \in Nat
      BY DEF IInv, Types
    <3> QED BY <1>5, <1>6, <2>1, <3>1, Numbers
  <2> QED BY <1>1, <2>1, <2>2 DEF IInv, NumberShape, Bridging, At
<1>11. before => /\ read = number /\ read <= MaxTicks
                 /\ bridged # {} => ~(read > feed.last)
  BY <1>1, WorkerBehind DEF before
<1>12. BridgeShape'
  <2>1. ~seeded /\ ~halfway /\ bridged # {} => feed' = feed
    BY <1>2, <1>11 DEF before
  <2> QED BY <1>1, <2>1 DEF IInv, BridgeShape
<1>13. WorkerShape'
  <2>1. during' = {}
    <3>1. during = {}
      BY DEF IInv, WorkerShape
    <3> QED BY <1>2, <1>11, <3>1
  <2>2. ASSUME ~seeded, ~halfway
        PROVE  /\ number' + Len(queue') <= heard' + 1
               /\ bridged' = {} => feed'.last <= MaxTicks
               /\ ahead' = {} /\ feed'.tick > 0 => feed'.tick \in bridged'
    <3>1. /\ number + Len(queue) <= heard + 1
          /\ bridged = {} => feed.last <= MaxTicks
          /\ ahead = {} /\ feed.tick > 0 => feed.tick \in bridged
      BY <2>2 DEF IInv, WorkerShape
    <3>2. before
      BY <2>2 DEF before
    <3>3. number' + Len(queue') <= heard' + 1
      BY <1>1, <1>4, <1>11, <3>1, <3>2, Numbers
    <3>4. bridged' = {} => feed'.last <= MaxTicks
      BY <1>1, <1>6, <1>11, <3>1, <3>2
    <3>5. ahead' = {} => ahead = {} /\ feed' = feed
      BY <1>2, <1>11, <3>2
    <3> QED BY <1>1, <3>1, <3>3, <3>4, <3>5
  <2> QED BY <1>1, <2>1, <2>2 DEF WorkerShape
<1>14. HandShape'
  <2>1. seeded' /\ ~disturbed' => number' > feed'.last
    <3>1. SUFFICES ASSUME seeded, ~disturbed' PROVE read + 1 > feed'.last
      BY <1>1
    <3>2. number = read /\ number > feed.last
      BY <3>1, <1>1 DEF IInv, HandShape
    <3>3. feed' = feed \/ feed'.last = read
      BY <1>6
    <3> QED BY <3>2, <3>3, <1>5
  <2>2. At("seed")' /\ init'.ready =>
         /\ init'.last <= feed'.last
         /\ feed'.last > init'.last =>
              number' > feed'.last /\ (read' # 0 => read' = number')
    <3>1. init.last \in Nat /\ number \in Nat
      BY Records, Numbers
    <3>2. CASE feed' = feed
      BY <3>1, <3>2, <1>1, <1>5 DEF IInv, HandShape, At
    <3>3. CASE feed'.last = read
      BY <3>1, <3>3, <1>1, <1>5, <1>6 DEF IInv, HandShape, At
    <3> QED BY <3>2, <3>3, <1>6
  <2>3. denied' # {} => disturbed'
    <3>1. CASE denied' = denied
      BY <3>1, <1>1 DEF IInv, HandShape
    <3>2. CASE ~(read > feed.last) /\ seeded
      <4>1. SUFFICES ASSUME ~disturbed' PROVE FALSE
        OBVIOUS
      <4>2. number = read /\ number > feed.last
        BY <3>2, <4>1, <1>1 DEF IInv, HandShape
      <4> QED BY <3>2, <4>2
    <3> QED BY <3>1, <3>2, <1>2
  <2>4. skipped' # {} => ahead' # {} \/ halfway' \/ resized'
    <3>1. ahead \subseteq ahead'
      BY <1>2
    <3> QED BY <1>1, <3>1 DEF IInv, HandShape
  <2> QED BY <2>1, <2>2, <2>3, <2>4 DEF HandShape
<1> QED BY <1>7, <1>8, <1>9, <1>10, <1>12, <1>13, <1>14 DEF IInv

-----------------------------------------------------------------------------
(* The startup thread. *)

Entries == [state : State, last : 0 .. arrived, reason : Reasons,
            timedOut : BOOLEAN]
Threads == [at : Step, warm : Nat, cursor : 0 .. arrived, last : Nat,
            ready : BOOLEAN, expired : BOOLEAN, why : Why]

\* A step of the thread that leaves worker, server and market alone keeps the
\* types if its entry and its locals have theirs.
LEMMA ThreadTypes ==
    ASSUME IInv, UNCHANGED <<market, client, feed, bridged, seeds>>,
           entry' \in Entries, init' \in Threads, init.at # "off",
           init'.at # "off", inFlight' = inFlight, seq' \in Nat \ {0},
           allowed' \in BOOLEAN, faults' \in Nat, warmed' \in Nat,
           resized' \in BOOLEAN, warmups' \in Nat
    PROVE  Types'
<1>1. inFlight' = (init'.at # "off")
  BY DEF IInv, Types
<1> QED BY <1>1 DEF IInv, Types, Entries, Threads

LEMMA LoadIInv == ASSUME IInv, Load PROVE IInv'
<1>1. /\ init.at = "load" /\ ~init.ready /\ init.cursor = 0 /\ ~seeded
      /\ entry.state \in {"COLD", "ERROR_PAUSED"} /\ warmups <= faults
  BY DEF IInv, StepShape, NumberShape, WarmupShape, Load, At
<1>2. UNCHANGED <<market, inFlight, seq, client, feed, warmups, bridge, skipped,
                  own, seeds>>
  BY DEF Load
<1>3. /\ init \in Threads /\ entry \in Entries /\ faults \in Nat
      /\ seq' \in Nat \ {0} /\ warmed \in Nat /\ resized \in BOOLEAN
      /\ allowed \in BOOLEAN /\ warmups' \in Nat
  BY <1>2 DEF IInv, Types, Entries, Threads
<1>4. /\ init' \in Threads /\ entry' \in Entries /\ faults' \in Nat
      /\ faults' >= faults
      /\ allowed' \in BOOLEAN /\ warmed' \in Nat /\ resized' \in BOOLEAN
      /\ init'.cursor = 0 /\ ~init'.ready
      /\ \/ /\ init'.at \in {"backfill", "caught"} /\ ~allowed'
            /\ entry'.state = "PARQUET_WARMING"
            /\ init'.warm \in Warm /\ init'.warm > 0
            /\ warmed' = (IF warmed = 0 THEN init'.warm ELSE warmed)
            /\ resized' = (resized \/ warmed \notin {0, init'.warm})
         \/ init'.at = "caught" /\ UNCHANGED <<entry, allowed, warmed, resized>>
  <2>1. CASE Goto("caught") /\ Fault
             /\ UNCHANGED <<entry, allowed, warmed, resized>>
    <3>1. "caught" \in Step
      BY DEF Step
    <3> QED BY <2>1, <3>1, <1>1, <1>3 DEF Goto, Fault, Threads
  <2>2. CASE \E w \in Warm :
            /\ Publish([entry EXCEPT !.state = "PARQUET_WARMING",
                                     !.reason = <<>>, !.timedOut = FALSE],
                       [init EXCEPT !.at = "backfill", !.warm = w])
            /\ warmed' = IF warmed = 0 THEN w ELSE warmed
            /\ resized' = (resized \/ warmed \notin {0, w})
    <3>1. PICK w \in Warm :
            /\ Publish([entry EXCEPT !.state = "PARQUET_WARMING",
                                     !.reason = <<>>, !.timedOut = FALSE],
                       [init EXCEPT !.at = "backfill", !.warm = w])
            /\ warmed' = IF warmed = 0 THEN w ELSE warmed
            /\ resized' = (resized \/ warmed \notin {0, w})
      BY <2>2
    <3>2. w \in Nat /\ w > 0
      BY WarmSizes
    <3> DEFINE e == [entry EXCEPT !.state = "PARQUET_WARMING",
                                  !.reason = <<>>, !.timedOut = FALSE]
    <3> DEFINE next == [init EXCEPT !.at = "backfill", !.warm = w]
    <3>3. e \in Entries /\ e.state = "PARQUET_WARMING"
      <4>1. <<>> \in Reasons /\ "PARQUET_WARMING" \in State
        BY DEF Reasons, State
      <4> QED BY <4>1, <1>3 DEF Entries
    <3>4. /\ next \in Threads /\ next.at = "backfill" /\ next.warm = w
          /\ next.cursor = 0 /\ ~next.ready
      <4>1. "backfill" \in Step
        BY DEF Step
      <4> QED BY <4>1, <3>2, <1>1, <1>3 DEF Threads
    <3> HIDE DEF e, next
    <3>5. /\ entry' = e /\ allowed' = Tradable(e)
          /\ \/ init' = next /\ faults' = faults
             \/ init' = [next EXCEPT !.at = "caught"] /\ faults' = faults + 1
      BY <3>1 DEF Publish, Fault, e, next
    <3>6. /\ init' \in Threads /\ init'.at \in {"backfill", "caught"}
          /\ init'.warm = w /\ init'.cursor = 0 /\ ~init'.ready
      <4>1. "caught" \in Step
        BY DEF Step
      <4> QED BY <4>1, <3>4, <3>5 DEF Threads
    <3>7. allowed' = FALSE
      BY <3>3, <3>5 DEF Tradable, Refreshed
    <3>8. /\ faults' \in Nat /\ faults' >= faults
          /\ warmed' \in Nat /\ resized' \in BOOLEAN
      BY <3>1, <3>2, <3>5, <1>3
    <3> QED BY <3>1, <3>2, <3>3, <3>5, <3>6, <3>7, <3>8
  <2> QED BY <2>1, <2>2 DEF Load
<1>5. Types'
  <2>1. init.at # "off" /\ init'.at # "off" /\ inFlight' = inFlight
    BY <1>1, <1>2, <1>4
  <2> QED BY <1>2, <1>3, <1>4, <2>1, ThreadTypes
<1>6. /\ resized => resized'
      /\ warmed > 0 => warmed' = warmed
      /\ init'.at \in {"backfill", "caught"}
  BY <1>3, <1>4
<1>7. StepShape'
  BY <1>1, <1>2, <1>4 DEF IInv, StepShape, Started, Bridging, At, Retriable
<1>8. EntriesFollowReadiness'
  BY <1>4 DEF EntriesFollowReadiness
<1>9. NumberShape'
  <2>1. At("backfill")' => /\ warmed' > 0 /\ init'.warm \in Warm
                           /\ ~resized' => init'.warm = warmed'
    <3> SUFFICES ASSUME init'.at = "backfill"
                 PROVE  /\ warmed' > 0 /\ init'.warm \in Warm
                        /\ ~resized' => init'.warm = warmed'
      BY DEF At
    <3>1. /\ init'.warm \in Warm /\ init'.warm > 0
          /\ warmed' = (IF warmed = 0 THEN init'.warm ELSE warmed)
          /\ resized' = (resized \/ warmed \notin {0, init'.warm})
      BY <1>4
    <3>2. CASE warmed = 0
      BY <3>1, <3>2
    <3>3. CASE warmed # 0
      <4>1. warmed' = warmed /\ (~resized' => init'.warm = warmed)
        BY <3>1, <3>3
      <4>2. warmed > 0
        BY <3>3, Numbers
      <4> QED BY <3>1, <4>1, <4>2
    <3> QED BY <3>2, <3>3
  <2>2. bridged # {} => warmed > 0
    BY DEF IInv, NumberShape
  <2> QED BY <1>2, <1>4, <1>6, <2>1, <2>2 DEF IInv, NumberShape, Bridging, At
<1>10. BridgeShape'
  <2>1. 1 .. init'.cursor = {}
    BY <1>4
  <2>2. bridged # {} => warmed > 0
    BY DEF IInv, NumberShape
  <2> QED BY <1>2, <1>6, <2>1, <2>2 DEF IInv, BridgeShape
<1>11. WorkerShape'
  BY <1>2 DEF IInv, WorkerShape
<1>12. WarmupShape'
  <2>1. /\ warmups' = warmups /\ warmups \in Nat /\ warmups <= faults
        /\ faults \in Nat /\ faults' \in Nat /\ faults' >= faults
    BY <1>1, <1>2, <1>3, <1>4
  <2>2. warmups' <= faults' /\ warmups' <= faults' + 1
    BY <2>1, Counting
  <2> QED BY <2>2 DEF WarmupShape
<1>13. HandShape'
  BY <1>2, <1>6 DEF IInv, HandShape, At
<1> QED BY <1>5, <1>7, <1>8, <1>9, <1>10, <1>11, <1>12, <1>13 DEF IInv

\* Before the final seed a bridging symbol is closed to entries.
LEMMA BridgeClosed ==
    ASSUME IInv, Bridging
    PROVE  /\ ~seeded /\ ~init.ready /\ allowed = FALSE /\ entry.state = "BRIDGING"
           /\ warmed > 0 /\ init.at # "off" /\ ~Started
           /\ init.warm \in Warm /\ seq = init.warm + 1 + init.cursor
           /\ init \in Threads /\ entry \in Entries
BY DEF IInv, Types, StepShape, Started, Bridging, At, EntriesFollowReadiness,
       NumberShape, Entries, Threads

LEMMA BackfillIInv == ASSUME IInv, Backfill PROVE IInv'
<1>1. /\ init.at = "backfill" /\ ~init.ready /\ init.cursor = 0 /\ ~seeded
      /\ entry.state = "PARQUET_WARMING" /\ allowed = FALSE
      /\ init \in Threads /\ entry \in Entries
      /\ faults \in Nat /\ warmed \in Nat /\ resized \in BOOLEAN
      /\ seq \in Nat \ {0} /\ init.warm \in Nat
  BY DEF IInv, Types, StepShape, NumberShape, EntriesFollowReadiness, Backfill,
         At, Entries, Threads, Started
<1>2. UNCHANGED <<market, inFlight, client, feed, sizes, bridge, skipped, own,
                  seeds>>
  BY DEF Backfill
<1>3. /\ warmups \in Nat /\ warmups <= faults
      /\ warmed > 0 /\ init.warm \in Warm
      /\ ~resized => init.warm = warmed
  BY <1>1, Numbers DEF IInv, WarmupShape, NumberShape, At
<1>4. /\ init' \in Threads /\ entry' \in Entries /\ faults' \in Nat
      /\ faults' >= faults /\ warmups' \in Nat /\ warmups' <= faults' + 1
      /\ allowed' = FALSE /\ seq' \in Nat \ {0}
      /\ init'.cursor = 0 /\ ~init'.ready /\ init'.warm = init.warm
      /\ \/ /\ init'.at \in {"post", "caught"} /\ entry'.state = "BRIDGING"
            /\ seq' = init.warm + 1
         \/ init'.at = "caught" /\ entry' = entry
  <2>1. CASE /\ init' = [init EXCEPT !.at = "caught", !.why = <<"bridge">>]
             /\ Fault /\ warmups' \in {warmups, warmups + 1}
             /\ UNCHANGED <<seq, entry, allowed>>
    <3>1. "caught" \in Step /\ <<"bridge">> \in Why
      BY DEF Step, Why
    <3> DEFINE why == <<"bridge">>
    <3>2. init' = [init EXCEPT !.at = "caught", !.why = why]
      BY <2>1
    <3>3. why \in Why
      BY <3>1
    <3> HIDE DEF why
    <3>4. /\ init' \in Threads /\ init'.at = "caught" /\ ~init'.ready
          /\ init'.cursor = 0 /\ init'.warm = init.warm
      BY <3>1, <3>2, <3>3, <1>1 DEF Threads
    <3>5. /\ faults' \in Nat /\ faults' >= faults
          /\ warmups' \in Nat /\ warmups' <= faults' + 1
      BY <2>1, <1>1, <1>3 DEF Fault
    <3> QED BY <2>1, <3>4, <3>5, <1>1
  <2>2. CASE /\ Publish([entry EXCEPT !.state = "BRIDGING", !.reason = <<>>,
                                      !.timedOut = FALSE],
                        [init EXCEPT !.at = "post"])
             /\ seq' = init.warm + 1
             /\ warmups' = warmups + 1
    <3> DEFINE e == [entry EXCEPT !.state = "BRIDGING", !.reason = <<>>,
                                  !.timedOut = FALSE]
    <3> DEFINE next == [init EXCEPT !.at = "post"]
    <3>1. e \in Entries /\ e.state = "BRIDGING"
      <4>1. <<>> \in Reasons /\ "BRIDGING" \in State
        BY DEF Reasons, State
      <4> QED BY <4>1, <1>1 DEF Entries
    <3>2. /\ next \in Threads /\ next.at = "post" /\ next.warm = init.warm
          /\ next.cursor = 0 /\ ~next.ready
      <4>1. "post" \in Step
        BY DEF Step
      <4> QED BY <4>1, <1>1 DEF Threads
    <3> HIDE DEF e, next
    <3>3. /\ entry' = e /\ allowed' = Tradable(e)
          /\ \/ init' = next /\ faults' = faults
             \/ init' = [next EXCEPT !.at = "caught"] /\ faults' = faults + 1
      BY <2>2 DEF Publish, Fault, e, next
    <3>4. /\ init' \in Threads /\ init'.at \in {"post", "caught"}
          /\ init'.warm = init.warm /\ init'.cursor = 0 /\ ~init'.ready
      <4>1. "caught" \in Step
        BY DEF Step
      <4> QED BY <4>1, <3>2, <3>3 DEF Threads
    <3>5. allowed' = FALSE
      BY <3>1, <3>3 DEF Tradable, Refreshed
    <3>6. /\ faults' \in Nat /\ faults' >= faults /\ seq' \in Nat \ {0}
          /\ warmups' \in Nat /\ warmups' <= faults' + 1
      BY <2>2, <3>3, <1>1, <1>3
    <3> QED BY <2>2, <3>1, <3>3, <3>4, <3>5, <3>6
  <2> QED BY <2>1, <2>2 DEF Backfill
<1>5. Types'
  <2>1. warmed' \in Nat /\ resized' \in BOOLEAN
    BY <1>1, <1>2
  <2>2. init.at # "off" /\ init'.at # "off" /\ inFlight' = inFlight
    BY <1>1, <1>2, <1>4
  <2> QED BY <1>2, <1>4, <2>1, <2>2, ThreadTypes
<1>6. StepShape'
  BY <1>1, <1>2, <1>4 DEF IInv, StepShape, Started, Bridging, At, Retriable
<1>7. EntriesFollowReadiness'
  BY <1>4 DEF EntriesFollowReadiness
<1>8. NumberShape'
  BY <1>1, <1>2, <1>3, <1>4 DEF IInv, NumberShape, Bridging, At
<1>9. BridgeShape' /\ WorkerShape'
  BY <1>1, <1>2, <1>4 DEF IInv, BridgeShape, WorkerShape
<1>10. WarmupShape'
  <2>1. CASE entry'.state = "BRIDGING"
    BY <2>1, <1>4 DEF WarmupShape, At, Retriable
  <2>2. CASE entry' = entry
    BY <2>2, <1>1, <1>4 DEF WarmupShape, At, Retriable
  <2> QED BY <1>4, <2>1, <2>2
<1>11. HandShape'
  BY <1>1, <1>2, <1>4 DEF IInv, HandShape, At
<1> QED BY <1>5, <1>6, <1>7, <1>8, <1>9, <1>10, <1>11 DEF IInv

\* A failed call of the bridge: polled on, or the end of the bridge.
LEMMA CallFailsShape ==
    ASSUME IInv, Bridging, CallFails
    PROVE  /\ init' \in Threads /\ entry' \in Entries
           /\ faults' = faults + 1 /\ faults' \in Nat
           /\ init'.cursor = init.cursor /\ init'.warm = init.warm
           /\ init'.ready = init.ready
           /\ \/ init'.at = "check" /\ entry' = entry
              \/ init'.at = "seed" /\ entry'.state = "ERROR_PAUSED"
<1>1. init \in Threads /\ entry \in Entries /\ faults \in Nat
  BY BridgeClosed, Numbers
<1>2. faults' = faults + 1 /\ faults' \in Nat
  BY <1>1 DEF CallFails, Fault
<1>3. \/ init' = [init EXCEPT !.at = "check"] /\ entry' = entry
      \/ /\ init' = [init EXCEPT !.at = "seed"]
         /\ entry' = [entry EXCEPT !.state = "ERROR_PAUSED", !.reason = <<"bridge">>]
  BY DEF CallFails, Goto, MarkErrorPaused
<1>4. /\ {"check", "seed"} \subseteq Step /\ <<"bridge">> \in Reasons
      /\ "ERROR_PAUSED" \in State
  BY DEF Step, Reasons, State
<1> QED BY <1>1, <1>2, <1>3, <1>4 DEF Threads, Entries

\* What a step of the bridge that leaves the counters alone preserves.
LEMMA BridgeStep ==
    ASSUME IInv, Bridging,
           UNCHANGED <<market, inFlight, seq, allowed, client, feed, sizes, warmups,
                       bridge, own, seeds>>,
           entry' \in Entries, init' \in Threads, faults' \in Nat,
           faults' >= faults, Retriable(entry') => faults' > faults,
           skipped' # {} => ahead # {} \/ halfway \/ resized,
           init'.cursor = init.cursor, init'.warm = init.warm,
           \/ init'.at \in {"post", "status", "check"} /\ ~init'.ready
                /\ entry'.state = "BRIDGING"
           \/ init'.at = "seed" /\ ~init'.ready /\ entry'.state = "ERROR_PAUSED"
           \/ /\ init'.at = "seed" /\ init'.ready /\ entry'.state = "READY"
              /\ init'.last = feed.last /\ feed.last > 0
    PROVE  IInv'
<1>1. Types'
  <2>1. /\ warmed' \in Nat /\ resized' \in BOOLEAN /\ allowed' \in BOOLEAN
        /\ seq' \in Nat \ {0} /\ warmups' \in Nat
    BY DEF IInv, Types
  <2>2. init.at # "off" /\ init'.at # "off"
    BY BridgeClosed
  <2> QED BY <2>1, <2>2, ThreadTypes
<1>2. StepShape'
  BY BridgeClosed DEF IInv, StepShape, Started, Bridging, At
<1>3. EntriesFollowReadiness'
  BY BridgeClosed DEF EntriesFollowReadiness
<1>4. NumberShape'
  BY BridgeClosed DEF IInv, NumberShape, Bridging, At
<1>5. BridgeShape' /\ WorkerShape'
  BY DEF IInv, BridgeShape, WorkerShape
<1>6. WarmupShape'
  <2>1. warmups' = warmups /\ warmups <= faults + 1
        /\ warmups \in Nat /\ faults \in Nat
        /\ faults' \in Nat /\ faults' >= faults
    BY Numbers DEF IInv, WarmupShape
  <2>2. warmups' <= faults' + 1 /\ (faults' > faults => warmups' <= faults')
    BY <2>1, Counting
  <2>3. ~At("load")' /\ ~At("backfill")' /\ (Retriable(entry)' <=> Retriable(entry'))
    BY DEF At, Retriable
  <2> QED BY <2>2, <2>3 DEF WarmupShape
<1>7. HandShape'
  <2>1. feed.last \in Nat
    BY Records
  <2> QED BY <2>1, BridgeClosed DEF IInv, HandShape, At
<1> QED BY <1>1, <1>2, <1>3, <1>4, <1>5, <1>6, <1>7 DEF IInv

\* The greatest element is the one the library's choice finds.
LEMMA MaxIs ==
    ASSUME NEW S, S \subseteq Int, NEW m \in S, \A x \in S : m >= x
    PROVE  Max(S) = m
<1>1. \E x \in S : \A y \in S : x >= y
  OBVIOUS
<1>2. Max(S) \in S /\ \A y \in S : Max(S) >= y
  BY <1>1 DEF Max
<1> DEFINE found == Max(S)
<1>3. m \in Int /\ found \in Int /\ m >= found /\ found >= m
  BY <1>2
<1> HIDE DEF found
<1>4. found = m
  BY <1>3
<1> QED BY <1>4 DEF found

\* The server takes the ticks of a batch up to the last one, or none.  While
\* warm-ups have one size it has not counted any of them before, and if no seed
\* has disturbed the bridge those it takes continue those it has.
LEMMA ServerTakesShape ==
    ASSUME IInv, At("post"), NEW t \in init.cursor .. arrived, ServerTakes(t)
    PROVE  /\ feed' \in [last : Nat, tick : 0 .. arrived]
           /\ feed'.last >= feed.last /\ (feed'.tick > 0 => feed'.last > 0)
           /\ bridged' \subseteq Nat
           /\ bridged' # {} => feed'.last > MaxTicks
           /\ ~resized => /\ \A u \in bridged' : feed'.last >= warmed + u
                          /\ again' = {}
           /\ ~resized /\ ~halfway =>
                  /\ \A u \in bridged' \union {t} : 1 .. u \subseteq bridged'
                  /\ bridged' # {} => feed'.last - warmed \in bridged'
           /\ ~halfway => /\ bridged' = {} => feed'.last <= MaxTicks
                          /\ ahead = {} /\ feed'.tick > 0 => feed'.tick \in bridged'
<1>1. /\ init.cursor \in Nat /\ arrived \in Nat /\ t \in Nat /\ seq \in Nat \ {0}
      /\ feed.last \in Nat /\ feed.tick \in Nat /\ feed.tick <= arrived
      /\ warmed \in Nat /\ bridged \subseteq Nat
      /\ init.cursor <= t /\ t <= arrived
  <2>1. init.cursor \in 0 .. arrived /\ seq \in Nat \ {0} /\ bridged \subseteq Nat
    BY DEF IInv, Types
  <2>2. feed.last \in Nat /\ feed.tick \in 0 .. arrived
    BY Records
  <2>3. arrived \in Nat /\ warmed \in Nat
    BY Numbers
  <2> QED BY <2>1, <2>2, <2>3
<1>2. feed.tick > 0 => feed.last > 0
  BY DEF IInv, StepShape
<1>3. ~resized => /\ seq = warmed + 1 + init.cursor /\ warmed > MaxTicks /\ again = {}
                  /\ \A u \in bridged : feed.last >= warmed + u
  <2>1. Bridging
    BY DEF Bridging, At
  <2>2. init.warm \in Warm /\ seq = init.warm + 1 + init.cursor
    BY <2>1, BridgeClosed
  <2>3. ~resized => /\ init.warm = warmed /\ again = {}
                    /\ \A u \in bridged : feed.last >= warmed + u
    BY <2>1 DEF IInv, NumberShape
  <2>4. init.warm > MaxTicks
    BY <2>2, WarmSizes
  <2> QED BY <2>2, <2>3, <2>4
<1>4. /\ feed' = [last |-> Max({feed.last} \union {NumberOf(u) : u \in Accepted(t)}),
                  tick |-> Max({feed.tick} \union Accepted(t))]
      /\ bridged' = bridged \union Accepted(t)
      /\ again' = again \union (Accepted(t) \intersect bridged)
  BY DEF ServerTakes
<1>5. \A u \in Accepted(t) :
         /\ u \in Nat /\ init.cursor < u /\ u <= t
         /\ NumberOf(u) = seq + (u - init.cursor) - 1
         /\ NumberOf(u) \in Nat /\ NumberOf(u) > feed.last
         /\ NumberOf(u) <= NumberOf(t) /\ NumberOf(t) \in Nat
  BY <1>1 DEF Accepted, Taken, NumberOf
<1>6. Accepted(t) # {} => t \in Accepted(t)
  BY <1>1, <1>5 DEF Accepted, Taken
<1> DEFINE last == Max({feed.last} \union {NumberOf(u) : u \in Accepted(t)})
<1> DEFINE tick == Max({feed.tick} \union Accepted(t))
<1>7. last = IF Accepted(t) = {} THEN feed.last ELSE NumberOf(t)
  <2> DEFINE S == {feed.last} \union {NumberOf(u) : u \in Accepted(t)}
  <2>1. S \subseteq Int
    BY <1>1, <1>5
  <2>2. CASE Accepted(t) = {}
    <3>1. feed.last \in S /\ \A x \in S : feed.last >= x
      BY <2>2, <1>1
    <3> HIDE DEF S
    <3>2. Max(S) = feed.last
      BY <2>1, <3>1, MaxIs
    <3> QED BY <2>2, <3>2 DEF S
  <2>3. CASE Accepted(t) # {}
    <3>1. NumberOf(t) \in S /\ \A x \in S : NumberOf(t) >= x
      BY <2>3, <1>1, <1>5, <1>6
    <3> HIDE DEF S
    <3>2. Max(S) = NumberOf(t)
      BY <2>1, <3>1, MaxIs
    <3> QED BY <2>3, <3>2 DEF S
  <2> QED BY <2>2, <2>3
<1>8. /\ tick \in 0 .. arrived /\ (Accepted(t) = {} => tick = feed.tick)
      /\ tick \in {feed.tick} \union Accepted(t)
  <2> DEFINE S == {feed.tick} \union Accepted(t)
  <2>1. S \subseteq 0 .. arrived /\ S \subseteq Int
    BY <1>1, <1>5
  <2>2. CASE Accepted(t) = {}
    <3>1. feed.tick \in S /\ \A x \in S : feed.tick >= x
      BY <2>2, <1>1
    <3> HIDE DEF S
    <3>2. Max(S) = feed.tick
      BY <2>1, <3>1, MaxIs
    <3> QED BY <1>1, <3>2 DEF S
  <2>3. CASE Accepted(t) # {} /\ t >= feed.tick
    <3>1. t \in S /\ \A x \in S : t >= x
      BY <2>3, <1>1, <1>5, <1>6
    <3> HIDE DEF S
    <3>2. Max(S) = t
      BY <2>1, <3>1, MaxIs
    <3>3. tick = t
      BY <3>2 DEF S
    <3>4. t \in 0 .. arrived
      BY <1>1
    <3> HIDE DEF tick
    <3> QED BY <1>6, <2>3, <3>3, <3>4
  <2>4. CASE Accepted(t) # {} /\ ~(t >= feed.tick)
    <3>1. feed.tick \in S /\ \A x \in S : feed.tick >= x
      BY <2>4, <1>1, <1>5
    <3> HIDE DEF S
    <3>2. Max(S) = feed.tick
      BY <2>1, <3>1, MaxIs
    <3> QED BY <1>1, <2>4, <3>2 DEF S
  <2> QED BY <2>2, <2>3, <2>4
<1> HIDE DEF last, tick
<1>9. feed' = [last |-> last, tick |-> tick]
  BY <1>4 DEF last, tick
<1>10. /\ last \in Nat /\ last >= feed.last
       /\ (Accepted(t) # {} => last = NumberOf(t) /\ last > feed.last)
  BY <1>1, <1>5, <1>6, <1>7
<1>11. /\ feed' \in [last : Nat, tick : 0 .. arrived]
       /\ feed'.last >= feed.last /\ (feed'.tick > 0 => feed'.last > 0)
  BY <1>1, <1>2, <1>8, <1>9, <1>10
<1>12. bridged' \subseteq Nat
  BY <1>1, <1>4, <1>5
<1>13. ASSUME ~resized
       PROVE  (\A u \in bridged' : feed'.last >= warmed + u) /\ again' = {}
  <2>1. \A u \in Accepted(t) : NumberOf(u) = warmed + u
    BY <1>1, <1>3, <1>5, <1>13
  <2>2. \A u \in Accepted(t) : u \notin bridged
    BY <1>1, <1>3, <1>5, <1>13, <2>1
  <2>3. ASSUME NEW u \in bridged'
        PROVE  feed'.last >= warmed + u
    <3>1. u \in Nat /\ feed'.last = last
      BY <1>9, <1>12
    <3>2. CASE u \in bridged
      BY <3>1, <3>2, <1>1, <1>3, <1>10, <1>13
    <3>3. CASE u \in Accepted(t)
      BY <3>1, <3>3, <2>1, <1>1, <1>5, <1>10
    <3> QED BY <3>2, <3>3, <1>4
  <2>4. again' = {}
    BY <1>3, <1>4, <1>13, <2>2
  <2> QED BY <2>3, <2>4
<1>14. bridged' # {} => feed'.last > MaxTicks
  <2>1. CASE Accepted(t) = {}
    <3>1. bridged # {} => feed.last > MaxTicks
      BY DEF IInv, NumberShape
    <3> QED BY <2>1, <3>1, <1>4, <1>7, <1>9
  <2>2. CASE Accepted(t) # {}
    <3>1. Bridging
      BY DEF Bridging, At
    <3>2. init.warm \in Warm /\ seq = init.warm + 1 + init.cursor
      BY <3>1, BridgeClosed
    <3>3. init.warm > MaxTicks /\ init.warm \in Nat
      BY <3>2, WarmSizes
    <3>4. NumberOf(t) = init.warm + t
      BY <3>2, <3>3, <1>1 DEF NumberOf
    <3>5. last = init.warm + t /\ feed'.last = last
      BY <2>2, <3>4, <1>9, <1>10
    <3>6. MaxTicks \in Nat
      BY Numbers
    <3> QED BY <3>3, <3>5, <3>6, <1>1
  <2> QED BY <2>1, <2>2
<1>15. ~seeded
  <2>1. Bridging
    BY DEF Bridging, At
  <2> QED BY <2>1, BridgeClosed
<1>16. ASSUME ~resized, ~halfway
       PROVE  /\ \A u \in bridged' \union {t} : 1 .. u \subseteq bridged'
              /\ bridged' # {} => feed'.last - warmed \in bridged'
  <2>1. /\ \A u \in bridged \union {init.cursor} : 1 .. u \subseteq bridged
        /\ bridged # {} => feed.last - warmed \in bridged
        /\ bridged = {} => feed.last <= MaxTicks
    BY <1>15, <1>16 DEF IInv, BridgeShape, WorkerShape
  <2>2. \A u \in init.cursor + 1 .. t : NumberOf(u) = warmed + u
    BY <1>1, <1>3, <1>16 DEF NumberOf
  <2>3. ASSUME NEW v \in 1 .. t PROVE v \in bridged'
    <3>1. v \in Nat /\ v >= 1 /\ v <= t
      BY <1>1
    <3>2. CASE v <= init.cursor
      <4>1. v \in 1 .. init.cursor
        BY <3>1, <3>2, <1>1
      <4> QED BY <4>1, <2>1, <1>4
    <3>3. CASE v > init.cursor /\ warmed + v > feed.last
      <4>1. v \in init.cursor + 1 .. t
        BY <3>1, <3>3, <1>1
      <4>2. v \in Accepted(t)
        BY <4>1, <2>2, <3>3 DEF Accepted, Taken
      <4> QED BY <4>2, <1>4
    <3>4. CASE v > init.cursor /\ ~(warmed + v > feed.last)
      <4>1. feed.last >= warmed + v
        BY <3>1, <3>4, <1>1
      <4>2. bridged # {}
        BY <4>1, <3>1, <2>1, <1>1, <1>3, <1>16, Numbers
      <4> DEFINE k == feed.last - warmed
      <4>3. k \in bridged /\ k >= v /\ k \in Int
        BY <4>1, <4>2, <2>1, <3>1, <1>1
      <4> HIDE DEF k
      <4>4. v \in 1 .. k /\ 1 .. k \subseteq bridged
        BY <4>3, <2>1, <3>1
      <4> QED BY <4>4, <1>4
    <3> QED BY <3>1, <3>2, <3>3, <3>4, <1>1
  <2>4. ASSUME NEW u \in bridged' \union {t} PROVE 1 .. u \subseteq bridged'
    <3>1. CASE u \in bridged
      BY <3>1, <2>1, <1>4
    <3>2. CASE u \in Accepted(t) \/ u = t
      <4>1. u \in Nat /\ u <= t
        BY <3>2, <1>1, <1>5
      <4>2. 1 .. u \subseteq 1 .. t
        BY <4>1, <1>1
      <4> QED BY <4>2, <2>3
    <3> QED BY <3>1, <3>2, <1>4
  <2>5. bridged' # {} => feed'.last - warmed \in bridged'
    <3>1. CASE Accepted(t) = {}
      BY <3>1, <2>1, <1>4, <1>7, <1>9
    <3>2. CASE Accepted(t) # {}
      <4>1. t \in Accepted(t) /\ t \in init.cursor + 1 .. t
        BY <3>2, <1>6 DEF Accepted
      <4>2. feed'.last = warmed + t
        BY <3>2, <4>1, <2>2, <1>9, <1>10
      <4>3. feed'.last - warmed = t
        BY <4>2, <1>1
      <4> QED BY <4>1, <4>3, <1>4
    <3> QED BY <3>1, <3>2
  <2> QED BY <2>4, <2>5
<1>17. ASSUME ~halfway
       PROVE  /\ bridged' = {} => feed'.last <= MaxTicks
              /\ ahead = {} /\ feed'.tick > 0 => feed'.tick \in bridged'
  <2>1. /\ bridged = {} => feed.last <= MaxTicks
        /\ ahead = {} /\ feed.tick > 0 => feed.tick \in bridged
    BY <1>15, <1>17 DEF IInv, WorkerShape
  <2>2. bridged' = {} => feed'.last <= MaxTicks
    <3>1. bridged' = {} => bridged = {} /\ Accepted(t) = {}
      BY <1>4
    <3> QED BY <3>1, <2>1, <1>7, <1>9
  <2>3. feed'.tick \in {feed.tick} \union Accepted(t)
    BY <1>8, <1>9
  <2> QED BY <2>1, <2>2, <2>3, <1>4
<1> QED BY <1>11, <1>12, <1>13, <1>14, <1>16, <1>17

LEMMA PostIInv == ASSUME IInv, Post PROVE IInv'
<1>1. init.at = "post" /\ Bridging /\ At("post")
  BY DEF Post, At, Bridging
<1>2. UNCHANGED <<market, inFlight, allowed, client, sizes, warmups, skipped, own,
                  seeds>>
  BY DEF Post
<1>3. PICK t \in init.cursor .. arrived :
         \/ /\ t = init.cursor
            /\ Goto("status") /\ UNCHANGED <<entry, seq, feed, bridge, faults>>
         \/ /\ t > init.cursor
            /\ ServerTakes(t)
            /\ seq' = NumberOf(t) + 1
            /\ init' = [init EXCEPT !.at = "status", !.cursor = t,
                                    !.last = feed'.last]
            /\ entry' = [entry EXCEPT !.last = t]
            /\ UNCHANGED faults
         \/ ServerTakes(t) /\ CallFails /\ UNCHANGED seq
  BY DEF Post
<1>4. /\ ~seeded /\ ~init.ready /\ allowed = FALSE /\ entry.state = "BRIDGING"
      /\ warmed > 0 /\ init \in Threads /\ entry \in Entries
      /\ init.cursor \in Nat /\ t \in Nat /\ init.cursor <= t /\ t \in 0 .. arrived
      /\ seq \in Nat \ {0} /\ faults \in Nat /\ init.warm \in Warm
      /\ seq = init.warm + 1 + init.cursor
  <2>1. /\ ~seeded /\ ~init.ready /\ allowed = FALSE /\ entry.state = "BRIDGING"
        /\ warmed > 0 /\ init \in Threads /\ entry \in Entries
        /\ init.warm \in Warm /\ seq = init.warm + 1 + init.cursor
    BY <1>1, BridgeClosed
  <2>2. init.cursor \in 0 .. arrived /\ seq \in Nat \ {0}
    BY DEF IInv, Types
  <2>3. arrived \in Nat /\ faults \in Nat
    BY Numbers
  <2> QED BY <2>1, <2>2, <2>3
<1>5. /\ feed' \in [last : Nat, tick : 0 .. arrived]
      /\ feed'.last \in Nat
      /\ (feed'.tick > 0 => feed'.last > 0)
      /\ bridged' \subseteq Nat
      /\ bridged' # {} => feed'.last > MaxTicks
      /\ ~resized => /\ \A u \in bridged' : feed'.last >= warmed + u
                     /\ again' = {}
  <2>1. CASE ServerTakes(t)
    <3>1. feed' \in [last : Nat, tick : 0 .. arrived]
          /\ (feed'.tick > 0 => feed'.last > 0) /\ bridged' \subseteq Nat
          /\ (bridged' # {} => feed'.last > MaxTicks)
          /\ (~resized => /\ \A u \in bridged' : feed'.last >= warmed + u
                          /\ again' = {})
      BY <1>1, <2>1, ServerTakesShape
    <3> QED BY <3>1
  <2>2. CASE UNCHANGED <<feed, bridge>>
    BY <2>2 DEF IInv, Types, StepShape, NumberShape
  <2> QED BY <1>3, <2>1, <2>2
<1>6. /\ init' \in Threads /\ entry' \in Entries /\ faults' \in Nat
      /\ seq' \in Nat \ {0} /\ init'.warm = init.warm /\ ~init'.ready
      /\ faults' >= faults /\ (Retriable(entry') => faults' > faults)
      /\ init'.cursor \in {init.cursor, t}
      /\ \/ /\ init'.at \in {"status", "check"} /\ entry'.state = "BRIDGING"
            /\ seq' = init.warm + 1 + init'.cursor
         \/ init'.at = "seed" /\ entry'.state = "ERROR_PAUSED"
  <2>0. init.warm \in Nat
    BY <1>4, WarmSizes
  <2>1. CASE /\ Goto("status") /\ UNCHANGED <<entry, seq, faults>>
    <3>1. "status" \in Step
      BY DEF Step
    <3> QED BY <2>1, <3>1, <1>4 DEF Goto, Threads, Retriable
  <2>2. CASE /\ t > init.cursor
             /\ seq' = NumberOf(t) + 1
             /\ init' = [init EXCEPT !.at = "status", !.cursor = t,
                                     !.last = feed'.last]
             /\ entry' = [entry EXCEPT !.last = t]
             /\ UNCHANGED faults
    <3> DEFINE last == feed'.last
    <3>1. "status" \in Step /\ last \in Nat
      BY <1>5 DEF Step
    <3>2. seq' = init.warm + 1 + t /\ seq' \in Nat \ {0}
      BY <2>0, <2>2, <1>4 DEF NumberOf
    <3>3. /\ entry' \in Entries /\ entry'.state = "BRIDGING"
          /\ ~Retriable(entry')
      BY <2>2, <1>4 DEF Entries, Retriable
    <3>4. init' = [init EXCEPT !.at = "status", !.cursor = t, !.last = last]
      BY <2>2
    <3> HIDE DEF last
    <3>5. /\ init' \in Threads /\ init'.at = "status" /\ init'.cursor = t
          /\ init'.warm = init.warm /\ ~init'.ready
      BY <3>1, <3>4, <1>4 DEF Threads
    <3> QED BY <2>2, <3>2, <3>3, <3>5, <1>4
  <2>3. CASE CallFails /\ UNCHANGED seq
    <3>1. /\ init' \in Threads /\ entry' \in Entries
          /\ faults' = faults + 1 /\ faults' \in Nat
          /\ init'.cursor = init.cursor /\ init'.warm = init.warm
          /\ init'.ready = init.ready
          /\ \/ init'.at = "check" /\ entry' = entry
             \/ init'.at = "seed" /\ entry'.state = "ERROR_PAUSED"
      BY <1>1, <2>3, CallFailsShape
    <3> QED BY <2>3, <3>1, <1>4
  <2> QED BY <1>3, <2>1, <2>2, <2>3
<1>7. Types'
  <2>1. init.at # "off" /\ init'.at # "off" /\ arrived' = arrived
        /\ inFlight' = inFlight
    BY <1>1, <1>2, <1>6 DEF market
  <2> QED BY <1>2, <1>4, <1>5, <1>6, <2>1
          DEF IInv, Types, market, client, Entries, Threads
<1>8. StepShape'
  BY <1>1, <1>2, <1>4, <1>5, <1>6
     DEF IInv, StepShape, Started, Bridging, At, Retriable
<1>9. EntriesFollowReadiness'
  BY <1>2, <1>4 DEF EntriesFollowReadiness
<1>10. NumberShape'
  <2>1. Bridging' => init'.at \in {"status", "check"}
    BY <1>6 DEF Bridging
  <2>2. ~resized => init.warm = warmed
    BY <1>1 DEF IInv, NumberShape
  <2>3. init'.at \notin {"load", "backfill"}
    BY <1>6
  <2> QED BY <1>2, <1>4, <1>5, <1>6, <2>1, <2>2, <2>3 DEF NumberShape, At
<1>11. BridgeShape'
  <2>1. CASE ServerTakes(t)
    <3>1. SUFFICES ASSUME ~resized, ~halfway
                   PROVE  /\ \A u \in bridged' \union {init'.cursor} :
                                 1 .. u \subseteq bridged'
                          /\ bridged' # {} => feed'.last - warmed \in bridged'
      BY <1>2 DEF BridgeShape
    <3>2. /\ \A u \in bridged' \union {t} : 1 .. u \subseteq bridged'
          /\ bridged' # {} => feed'.last - warmed \in bridged'
      BY <1>1, <2>1, <3>1, ServerTakesShape
    <3>3. 1 .. init'.cursor \subseteq 1 .. t
      BY <1>4, <1>6
    <3> QED BY <3>2, <3>3
  <2>2. CASE UNCHANGED <<feed, bridge>> /\ init'.cursor = init.cursor
    BY <2>2, <1>2 DEF IInv, BridgeShape
  <2>3. Goto("status") => init'.cursor = init.cursor
    BY <1>4 DEF Goto, Threads
  <2> QED BY <1>3, <2>1, <2>2, <2>3
<1>12. WorkerShape'
  <2>1. /\ during = {}
        /\ ~halfway => /\ number + Len(queue) <= heard + 1
                       /\ read # 0 => read = number
    BY <1>4 DEF IInv, WorkerShape
  <2>2. ~halfway => /\ bridged' = {} => feed'.last <= MaxTicks
                    /\ ahead = {} /\ feed'.tick > 0 => feed'.tick \in bridged'
    <3>1. CASE ServerTakes(t)
      BY <1>1, <3>1, ServerTakesShape
    <3>2. CASE UNCHANGED <<feed, bridge>>
      BY <3>2, <1>4 DEF IInv, WorkerShape
    <3> QED BY <1>3, <3>1, <3>2
  <2> QED BY <1>2, <2>1, <2>2 DEF WorkerShape
<1>13. WarmupShape'
  <2>1. warmups' = warmups /\ warmups <= faults + 1
        /\ warmups \in Nat /\ faults \in Nat
        /\ faults' \in Nat /\ faults' >= faults
    BY <1>2, <1>6, Numbers DEF IInv, WarmupShape
  <2>2. warmups' <= faults' + 1 /\ (faults' > faults => warmups' <= faults')
    BY <2>1, Counting
  <2>3. ~At("load")' /\ ~At("backfill")' /\ (Retriable(entry)' <=> Retriable(entry'))
    BY <1>6 DEF At, Retriable
  <2> QED BY <1>6, <2>2, <2>3 DEF WarmupShape
<1>14. HandShape'
  BY <1>2, <1>4, <1>6 DEF IInv, HandShape, At
<1> QED BY <1>7, <1>8, <1>9, <1>10, <1>11, <1>12, <1>13, <1>14 DEF IInv

LEMMA StatusIInv == ASSUME IInv, Status PROVE IInv'
<1>1. init.at = "status" /\ Bridging
  BY DEF Status, At, Bridging
<1>2. UNCHANGED <<market, inFlight, seq, allowed, client, feed, sizes, warmups,
                  bridge, own, seeds>>
  BY DEF Status
<1>3. /\ init \in Threads /\ entry \in Entries /\ entry.state = "BRIDGING"
      /\ ~init.ready /\ faults \in Nat /\ feed.last \in Nat
      /\ feed.tick \in 0 .. arrived /\ feed.tick \in Nat /\ old \in Nat
      /\ (feed.tick > 0 => feed.last > 0)
  <2>1. /\ init \in Threads /\ entry \in Entries /\ entry.state = "BRIDGING"
        /\ ~init.ready
    BY <1>1, BridgeClosed
  <2>2. feed \in [last : Nat, tick : 0 .. arrived]
    BY Records
  <2>3. arrived \in Nat /\ faults \in Nat /\ old \in 0 .. arrived
    BY Numbers
  <2>4. feed.tick > 0 => feed.last > 0
    BY DEF IInv, StepShape
  <2> QED BY <2>1, <2>2, <2>3, <2>4
<1> DEFINE known == [entry EXCEPT !.last = IF feed.tick = 0 THEN @ ELSE feed.tick]
<1>4. known \in Entries /\ known.state = "BRIDGING"
  BY <1>3 DEF Entries
<1> HIDE DEF known
<1>5. CASE /\ init.cursor >= Need /\ feed.tick > old
           /\ entry' = [known EXCEPT !.state = "READY", !.reason = <<>>]
           /\ init' = [init EXCEPT !.at = "seed", !.last = feed.last,
                                   !.ready = TRUE]
           /\ skipped' = (1 .. old) \ Counted
           /\ UNCHANGED faults
  <2>1. "READY" \in State /\ <<>> \in Reasons /\ "seed" \in Step
    BY DEF State, Reasons, Step
  <2>2. entry' \in Entries /\ entry'.state = "READY" /\ ~Retriable(entry')
    BY <1>4, <1>5, <2>1 DEF Entries, Retriable
  <2>3. /\ init' \in Threads /\ init'.at = "seed" /\ init'.ready
        /\ init'.last = feed.last /\ init'.cursor = init.cursor
        /\ init'.warm = init.warm
    BY <1>3, <1>5, <2>1 DEF Threads
  <2>4. feed.last > 0 /\ faults' \in Nat /\ faults' >= faults
    BY <1>3, <1>5
  <2>5. skipped' # {} => ahead # {} \/ halfway \/ resized
    <3>1. SUFFICES ASSUME ahead = {}, ~halfway, ~resized
                   PROVE  skipped' = {}
      OBVIOUS
    <3>2. ~seeded
      BY <1>1, BridgeClosed
    <3>3. feed.tick \in bridged
      BY <1>3, <1>5, <3>1, <3>2 DEF IInv, WorkerShape
    <3>4. 1 .. feed.tick \subseteq bridged
      BY <3>1, <3>3 DEF IInv, BridgeShape
    <3>5. 1 .. old \subseteq 1 .. feed.tick
      BY <1>3, <1>5
    <3> QED BY <1>5, <3>4, <3>5 DEF Counted
  <2> QED BY <1>1, <1>2, <2>2, <2>3, <2>4, <2>5, BridgeStep
<1> DEFINE excused == skipped' # {} => ahead # {} \/ halfway \/ resized
<1>6. UNCHANGED skipped => excused
  BY DEF IInv, HandShape
<1>7. CASE entry' = known /\ Goto("check") /\ UNCHANGED <<faults, skipped>>
  <2>1. "check" \in Step
    BY DEF Step
  <2>2. /\ init' \in Threads /\ init'.at = "check" /\ ~init'.ready
        /\ init'.cursor = init.cursor /\ init'.warm = init.warm
    BY <1>3, <1>7, <2>1 DEF Goto, Threads
  <2>3. /\ faults' \in Nat /\ faults' >= faults
        /\ entry' \in Entries /\ entry'.state = "BRIDGING" /\ ~Retriable(entry')
    BY <1>3, <1>4, <1>7 DEF Retriable
  <2> QED BY <1>1, <1>2, <1>7, <1>6, <2>2, <2>3, BridgeStep
<1>8. CASE CallFails /\ UNCHANGED skipped
  <2>1. /\ init' \in Threads /\ entry' \in Entries
        /\ faults' = faults + 1 /\ faults' \in Nat
        /\ init'.cursor = init.cursor /\ init'.warm = init.warm
        /\ init'.ready = init.ready
        /\ \/ init'.at = "check" /\ entry' = entry
           \/ init'.at = "seed" /\ entry'.state = "ERROR_PAUSED"
    BY <1>1, <1>8, CallFailsShape
  <2>2. faults' > faults /\ faults' >= faults
    BY <1>3, <2>1
  <2> QED BY <1>1, <1>2, <1>3, <1>8, <1>6, <2>1, <2>2, BridgeStep
<1> QED BY <1>5, <1>7, <1>8 DEF Status, known

LEMMA CheckIInv == ASSUME IInv, Check PROVE IInv'
<1>1. init.at = "check" /\ Bridging
  BY DEF Check, At, Bridging
<1>2. UNCHANGED <<market, inFlight, seq, allowed, client, feed, histories>>
      /\ faults' = faults /\ (skipped' # {} => ahead # {} \/ halfway \/ resized)
  BY DEF Check, IInv, HandShape
<1>3. /\ init \in Threads /\ entry \in Entries /\ entry.state = "BRIDGING"
      /\ ~init.ready /\ faults \in Nat
  BY <1>1, BridgeClosed, Numbers
<1>4. CASE /\ entry' = [MarkErrorPaused(entry, <<"timeout">>) EXCEPT
                             !.timedOut = TRUE]
           /\ Goto("seed")
  <2>1. "ERROR_PAUSED" \in State /\ <<"timeout">> \in Reasons /\ "seed" \in Step
    BY DEF State, Reasons, Step
  <2>2. entry' \in Entries /\ entry'.state = "ERROR_PAUSED" /\ ~Retriable(entry')
    BY <1>3, <1>4, <2>1 DEF Entries, MarkErrorPaused, Retriable
  <2>3. /\ init' \in Threads /\ init'.at = "seed" /\ ~init'.ready
        /\ init'.cursor = init.cursor /\ init'.warm = init.warm
    BY <1>3, <1>4, <2>1 DEF Goto, Threads
  <2> QED BY <1>1, <1>2, <1>3, <2>2, <2>3, BridgeStep
<1>5. CASE Goto("post") /\ entry' = entry
  <2>1. "post" \in Step
    BY DEF Step
  <2>2. /\ init' \in Threads /\ init'.at = "post" /\ ~init'.ready
        /\ init'.cursor = init.cursor /\ init'.warm = init.warm
    BY <1>3, <1>5, <2>1 DEF Goto, Threads
  <2>3. ~Retriable(entry')
    BY <1>3, <1>5 DEF Retriable
  <2> QED BY <1>1, <1>2, <1>3, <1>5, <2>2, <2>3, BridgeStep
<1> QED BY <1>4, <1>5 DEF Check

LEMMA SeedIInv == ASSUME IInv, Seed PROVE IInv'
<1>1. /\ init.at = "seed" /\ ~seeded
      /\ init \in Threads /\ init.last \in Nat /\ number \in Nat \ {0}
      /\ feed.last \in Nat /\ read \in Nat /\ disturbed \in BOOLEAN
      /\ (Started => init.ready) /\ (init.ready => Started /\ init.last > 0)
  BY Numbers DEF IInv, Types, StepShape, Seed, At, Threads
<1>2. UNCHANGED <<market, entry, inFlight, seq, allowed, queue, read, feed,
                  faults, sizes, warmups, bridge, skipped, own>>
  BY DEF Seed
<1>3. /\ init' \in Threads /\ init'.at = "report" /\ init'.ready = init.ready
      /\ init'.cursor = init.cursor
  <2>1. "report" \in Step
    BY DEF Step
  <2>2. init' = [init EXCEPT !.at = "report"]
    BY DEF Seed, Goto
  <2> QED BY <2>1, <2>2, <1>1 DEF Threads
<1>4. /\ number' \in Nat \ {0} /\ seeded' = init.ready /\ disturbed' \in BOOLEAN
      /\ init.ready => /\ number' = init.last + 1
                       /\ disturbed' = (disturbed \/ number > init.last + 1)
      /\ ~init.ready => disturbed' = disturbed
      /\ (halfway => halfway') /\ halfway' \in BOOLEAN
      /\ ~seeded' /\ ~halfway' => number' = number
  <2>1. CASE init.last = 0
    <3>1. init.ready = FALSE /\ seeded = FALSE
      <4>1. init.ready \in BOOLEAN /\ seeded \in BOOLEAN
        BY DEF IInv, Types
      <4> QED BY <4>1, <1>1, <2>1
    <3>2. UNCHANGED <<number, seeded, halfway, disturbed>> /\ halfway \in BOOLEAN
      BY <2>1 DEF Seed, IInv, Types
    <3> QED BY <3>1, <3>2, <1>1
  <2>2. CASE init.last # 0
    <3>1. /\ number' = init.last + 1 /\ seeded' = (seeded \/ init.ready)
          /\ halfway' = (halfway \/ ~init.ready)
          /\ disturbed' = (disturbed \/ (init.ready /\ number > init.last + 1))
      BY <2>2 DEF Seed
    <3>2. /\ init.ready \in BOOLEAN /\ seeded = FALSE /\ disturbed \in BOOLEAN
          /\ halfway \in BOOLEAN
      BY <1>1 DEF IInv, Types, Threads
    <3>3. number' \in Nat \ {0}
      BY <3>1, <1>1
    <3>4. CASE init.ready = TRUE
      BY <3>1, <3>2, <3>3, <3>4
    <3>5. CASE init.ready = FALSE
      BY <3>1, <3>2, <3>3, <3>5
    <3> QED BY <3>2, <3>4, <3>5
  <2> QED BY <2>1, <2>2
<1>5. Types'
  <2>1. inFlight' = (init'.at # "off")
    BY <1>1, <1>2, <1>3 DEF IInv, Types
  <2>2. seeded' \in BOOLEAN
    BY <1>1, <1>4 DEF Threads
  <2> QED BY <1>2, <1>3, <1>4, <2>1, <2>2 DEF IInv, Types, Threads
<1>6. StepShape'
  BY <1>1, <1>2, <1>3, <1>4
     DEF IInv, StepShape, Started, Bridging, At, Retriable
<1>7. EntriesFollowReadiness'
  BY <1>1, <1>2, <1>3, <1>4 DEF IInv, EntriesFollowReadiness, Started, At
<1>8. NumberShape'
  BY <1>1, <1>2, <1>3 DEF IInv, NumberShape, Bridging, At
<1>9. BridgeShape'
  BY <1>1, <1>2, <1>3, <1>4 DEF IInv, BridgeShape
<1>10. WorkerShape'
  BY <1>1, <1>2, <1>4 DEF IInv, WorkerShape
<1>11. WarmupShape'
  BY <1>1, <1>2, <1>3 DEF IInv, WarmupShape, At, Retriable
<1>12. HandShape'
  <2>1. init.ready /\ ~disturbed' => number' > feed'.last
    <3>1. SUFFICES ASSUME init.ready, ~disturbed'
                   PROVE  init.last + 1 > feed.last
      BY <1>2, <1>4
    <3>2. ~(number > init.last + 1)
      BY <3>1, <1>4
    <3>3. feed.last > init.last => number > feed.last
      BY <1>1, <3>1 DEF IInv, HandShape, At
    <3> QED BY <3>2, <3>3, <1>1
  <2>2. denied' # {} => disturbed'
    <3>1. denied # {} => disturbed
      BY DEF IInv, HandShape
    <3>2. disturbed => disturbed'
      BY <1>1, <1>4 DEF Threads
    <3> QED BY <3>1, <3>2, <1>2
  <2>3. skipped' # {} => ahead' # {} \/ halfway' \/ resized'
    BY <1>2, <1>4 DEF IInv, HandShape
  <2> QED BY <2>1, <2>2, <2>3, <1>3, <1>4 DEF HandShape, At
<1> QED BY <1>5, <1>6, <1>7, <1>8, <1>9, <1>10, <1>11, <1>12 DEF IInv

\* The thread on its way out: the entry has failed, or the final seed has been.
LEMMA WayOut ==
    ASSUME IInv, init.at \in {"report", "caught", "closing"},
           init'.at \in {"caught", "closing", "leave"},
           UNCHANGED <<market, inFlight, seq, client, feed, histories>>,
           init' \in Threads, entry' \in Entries, faults' \in Nat,
           faults' >= faults,
           init'.cursor = init.cursor, init'.ready = init.ready,
           \/ /\ entry' = entry
              /\ allowed' = Tradable(entry)
           \/ /\ entry'.state = "ERROR_PAUSED" /\ ~Retriable(entry')
              /\ init'.at = "closing" /\ allowed' = allowed
    PROVE  IInv'
<1>1. /\ init.at # "off" /\ init'.at # "off" /\ allowed' \in BOOLEAN
  BY DEF IInv, Types, Tradable
<1>2. Types'
  <2>1. /\ seq' \in Nat \ {0} /\ warmed' \in Nat /\ resized' \in BOOLEAN
        /\ warmups' \in Nat
    BY <1>1 DEF IInv, Types
  <2> QED BY <1>1, <2>1, ThreadTypes
<1>3. StepShape'
  BY <1>1 DEF IInv, StepShape, Started, Bridging, At, Retriable
<1>4. EntriesFollowReadiness'
  <2>1. CASE entry' = entry /\ allowed' = Tradable(entry)
    <3>1. Tradable(entry) => Started
      <4>1. entry.state \in State
        BY DEF IInv, Types
      <4> QED BY <4>1 DEF Tradable, Refreshed, Started, State
    <3>2. Started => seeded
      BY DEF IInv, StepShape, At
    <3> QED BY <2>1, <3>1, <3>2, <1>1 DEF EntriesFollowReadiness, Started
  <2>2. CASE init'.at = "closing"
    BY <2>2 DEF EntriesFollowReadiness
  <2> QED BY <2>1, <2>2
<1>5. NumberShape'
  BY <1>1 DEF IInv, NumberShape, Bridging, At
<1>6. BridgeShape' /\ WorkerShape' /\ HandShape'
  BY <1>1 DEF IInv, BridgeShape, WorkerShape, HandShape, At
<1>7. WarmupShape'
  <2>1. /\ warmups' = warmups /\ warmups <= faults + 1
        /\ (Retriable(entry) => warmups <= faults)
        /\ warmups \in Nat /\ faults \in Nat /\ faults' \in Nat /\ faults' >= faults
    BY Numbers DEF IInv, WarmupShape
  <2>2. warmups' <= faults' + 1 /\ (warmups <= faults => warmups' <= faults')
    BY <2>1, Counting
  <2>3. Retriable(entry)' => Retriable(entry)
    BY DEF Retriable
  <2>4. ~At("load")' /\ ~At("backfill")'
    BY DEF At
  <2> QED BY <2>1, <2>2, <2>3, <2>4 DEF WarmupShape
<1> QED BY <1>2, <1>3, <1>4, <1>5, <1>6, <1>7 DEF IInv

LEMMA ReportIInv == ASSUME IInv, Report PROVE IInv'
<1>1. /\ init.at = "report" /\ init \in Threads /\ entry \in Entries
      /\ faults \in Nat
  BY DEF IInv, Types, Report, At, Threads, Entries
<1>2. UNCHANGED <<market, inFlight, seq, client, feed, histories>>
  BY DEF Report
<1> DEFINE next == [init EXCEPT !.at = "leave"]
<1>3. /\ next \in Threads /\ next.at = "leave" /\ next.cursor = init.cursor
      /\ next.ready = init.ready
  <2>1. "leave" \in Step
    BY DEF Step
  <2> QED BY <2>1, <1>1 DEF Threads
<1> HIDE DEF next
<1>4. /\ entry' = entry /\ allowed' = Tradable(entry)
      /\ \/ init' = next /\ faults' = faults
         \/ init' = [next EXCEPT !.at = "caught"] /\ faults' = faults + 1
  BY DEF Report, Publish, Fault, next
<1>5. /\ init' \in Threads /\ init'.at \in {"leave", "caught"}
      /\ init'.cursor = init.cursor /\ init'.ready = init.ready
  <2>1. "caught" \in Step
    BY DEF Step
  <2> QED BY <2>1, <1>3, <1>4 DEF Threads
<1>6. faults' \in Nat /\ faults' >= faults /\ entry' \in Entries
  BY <1>1, <1>4
<1> QED BY <1>1, <1>2, <1>4, <1>5, <1>6, WayOut

LEMMA CaughtIInv == ASSUME IInv, Caught PROVE IInv'
<1>1. /\ init.at = "caught" /\ init \in Threads /\ entry \in Entries
      /\ faults \in Nat /\ init.why \in Why
  BY Numbers DEF IInv, Types, Caught, At, Threads, Entries
<1>2. /\ UNCHANGED <<market, inFlight, seq, client, feed, histories>>
      /\ allowed' = allowed /\ faults' = faults
  BY DEF Caught
<1> DEFINE reason == <<"startup">> \o init.why
<1>3. reason \in Reasons /\ reason # <<>> /\ Head(reason) # "bridge"
  <2>1. CASE init.why = <<>>
    <3>1. reason = <<"startup">>
      BY <2>1
    <3> QED BY <3>1 DEF Reasons
  <2>2. CASE init.why = <<"bridge">>
    <3>1. reason = <<"startup", "bridge">>
      <4> DEFINE S == {"startup", "bridge"}
      <4> DEFINE s1 == <<"startup">>
      <4> DEFINE s2 == <<"bridge">>
      <4> DEFINE both == <<"startup", "bridge">>
      <4>1. /\ s1 \in Seq(S) /\ Len(s1) = 1 /\ s1[1] = "startup"
            /\ s2 \in Seq(S) /\ Len(s2) = 1 /\ s2[1] = "bridge"
            /\ both \in Seq(S) /\ Len(both) = 2
            /\ both[1] = "startup" /\ both[2] = "bridge"
        OBVIOUS
      <4>2. reason = s1 \o s2
        BY <2>2
      <4> HIDE DEF S, s1, s2, both, reason
      <4>3. /\ s1 \o s2 \in Seq(S) /\ Len(s1 \o s2) = Len(s1) + Len(s2)
            /\ \A i \in 1 .. Len(s1) + Len(s2) : (s1 \o s2)[i] =
                   IF i <= Len(s1) THEN s1[i] ELSE s2[i - Len(s1)]
        BY <4>1, ConcatProperties
      <4>4. \A i \in 1 .. 2 : (s1 \o s2)[i] = both[i]
        <5> SUFFICES ASSUME NEW i \in 1 .. 2 PROVE (s1 \o s2)[i] = both[i]
          OBVIOUS
        <5> QED BY <4>1, <4>3
      <4>5. s1 \o s2 = both
        BY <4>1, <4>3, <4>4, SeqEqual
      <4> QED BY <4>2, <4>5 DEF both
    <3> HIDE DEF reason
    <3>2. reason \in Reasons
      BY <3>1 DEF Reasons
    <3>3. Len(reason) = 2 /\ reason[1] = "startup"
      BY <3>1
    <3>4. reason # <<>> /\ Head(reason) # "bridge"
      BY <3>1, <3>3
    <3> QED BY <3>2, <3>4
  <2> QED BY <1>1, <2>1, <2>2 DEF Why
<1> HIDE DEF reason
<1>4. entry' = [entry EXCEPT !.state = "ERROR_PAUSED", !.reason = reason]
  BY DEF Caught, MarkErrorPaused, reason
<1>5. /\ entry' \in Entries /\ entry'.state = "ERROR_PAUSED"
      /\ entry'.reason = reason
  <2>1. "ERROR_PAUSED" \in State
    BY DEF State
  <2> QED BY <2>1, <1>1, <1>3, <1>4 DEF Entries
<1>6. /\ init' \in Threads /\ init'.at = "closing" /\ init'.cursor = init.cursor
      /\ init'.ready = init.ready
  <2>1. "closing" \in Step
    BY DEF Step
  <2>2. init' = [init EXCEPT !.at = "closing"]
    BY DEF Caught, Goto
  <2> QED BY <2>1, <2>2, <1>1 DEF Threads
<1>7. ~Retriable(entry')
  BY <1>3, <1>5 DEF Retriable
<1> QED BY <1>1, <1>2, <1>5, <1>6, <1>7, WayOut

LEMMA ClosingIInv == ASSUME IInv, Closing PROVE IInv'
<1>1. /\ init.at = "closing" /\ init \in Threads /\ entry \in Entries
      /\ faults \in Nat
  BY DEF IInv, Types, Closing, At, Threads, Entries
<1>2. /\ UNCHANGED <<market, entry, inFlight, seq, client, feed, faults, histories>>
      /\ allowed' = Tradable(entry)
  BY DEF Closing
<1>3. /\ init' \in Threads /\ init'.at = "leave" /\ init'.cursor = init.cursor
      /\ init'.ready = init.ready
  <2>1. "leave" \in Step
    BY DEF Step
  <2>2. init' = [init EXCEPT !.at = "leave"]
    BY DEF Closing, Goto
  <2> QED BY <2>1, <2>2, <1>1 DEF Threads
<1> QED BY <1>1, <1>2, <1>3, WayOut

LEMMA StutterIInv == ASSUME IInv, UNCHANGED vars PROVE IInv'
<1>1. Types' /\ StepShape' /\ EntriesFollowReadiness' /\ NumberShape'
  BY DEF IInv, Types, StepShape, Started, Bridging, At, Retriable,
         EntriesFollowReadiness, NumberShape, vars
<1>2. BridgeShape' /\ WorkerShape' /\ WarmupShape' /\ HandShape'
  BY DEF IInv, BridgeShape, WorkerShape, WarmupShape, HandShape, At, Retriable,
         vars
<1> QED BY <1>1, <1>2 DEF IInv

LEMMA StepIInv == ASSUME IInv, [Next]_vars PROVE IInv'
<1>1. CASE LiveTick
  BY <1>1, LiveTickIInv
<1>2. CASE Heartbeat
  BY <1>2, HeartbeatIInv
<1>3. CASE Quiet
  BY <1>3, QuietIInv
<1>4. CASE Worker
  BY <1>4, ReadNumberIInv, PostTickIInv DEF Worker
<1>5. CASE Startup
  BY <1>5, LoadIInv, BackfillIInv, PostIInv, StatusIInv, CheckIInv, SeedIInv,
     ReportIInv, CaughtIInv, ClosingIInv, LeaveIInv DEF Startup
<1>6. CASE Expire
  BY <1>6, ExpireIInv
<1>7. CASE Arrive
  BY <1>7, ArriveIInv
<1>8. CASE UNCHANGED vars
  BY <1>8, StutterIInv
<1> QED BY <1>1, <1>2, <1>3, <1>4, <1>5, <1>6, <1>7, <1>8 DEF Next

-----------------------------------------------------------------------------
\* The invariant of the hand-over: what the startup thread's step says of the
\* registry's entry, of the numbers and the extent of what it has bridged, of
\* the worker's counter and of the calls that have failed, whatever the order
\* of ticks, heartbeats and failures.
THEOREM ReadinessInvariant == Spec => []IInv
<1>1. IInv /\ [Next]_vars => IInv'
  BY StepIInv
<1> QED BY <1>1, InitIInv, PTL DEF Spec

\* Types; and the startup thread has work exactly while its symbol is in flight.
THEOREM TypesHold == Spec => []TypeOK
<1>1. IInv => TypeOK
  <2> SUFFICES ASSUME IInv PROVE TypeOK
    OBVIOUS
  <2>1. queue \in Seq(1 .. MaxTicks)
    <3>1. 1 .. heard \subseteq 1 .. MaxTicks
      BY Numbers
    <3> QED BY <3>1, Queue, SeqMonotonic
  <2> QED BY <2>1 DEF IInv, Types, TypeOK, Reasons
<1> QED BY <1>1, ReadinessInvariant, PTL

\* Entries pass only when a bridge was complete and the worker has its number
\* or is about to, but for the moment before a failure is published.
THEOREM EntriesFollow == Spec => []EntriesFollowReadiness
<1>1. IInv => EntriesFollowReadiness
  BY DEF IInv
<1> QED BY <1>1, ReadinessInvariant, PTL

\* Warm-up, bridge and worker hand the stream over, and the server repeats and
\* loses no tick of it but in the cases RepeatsNamed and LossesNamed name.
THEOREM HandoverHolds == Spec => []HandoverExact
<1>1. IInv => HandoverExact
  <2> SUFFICES ASSUME IInv PROVE RepeatsNamed /\ LossesNamed
    BY DEF HandoverExact
  <2>1. warmups <= faults + 1
    BY DEF IInv, WarmupShape
  <2>2. again # {} => resized
    BY DEF IInv, NumberShape
  <2>3. during = {}
    BY DEF IInv, WorkerShape
  <2>4. ~resized /\ ~halfway =>
            \A u \in bridged \union {init.cursor} : 1 .. u \subseteq bridged
    BY DEF IInv, BridgeShape
  <2>5. /\ skipped # {} => ahead # {} \/ halfway \/ resized
        /\ denied # {} => disturbed
    BY DEF IInv, HandShape
  <2> QED BY <2>1, <2>2, <2>3, <2>4, <2>5 DEF RepeatsNamed, LossesNamed
<1> QED BY <1>1, ReadinessInvariant, PTL
=============================================================================
