------------------------------ MODULE Metering ------------------------------
(***************************************************************************)
(* Usage metering: agents that share one LLM backend and its UsageMeter    *)
(* (silo-core/src/cost.rs, the `complete` methods of silo-llm), the        *)
(* cost_report events they emit, and the places a report ends up: the      *)
(* interactive frontend's cost cache, a terminal client, and the headless  *)
(* frontend's closing lines.                                               *)
(*                                                                         *)
(* The provider reports one input and one output token per request, so a   *)
(* request's usage is RequestUsage.  A report is the token total of its    *)
(* snapshot; dollars are a linear function of the two counts.  On the      *)
(* event bus a report is numbered and broadcast in two steps, among other  *)
(* events; a receiver more than RingCap broadcasts behind has lagged.      *)
(***************************************************************************)
EXTENDS Naturals, Sequences, FiniteSets, FiniteSetsExt

CONSTANTS
    Callers,        \* tasks that call the backend: the top-level agent, subagents
    Quota,          \* max_total_tokens
    MaxModelCalls,  \* requests over all agents
    Attempts,       \* MAX_ATTEMPTS / RETRY_ATTEMPTS
    RingCap,        \* capacity of the broadcast channel
    MaxOthers       \* bound: events that are no cost reports

ASSUME MeteringAssumption ==
    /\ IsFiniteSet(Callers) /\ Callers # {}
    /\ {Quota, MaxModelCalls, MaxOthers} \subseteq Nat
    /\ {Attempts, RingCap} \subseteq Nat \ {0}

RequestUsage == 2

VARIABLES
    reader,         \* "interactive" or "headless" (rigid)
    input, output,  \* the meter
    call,           \* where each agent is in its request
    tries,          \* attempts made by the agent's current request
    summed,         \* what the agent's snapshot has read so far
    started,        \* requests started
    number,         \* the number of the agent's event, until it is broadcast
    history,        \* the bus's events: the total of a report, 0 for another event
    ring,           \* event numbers in the order they were broadcast
    position,       \* broadcasts each receiver has read
    next,           \* the number each receiver expects
    total,          \* what it holds: the cost cache or the tracker's map, and the
                    \* total a terminal client shows (0: no entry)
    crossed,        \* whether a report was numbered after one of a later snapshot (history)
    outdated,       \* whether the client last got a cost reply older than its events (history)
    printed,        \* the total of the headless closing line, once printed
    ended           \* whether the frontend has been shut down

meterVars == <<input, output, call, tries, summed, started>>
busVars == <<number, history, ring, crossed>>
viewVars == <<position, next, total, outdated>>
meteringVars == <<reader, meterVars, busVars, viewVars, printed, ended>>

Receivers == {"cache", "client"}

Used == input + output

MeteringInit ==
    /\ reader \in {"interactive", "headless"}
    /\ input = 0 /\ output = 0
    /\ call = [a \in Callers |-> "idle"]
    /\ tries = [a \in Callers |-> 0]
    /\ summed = [a \in Callers |-> 0]
    /\ started = 0
    /\ number = [a \in Callers |-> 0]
    /\ history = <<>> /\ ring = <<>>
    /\ position = [r \in Receivers |-> 0]
    /\ next = [r \in Receivers |-> 1]
    /\ total = [r \in Receivers |-> 0]
    /\ crossed = FALSE /\ outdated = FALSE
    /\ printed = 0
    /\ ended = FALSE

----------------------------------------------------------------------------
(* The backend: complete. *)

Step(a, from, to) == call[a] = from /\ call' = [call EXCEPT ![a] = to]

\* Mutant: only the input tokens count against the quota.
QuotaReachedByInput(a) == summed[a] >= Quota

\* total_tokens of the snapshot, at the second of its two loads.
QuotaReached(a) == summed[a] + output >= Quota

\* UsageMeter::check_quota, on the token limit.
CheckQuota(a) ==
    /\ started < MaxModelCalls
    /\ started' = started + 1
    /\ Step(a, "idle", "checking")
    /\ summed' = [summed EXCEPT ![a] = input]
    /\ UNCHANGED <<reader, input, output, tries, busVars, viewVars, printed, ended>>

\* A refused request fails the turn; the agent may ask again.
CheckedQuota(a) ==
    /\ Step(a, "checking", IF QuotaReached(a) THEN "idle" ELSE "sending")
    /\ summed' = [summed EXCEPT ![a] = 0]
    /\ UNCHANGED <<reader, input, output, tries, started, busVars, viewVars, printed, ended>>

\* retry_with_backoff and is_retryable: transport failures, 429 and 5xx.
MayRetry(kind, made) == made < Attempts /\ kind = "transient"

\* One attempt of send_once / run_session, and the parsing of its answer.  The
\* WebSocket backend's CALL_TIMEOUT covers all attempts and ends the request
\* like a permanent failure.
Attempt(a) ==
    /\ \/ Step(a, "sending", "answered")
       \/ \E kind \in {"transient", "permanent"} :
             Step(a, "sending", IF MayRetry(kind, tries[a] + 1) THEN "sending" ELSE "idle")
    /\ tries' = [tries EXCEPT ![a] = IF call'[a] = "sending" THEN @ + 1 ELSE 0]
    /\ UNCHANGED <<reader, input, output, summed, started, busVars, viewVars, printed, ended>>

\* UsageMeter::record: two additions.
RecordInput(a) ==
    /\ Step(a, "answered", "halfRecorded")
    /\ input' = input + 1
    /\ UNCHANGED <<reader, output, tries, summed, started, busVars, viewVars, printed, ended>>

RecordOutput(a) ==
    /\ Step(a, "halfRecorded", "recorded")
    /\ output' = output + 1
    /\ UNCHANGED <<reader, input, tries, summed, started, busVars, viewVars, printed, ended>>

\* UsageMeter::snapshot for the cost_report: two loads.
LoadInput(a) ==
    /\ Step(a, "recorded", "halfLoaded")
    /\ summed' = [summed EXCEPT ![a] = input]
    /\ UNCHANGED <<reader, input, output, tries, started, busVars, viewVars, printed, ended>>

LoadOutput(a) ==
    /\ Step(a, "halfLoaded", "loaded")
    /\ summed' = [summed EXCEPT ![a] = @ + output]
    /\ UNCHANGED <<reader, input, output, tries, started, busVars, viewVars, printed, ended>>

\* EventBus::emit of the cost_report: the event gets its number under the
\* history's lock and is broadcast after it.
Report(a) ==
    /\ Step(a, "loaded", "numbered")
    /\ history' = Append(history, summed[a])
    /\ number' = [number EXCEPT ![a] = Len(history) + 1]
    /\ crossed' = (crossed \/ \E i \in DOMAIN history : history[i] > summed[a])
    /\ summed' = [summed EXCEPT ![a] = 0]
    /\ UNCHANGED <<reader, input, output, tries, started, ring, viewVars, printed, ended>>

Broadcast(a) ==
    /\ Step(a, "numbered", "idle")
    /\ ring' = Append(ring, number[a])
    /\ number' = [number EXCEPT ![a] = 0]
    /\ UNCHANGED <<reader, input, output, tries, summed, started, history, crossed, viewVars,
                   printed, ended>>

\* Any other event, of another task.
OtherEvent ==
    /\ Cardinality({i \in DOMAIN history : history[i] = 0}) < MaxOthers
    /\ history' = Append(history, 0)
    /\ ring' = Append(ring, Len(history) + 1)
    /\ UNCHANGED <<reader, meterVars, number, crossed, viewVars, printed, ended>>

----------------------------------------------------------------------------
(* The places a report ends up. *)

Behind(r) == Len(ring) - position[r]
Lagged(r) == Behind(r) > RingCap

Reports == {i \in DOMAIN history : history[i] # 0}

\* What a receiver holds after it has applied the events of a set.
Applied(r, events) ==
    LET news == events \cap Reports IN
    IF news = {} THEN total[r] ELSE history[Max(news)]

Holds(r, events, expected) ==
    /\ total' = [total EXCEPT ![r] = Applied(r, events)]
    /\ next' = [next EXCEPT ![r] = expected]
    /\ outdated' = (outdated /\ (r = "client" => events \cap Reports = {}))

Advance(r, n) == position' = [position EXCEPT ![r] = @ + n]

\* Mutant: a receiver that has lagged goes on with what is left in the channel.
RefillNot(r) ==
    /\ Advance(r, Behind(r) - RingCap)
    /\ Holds(r, {}, next[r])

\* Lagged: everything from the expected number on is read from the history; the
\* receiver goes on with the oldest broadcast the channel still has.
Refill(r) ==
    /\ Advance(r, Behind(r) - RingCap)
    /\ Holds(r, next[r]..Len(history), Len(history) + 1)

\* cost_watcher, and the event pump of the client's connection: an event below
\* the expected number is taken for one already handled.
WatchReport(r) ==
    /\ reader = "interactive" /\ ~ended
    /\ Behind(r) > 0
    /\ \/ Lagged(r) /\ Refill(r)
       \/ /\ ~Lagged(r)
          /\ Advance(r, 1)
          /\ LET n == ring[position[r] + 1] IN
             IF n >= next[r] THEN Holds(r, {n}, n + 1)
             ELSE UNCHANGED <<next, total, outdated>>
    /\ UNCHANGED <<reader, meterVars, busVars, printed, ended>>

\* track_costs: a lag is skipped, and numbers are not looked at.
TrackReport ==
    /\ reader = "headless" /\ ~ended
    /\ Behind("cache") > 0
    /\ IF Lagged("cache") THEN Advance("cache", Behind("cache") - RingCap) /\ UNCHANGED total
       ELSE /\ Advance("cache", 1)
            /\ total' = [total EXCEPT !["cache"] =
                            Applied("cache", {ring[position["cache"] + 1]})]
    /\ UNCHANGED <<reader, meterVars, busVars, next, outdated, printed, ended>>

\* request_cost: the reply takes every entry of the cache; the client replaces
\* what it shows.
RequestCost ==
    /\ reader = "interactive" /\ ~ended
    /\ total["cache"] # 0
    /\ total' = [total EXCEPT !["client"] = total["cache"]]
    /\ outdated' = (next["cache"] < next["client"])
    /\ UNCHANGED <<reader, meterVars, busVars, position, next, printed, ended>>

\* HeadlessFrontend::shutdown: the tracker is aborted where it stands.
Shutdown ==
    /\ ~ended
    /\ \A a \in Callers : call[a] = "idle"
    /\ ended' = TRUE
    /\ printed' = IF reader = "headless" THEN total["cache"] ELSE 0
    /\ UNCHANGED <<reader, meterVars, busVars, viewVars>>

Completing(a) ==
    \/ CheckedQuota(a) \/ Attempt(a) \/ RecordInput(a) \/ RecordOutput(a)
    \/ LoadInput(a) \/ LoadOutput(a) \/ Report(a) \/ Broadcast(a)

MeteringNext ==
    \/ \E a \in Callers : ~ended /\ (CheckQuota(a) \/ Completing(a))
    \/ ~ended /\ OtherEvent
    \/ \E r \in Receivers : WatchReport(r)
    \/ TrackReport \/ RequestCost \/ Shutdown

\* Requests end (the HTTP clients have timeouts), and the frontend's tasks run.
MeteringFairness ==
    /\ \A a \in Callers : WF_meteringVars(Completing(a))
    /\ \A r \in Receivers : WF_meteringVars(WatchReport(r))
    /\ WF_meteringVars(TrackReport)

MeteringSpec == MeteringInit /\ [][MeteringNext]_meteringVars /\ MeteringFairness

----------------------------------------------------------------------------
(* Properties. *)

\* The quota is checked before a request and charged after it (cost.rs:85), so
\* what bounds the overshoot is the number of agents that can be between the
\* two at once: each adds at most one request's usage to a total that was
\* still below the quota, also when its two loads are of different moments.
OvershootBounded == Used < Quota + Cardinality(Callers) * RequestUsage

LastReport == Max(Reports)

\* A later event was broadcast first: receivers skip this one (mod.rs:385).
Overtaken(n) ==
    \E i, j \in DOMAIN ring : i < j /\ ring[j] = n /\ ring[i] > n

\* Once the agents have stopped, the cost cache and the client settle on the
\* report with the highest number, however far they fell behind (mod.rs:390),
\* unless another event overtook its broadcast; that report is the whole usage
\* unless reports of two agents crossed on their way to the bus.  Condition for
\* the client: its last cost reply was not taken from a cache that was behind
\* its own events.
CostsSettle ==
    reader = "interactive" =>
        <>[](\/ ended
             \/ Reports = {}
             \/ /\ history[LastReport] = Used \/ crossed
                /\ \/ Overtaken(LastReport)
                   \/ /\ total["cache"] = history[LastReport]
                      /\ total["client"] = history[LastReport] \/ outdated)

=============================================================================
