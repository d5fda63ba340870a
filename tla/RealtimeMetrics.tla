--------------------------- MODULE RealtimeMetrics ---------------------------
(***************************************************************************)
(* The real-time counters of llmwatch: what updateRealTimeCounters         *)
(* (internal/metrics/processor.go) writes to Redis for every stored call,  *)
(* one command at a time, and what GetCallsPerMinute                       *)
(* (internal/redis/client.go) reads back while keys expire.                *)
(*                                                                         *)
(* The commands of one update go out in pipelines without MULTI: those of  *)
(* two workers may interleave, a broken connection may cut a pipeline      *)
(* short, and the client library resends a whole pipeline whose answers it *)
(* has not seen.  Redis drops a key at its deadline, and may evict any key *)
(* (docker-compose runs it with allkeys-lru).                              *)
(*                                                                         *)
(* Time runs in ticks.  A call carries the time stamp its sender gave it,  *)
(* which Validate does not look at: it may lie in the past, or ahead of    *)
(* the clock of the servers by up to Ahead.  Dedup and storing are those   *)
(* of EventConsumer: here a call is stored once.                           *)
(***************************************************************************)
EXTENDS Integers, Sequences, FiniteSets

CONSTANTS
  Workers,       (* goroutines of consumers that process calls              *)
  Calls,         (* calls, by name                                          *)
  Call,          (* what the event of a call says, see CallType             *)
  Minute,        (* ticks in a minute                                       *)
  Window,        (* CallsWindowMinutes, 60 in the code                      *)
  Grace,         (* the minutes a bucket is kept beyond, 5 in the code      *)
  MaxSamples,    (* MaxLatencySamples, 1000 in the code                     *)
  Hour,          (* ticks in an hour                                        *)
  LatencyHours,  (* hours a latency list is kept, 25 in the code            *)
  Ahead,         (* ticks a time stamp may be ahead of the clock            *)
  Skew,          (* ticks between choosing the minutes and reading them     *)
  LastStore,     (* bound: no call is stored after this tick                *)
  LastTick,      (* bound: the clock stops here                             *)
  FaultBudget    (* bound: lost or resent commands and evictions            *)

(* What Validate lets through: one of three providers, no negative latency  *)
(* or count of tokens; it looks neither at the cost nor at the time stamp,  *)
(* and the ticks here are counted from before the oldest one.               *)
CallType ==
  [ts : Nat, provider : {"openai", "anthropic", "gemini"},
   model : Seq(STRING), latency : Nat, cost : Int, input : Nat, output : Nat,
   status : {"success", "error"}]

ASSUME CallAssumption == Calls # {} /\ Call \in [Calls -> CallType]
ASSUME WorkersAssumption == IsFiniteSet(Workers)
ASSUME TimesAssumption ==
  /\ Minute \in Nat \ {0}
  /\ Window \in Nat /\ Grace \in Nat
  /\ Hour \in Nat \ {0} /\ LatencyHours \in Nat \ {0}
  /\ Ahead \in Nat /\ Skew \in Nat
ASSUME BoundsAssumption ==
  /\ MaxSamples \in Nat \ {0}
  /\ LastStore \in Nat /\ LastTick \in Nat /\ FaultBudget \in Nat

(* The five minutes of grace pay for the minute in progress, for the time a *)
(* read takes and for time stamps ahead of the clock.                       *)
ASSUME GraceAssumption == Ahead + Skew <= (Grace - 1) * Minute

Bucket(ts) == ts \div Minute

Minutes == 0 .. Bucket(LastTick + Ahead)

(* Wrong variant: a bucket is kept for the window and no longer.            *)
LifeNoGrace == Window * Minute

Life == (Window + Grace) * Minute

(* sanitizeModel, byte by byte; here the model is a sequence of tokens.     *)
SanitizeModel(model) ==
  [i \in DOMAIN model |-> IF model[i] \in {":", " "} THEN "_" ELSE model[i]]

(* Wrong variant: the model is put into the key as it is.                   *)
KeyUnsanitized(c) == <<Call[c].provider, ":">> \o Call[c].model

(* The latency key of a call, after its constant prefix.                    *)
KeyOf(c) == <<Call[c].provider, ":">> \o SanitizeModel(Call[c].model)

Keys == {KeyOf(c) : c \in Calls}

Providers == {Call[c].provider : c \in Calls}

VARIABLES
  clock,      (* the time, in ticks                                         *)
  rows,       (* PostgreSQL: calls in llm_calls                             *)
  pc,         (* the command a worker sends next                            *)
  task,       (* the call whose counters a worker updates                   *)
  counts,     (* Redis: the bucket of each minute, 0 for none               *)
  dies,       (* Redis: the deadline of each bucket, 0 for none             *)
  samples,    (* Redis: the latency lists, of calls whose latency they hold *)
  fades,      (* Redis: the deadline of each list, 0 for none               *)
  costs,      (* Redis: the fields of the cost hash                         *)
  applied,    (* history: INCRs ever applied to a minute's bucket           *)
  pushed,     (* history: pushes to a list since it last came into being    *)
  disturbed,  (* history: calls whose commands were lost, resent or undone  *)
  evicted,    (* history: what Redis has evicted                            *)
  faults      (* faults so far, bounded by FaultBudget                      *)

historyVars == <<applied, pushed, disturbed, evicted>>
bucketVars == <<counts, dies, applied>>
listVars == <<samples, fades, pushed>>
vars == <<clock, rows, pc, task, counts, dies, samples, fades, costs, applied,
          pushed, disturbed, evicted, faults>>

Stages == {"idle", "incr", "expireCalls", "push", "trim", "expireList", "cost"}

Fault == faults < FaultBudget /\ faults' = faults + 1

-----------------------------------------------------------------------------
Init ==
  /\ clock = 0
  /\ rows = {}
  /\ pc = [w \in Workers |-> "idle"]
  /\ task = [w \in Workers |-> CHOOSE c \in Calls : TRUE]
  /\ counts = [m \in Minutes |-> 0]
  /\ dies = [m \in Minutes |-> 0]
  /\ samples = [k \in Keys |-> << >>]
  /\ fades = [k \in Keys |-> 0]
  /\ costs = [p \in Providers |-> 0]
  /\ applied = [m \in Minutes |-> 0]
  /\ pushed = [k \in Keys |-> << >>]
  /\ disturbed = {}
  /\ evicted = [minutes |-> {}, keys |-> {}, costs |-> FALSE]
  /\ faults = 0

(* Wrong variant: the counters are updated before the insert.               *)
StoreLater(w, c) ==
  /\ pc[w] = "idle"
  /\ c \notin rows
  /\ clock <= LastStore
  /\ Call[c].ts <= clock + Ahead
  /\ task' = [task EXCEPT ![w] = c]
  /\ pc' = [pc EXCEPT ![w] = "incr"]
  /\ UNCHANGED <<clock, rows, bucketVars, listVars, costs, disturbed, evicted,
                 faults>>

(* InsertEvent has stored the call; updateRealTimeCounters begins.          *)
Store(w, c) ==
  /\ pc[w] = "idle"
  /\ c \notin rows
  /\ clock <= LastStore
  /\ Call[c].ts <= clock + Ahead
  /\ rows' = rows \union {c}
  /\ task' = [task EXCEPT ![w] = c]
  /\ pc' = [pc EXCEPT ![w] = "incr"]
  /\ UNCHANGED <<clock, bucketVars, listVars, costs, disturbed, evicted,
                 faults>>

Step(w, from, to) ==
  /\ pc[w] = from
  /\ pc' = [pc EXCEPT ![w] = to]
  /\ UNCHANGED <<clock, rows, task>>

-----------------------------------------------------------------------------
(* IncrCallsPerMinute.                                                      *)

TaskMinute(w) == Bucket(Call[task[w]].ts)

Incr(w) ==
  /\ Step(w, "incr", "expireCalls")
  /\ counts' = [counts EXCEPT ![TaskMinute(w)] = @ + 1]
  /\ applied' = [applied EXCEPT ![TaskMinute(w)] = @ + 1]
  /\ UNCHANGED <<dies, listVars, costs, disturbed, evicted, faults>>

(* EXPIRE of a key that is gone does nothing.                               *)
ExpireCalls(w) ==
  /\ Step(w, "expireCalls", "push")
  /\ dies' = IF counts[TaskMinute(w)] = 0
             THEN dies
             ELSE [dies EXCEPT ![TaskMinute(w)] = clock + Life]
  /\ UNCHANGED <<counts, applied, listVars, costs, disturbed, evicted, faults>>

-----------------------------------------------------------------------------
(* AppendLatency.                                                           *)

TaskKey(w) == KeyOf(task[w])

Push(w) ==
  /\ Step(w, "push", "trim")
  /\ samples' = [samples EXCEPT ![TaskKey(w)] = Append(@, task[w])]
  /\ pushed' = [pushed EXCEPT ![TaskKey(w)] = Append(@, task[w])]
  /\ UNCHANGED <<fades, bucketVars, costs, disturbed, evicted, faults>>

(* Wrong variant: the list is trimmed to its first elements.                *)
KeepFirst(list) ==
  IF Len(list) <= MaxSamples THEN list ELSE SubSeq(list, 1, MaxSamples)

(* LTRIM key -MaxLatencySamples -1.                                         *)
KeepLast(list) ==
  IF Len(list) <= MaxSamples
  THEN list
  ELSE SubSeq(list, Len(list) - MaxSamples + 1, Len(list))

(* Wrong variant: the pipeline has no EXPIRE.                               *)
TrimOnly(w) ==
  /\ Step(w, "trim", "cost")
  /\ samples' = [samples EXCEPT ![TaskKey(w)] = KeepLast(@)]
  /\ UNCHANGED <<fades, pushed, bucketVars, costs, disturbed, evicted, faults>>

Trim(w) ==
  /\ Step(w, "trim", "expireList")
  /\ samples' = [samples EXCEPT ![TaskKey(w)] = KeepLast(@)]
  /\ UNCHANGED <<fades, pushed, bucketVars, costs, disturbed, evicted, faults>>

(* Wrong variant: the list is kept for an hour less.                        *)
LatencyLifeShort == (LatencyHours - 1) * Hour

LatencyLife == LatencyHours * Hour

ExpireList(w) ==
  /\ Step(w, "expireList", "cost")
  /\ fades' = IF samples[TaskKey(w)] = << >>
              THEN fades
              ELSE [fades EXCEPT ![TaskKey(w)] = clock + LatencyLife]
  /\ UNCHANGED <<samples, pushed, bucketVars, costs, disturbed, evicted,
                 faults>>

-----------------------------------------------------------------------------
(* IncrCost: HINCRBYFLOAT on the hash of all providers.                     *)
AddCost(w) ==
  [costs EXCEPT ![Call[task[w]].provider] = @ + Call[task[w]].cost]

(* Wrong variant: only successful calls are charged.                        *)
IncrCostSuccess(w) ==
  /\ Step(w, "cost", "idle")
  /\ costs' = IF Call[task[w]].status = "success" THEN AddCost(w) ELSE costs
  /\ UNCHANGED <<bucketVars, listVars, disturbed, evicted, faults>>

IncrCost(w) ==
  /\ Step(w, "cost", "idle")
  /\ costs' = AddCost(w)
  /\ UNCHANGED <<bucketVars, listVars, disturbed, evicted, faults>>

-----------------------------------------------------------------------------
(* Failures, expiry and eviction.                                           *)

(* A command fails, or the process dies: what follows is not sent.          *)
Abandon(w) ==
  /\ pc[w] # "idle"
  /\ Fault
  /\ pc' = [pc EXCEPT ![w] = "idle"]
  /\ disturbed' = disturbed \union {task[w]}
  /\ UNCHANGED <<clock, rows, task, bucketVars, listVars, costs, evicted>>

(* The answers to a pipeline are lost after some of its commands, or all,   *)
(* were applied: the client sends it again from its first command.          *)
Resend(w) ==
  /\ Fault
  /\ \/ /\ pc[w] \in {"expireCalls", "push"}
        /\ pc' = [pc EXCEPT ![w] = "incr"]
        /\ UNCHANGED costs
     \/ /\ pc[w] \in {"trim", "expireList", "cost"}
        /\ pc' = [pc EXCEPT ![w] = "push"]
        /\ UNCHANGED costs
     \/ /\ pc[w] = "cost"
        /\ costs' = AddCost(w)
        /\ UNCHANGED pc
  /\ disturbed' = disturbed \union {task[w]}
  /\ UNCHANGED <<clock, rows, task, bucketVars, listVars, evicted>>

(* The keys whose deadline the clock reaches are gone.  A list that goes    *)
(* between the RPUSH and the EXPIRE of a pipeline takes the new sample too. *)
Tick ==
  LET goneMinutes == {m \in Minutes : dies[m] = clock + 1}
      goneKeys == {k \in Keys : fades[k] = clock + 1}
  IN
  /\ clock < LastTick
  /\ clock' = clock + 1
  /\ counts' = [m \in Minutes |-> IF m \in goneMinutes THEN 0 ELSE counts[m]]
  /\ dies' = [m \in Minutes |-> IF m \in goneMinutes THEN 0 ELSE dies[m]]
  /\ samples' = [k \in Keys |-> IF k \in goneKeys THEN << >> ELSE samples[k]]
  /\ fades' = [k \in Keys |-> IF k \in goneKeys THEN 0 ELSE fades[k]]
  /\ pushed' = [k \in Keys |-> IF k \in goneKeys THEN << >> ELSE pushed[k]]
  /\ disturbed' = disturbed \union
       {task[w] : w \in {v \in Workers : /\ pc[v] \in {"trim", "expireList"}
                                        /\ TaskKey(v) \in goneKeys}}
  /\ UNCHANGED <<rows, pc, task, costs, applied, evicted, faults>>

EvictBucket(m) ==
  /\ counts[m] # 0
  /\ Fault
  /\ counts' = [counts EXCEPT ![m] = 0]
  /\ dies' = [dies EXCEPT ![m] = 0]
  /\ evicted' = [evicted EXCEPT !.minutes = @ \union {m}]
  /\ UNCHANGED <<clock, rows, pc, task, applied, listVars, costs, disturbed>>

EvictList(k) ==
  /\ samples[k] # << >>
  /\ Fault
  /\ samples' = [samples EXCEPT ![k] = << >>]
  /\ fades' = [fades EXCEPT ![k] = 0]
  /\ pushed' = [pushed EXCEPT ![k] = << >>]
  /\ evicted' = [evicted EXCEPT !.keys = @ \union {k}]
  /\ UNCHANGED <<clock, rows, pc, task, bucketVars, costs, disturbed>>

EvictCosts ==
  /\ Fault
  /\ costs' = [p \in Providers |-> 0]
  /\ evicted' = [evicted EXCEPT !.costs = TRUE]
  /\ UNCHANGED <<clock, rows, pc, task, bucketVars, listVars, disturbed>>

-----------------------------------------------------------------------------
Next ==
  \/ \E w \in Workers :
       \/ \E c \in Calls : Store(w, c)
       \/ Incr(w) \/ ExpireCalls(w) \/ Push(w) \/ Trim(w) \/ ExpireList(w)
       \/ IncrCost(w) \/ Abandon(w) \/ Resend(w)
  \/ Tick
  \/ \E m \in Minutes : EvictBucket(m)
  \/ \E k \in Keys : EvictList(k)
  \/ EvictCosts

Spec == Init /\ [][Next]_vars

-----------------------------------------------------------------------------
(* GetCallsPerMinute, with the minutes it chose at tick start.              *)

Oldest(start, n) == Bucket(start) - n

CallsPerMinute(start, n) ==
  [i \in 1 .. n |->
     LET m == Oldest(start, n) + i - 1 IN
     [minute |-> m, count |-> IF m \in Minutes THEN counts[m] ELSE 0]]

(* The ticks at which a read that is answered now may have begun.           *)
Starts == {t \in 0 .. clock : t + Skew >= clock}

-----------------------------------------------------------------------------
TypeOK ==
  /\ clock \in Nat
  /\ rows \subseteq Calls
  /\ pc \in [Workers -> Stages]
  /\ task \in [Workers -> Calls]
  /\ counts \in [Minutes -> Nat]
  /\ dies \in [Minutes -> Nat]
  /\ samples \in [Keys -> Seq(Calls)]
  /\ fades \in [Keys -> Nat]
  /\ costs \in [Providers -> Int]
  /\ applied \in [Minutes -> Nat]
  /\ pushed \in [Keys -> Seq(Calls)]
  /\ disturbed \subseteq rows
  /\ evicted \in [minutes : SUBSET Minutes, keys : SUBSET Keys,
                  costs : BOOLEAN]
  /\ faults \in Nat

(* Whoever asks for no more than CallsWindowMinutes gets, for each full     *)
(* minute, exactly the increments ever applied to it, unless Redis evicted  *)
(* its bucket: a bucket never expires while such a question can name it,    *)
(* even if its stamps were ahead of the clock, its EXPIRE was lost or its   *)
(* pipeline interleaved with another's.  No answer counts a call too many.  *)
WindowExact ==
  \A start \in Starts, n \in 0 .. Window :
    LET answer == CallsPerMinute(start, n) IN
    \A i \in 1 .. n :
      LET m == answer[i].minute IN
      m \in Minutes =>
        /\ answer[i].count <= applied[m]
        /\ m \notin evicted.minutes => answer[i].count = applied[m]

(* A latency list holds the newest samples in the order of their pushes: it *)
(* never loses one of the last MaxLatencySamples while the key lives, and   *)
(* trims of concurrent pipelines never drop each other's sample.            *)
LatestSamples ==
  \A k \in Keys :
    LET n == Len(samples[k])
        all == Len(pushed[k])
    IN
    /\ n <= all
    /\ n >= MaxSamples \/ n = all
    /\ samples[k] = SubSeq(pushed[k], all - n + 1, all)

(* The list outgrows its limit only by the samples of pipelines between     *)
(* their push and their trim, and of pipelines a fault cut there.           *)
ListBounded ==
  \A k \in Keys :
    Len(samples[k]) <=
      MaxSamples + faults
        + Cardinality({w \in Workers : pc[w] = "trim" /\ TaskKey(w) = k})

(* Keys do not pile up: a bucket or list without a deadline is about to get *)
(* one, or a fault has cut the pipeline that would have set it.             *)
KeysHaveDeadline ==
  /\ \A m \in Minutes : counts[m] # 0 /\ dies[m] = 0 =>
       \/ \E w \in Workers : pc[w] = "expireCalls" /\ TaskMinute(w) = m
       \/ \E c \in disturbed : Bucket(Call[c].ts) = m
  /\ \A k \in Keys : samples[k] # << >> /\ fades[k] = 0 =>
       \/ \E w \in Workers : /\ pc[w] \in {"trim", "expireList"}
                             /\ TaskKey(w) = k
       \/ \E c \in disturbed : KeyOf(c) = k
=============================================================================
