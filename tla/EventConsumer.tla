---------------------------- MODULE EventConsumer ----------------------------
(***************************************************************************)
(* The consume side of llmwatch: the consumer processes of one Kafka group *)
(* (cmd/consumer), each running the loop of KafkaConsumer.Consume          *)
(* (internal/kafka/consumer.go) around Processor.Process                   *)
(* (internal/metrics/processor.go), which works on two shared stores: the  *)
(* dedup keys and counters in Redis (internal/redis/client.go) and the     *)
(* table llm_calls in PostgreSQL (internal/db/postgres.go).                *)
(*                                                                         *)
(* A step is one call to an outside system, with everything the code does  *)
(* up to the next such call.  A call can fail with or without having taken *)
(* effect, and a process can die between any two steps.  What the client   *)
(* library kafka-go and the brokers do (positions, the stash of offsets    *)
(* waiting for the next asynchronous commit, rebalances) is modelled from  *)
(* how the consumer configures and calls the reader.                       *)
(*                                                                         *)
(* Abstractions.  A message is an event id and a time stamp: no decision   *)
(* of this code looks at another field once the event is known to be       *)
(* malformed (Garbage), rejected by Validate (Invalid), refused by the     *)
(* table's column types (Unstorable) or none of these.  EnsurePartition,   *)
(* called just before InsertEvent with its error swallowed, decides only   *)
(* in which partition of llm_calls the row is put.                         *)
(***************************************************************************)
EXTENDS Integers, Sequences, FiniteSets, Functions

CONSTANTS
  Workers,      (* consumer processes of the group                          *)
  NoWorker,     (* the owner of a partition nobody is assigned             *)
  Partitions,   (* partitions of the topic                                 *)
  EventIds,     (* event_id values                                         *)
  Stamps,       (* event time stamps, the created_at of the row            *)
  PartitionOf,  (* the producer's hash balancer: where an event is put     *)
  Garbage,      (* ids whose messages are not a JSON event                 *)
  Invalid,      (* ids whose messages Validate rejects                     *)
  Unstorable,   (* ids llm_calls refuses: not a UUID, a model too long     *)
  MaxLog,       (* bound: messages ever published to a partition           *)
  MaxFaults,    (* bound: faults of each kind in a behaviour               *)
  FaultBudget   (* bound: faults of all kinds in a behaviour               *)

FaultKind ==
  {"crash", "stop", "redis", "resend", "evict", "db", "rebalance"}

Counters == {"calls", "latency", "cost"}

Outcomes == {"ok", "duplicate", "error", "garbage"}

Message == [id : EventIds, ts : Stamps]

ASSUME WorkersAssumption == NoWorker \notin Workers
ASSUME PartitionsAssumption ==
  Partitions # {} /\ PartitionOf \in [EventIds -> Partitions]
ASSUME KindsAssumption ==
  /\ Garbage \subseteq EventIds
  /\ Invalid \subseteq EventIds
  /\ Unstorable \subseteq EventIds
ASSUME BoundsAssumption ==
  MaxLog \in Nat /\ FaultBudget \in Nat /\ MaxFaults \in [FaultKind -> Nat]

VARIABLES
  log,        (* the topic: log[p] is the sequence of messages of p        *)
  committed,  (* Kafka: messages of p the group has committed              *)
  owner,      (* Kafka: the worker p is assigned to                        *)
  pos,        (* kafka-go: messages of p its owner has fetched             *)
  stash,      (* kafka-go: offsets waiting for the next commit, 0 for none *)
  pc,         (* where each worker is in Consume and Process               *)
  cur,        (* the message a worker holds, off = 0 for none              *)
  cancelled,  (* the context of a worker is cancelled (SIGTERM)            *)
  dedup,      (* Redis: event ids with a live llmwatch:dedup key           *)
  rows,       (* PostgreSQL: the rows of llm_calls                         *)
  counted,    (* Redis: how often an event was added to each counter       *)
  results,    (* history: how the handler answered, per partition, offset  *)
  abandoned,  (* history: events whose claim outlived the attempt to store *)
  faulted,    (* history: events a Redis fault has touched                 *)
  faults      (* faults so far, bounded by MaxFaults                       *)

kafkaVars == <<log, committed, owner, pos, stash>>
redisVars == <<dedup, counted>>
historyVars == <<results, abandoned, faulted>>
vars == <<log, committed, owner, pos, stash, pc, cur, cancelled, dedup, rows,
          counted, results, abandoned, faulted, faults>>

-----------------------------------------------------------------------------
(* Reading the state. *)

Idle == [part |-> CHOOSE p \in Partitions : TRUE, off |-> 0]

Stages == {"down", "fetch", "dedup", "insert", "calls", "latency", "cost",
           "commit", "commitErr"}

Msg(w) == log[cur[w].part][cur[w].off]

Running == {w \in Workers : pc[w] # "down"}

(* The row of an event exists, whatever its time stamp. *)
HasRow(id) == \E r \in rows : r.id = id

(* A worker is between the dedup check of id and its insert. *)
InFlight(id) == \E w \in Workers : pc[w] = "insert" /\ Msg(w).id = id

(* The handler has answered for the message at offset i of p. *)
Handled(p, i) == \E o \in Outcomes : <<p, i, o>> \in results

(* The handler has answered id with an error, or id was not an event. *)
Failed(id) ==
  \E p \in Partitions : \E i \in DOMAIN log[p] :
    /\ log[p][i].id = id
    /\ <<p, i, "error">> \in results \/ <<p, i, "garbage">> \in results

CanFault(k) ==
  /\ faults[k] < MaxFaults[k]
  /\ FoldFunction(LAMBDA m, n : m + n, 0, faults) < FaultBudget

Fault(k) == CanFault(k) /\ faults' = [faults EXCEPT ![k] = @ + 1]

-----------------------------------------------------------------------------
Init ==
  /\ log = [p \in Partitions |-> << >>]
  /\ committed = [p \in Partitions |-> 0]
  /\ owner = [p \in Partitions |-> NoWorker]
  /\ pos = [p \in Partitions |-> 0]
  /\ stash = [w \in Workers |-> [p \in Partitions |-> 0]]
  /\ pc = [w \in Workers |-> "down"]
  /\ cur = [w \in Workers |-> Idle]
  /\ cancelled = [w \in Workers |-> FALSE]
  /\ dedup = {}
  /\ rows = {}
  /\ counted = [c \in Counters |-> [id \in EventIds |-> 0]]
  /\ results = {}
  /\ abandoned = {}
  /\ faulted = {}
  /\ faults = [k \in FaultKind |-> 0]

(* The API, or any producer of the topic, appends a message.  The same id   *)
(* comes again when a client or the producer retries, with another stamp    *)
(* when the client left the stamp to Normalize.                             *)
Publish(id, ts) ==
  LET p == PartitionOf[id] IN
  /\ Len(log[p]) < MaxLog
  /\ log' = [log EXCEPT ![p] = Append(@, [id |-> id, ts |-> ts])]
  /\ UNCHANGED <<committed, owner, pos, stash, pc, cur, cancelled, rows,
                 redisVars, historyVars, faults>>

-----------------------------------------------------------------------------
(* The loop of Consume and the handler it calls, one call at a time.        *)

(* Where the handler goes with the message it was given: an unmarshal error *)
(* and a validation error reach the commit without any outside call.        *)
Entry(id) ==
  CASE id \in Garbage -> "garbage"
    [] id \in Invalid \ Garbage -> "error"
    [] OTHER -> "process"

(* FetchMessage hands the worker the next message of a partition it owns.   *)
(* A cancelled context does not exclude it: the reader's select may still   *)
(* take a message that is already buffered.                                 *)
FetchMessage(w) ==
  /\ pc[w] = "fetch"
  /\ \E p \in Partitions :
       /\ owner[p] = w
       /\ pos[p] < Len(log[p])
       /\ pos' = [pos EXCEPT ![p] = @ + 1]
       /\ cur' = [cur EXCEPT ![w] = [part |-> p, off |-> pos[p] + 1]]
       /\ LET e == Entry(log[p][pos[p] + 1].id) IN
          IF e = "process"
          THEN /\ pc' = [pc EXCEPT ![w] = "dedup"]
               /\ UNCHANGED results
          ELSE /\ pc' = [pc EXCEPT ![w] = "commitErr"]
               /\ results' = results \union {<<p, pos[p] + 1, e>>}
  /\ UNCHANGED <<log, committed, owner, stash, cancelled, rows, redisVars,
                 abandoned, faulted, faults>>

Goto(w, stage) ==
  /\ pc' = [pc EXCEPT ![w] = stage]
  /\ UNCHANGED results

(* The handler answers, and Consume goes on to one of its two commits.      *)
Answer(w, outcome, stage) ==
  /\ pc' = [pc EXCEPT ![w] = stage]
  /\ results' = results \union {<<cur[w].part, cur[w].off, outcome>>}

(* A call of w fails: its context is cancelled, or the store is in trouble. *)
CallFails(w, k) ==
  \/ cancelled[w] /\ UNCHANGED faults
  \/ Fault(k)

(* Wrong variant: the id is looked up and never marked as seen.             *)
DedupNotMarked(w) ==
  /\ IF Msg(w).id \in dedup
     THEN Answer(w, "duplicate", "commit")
     ELSE Goto(w, "insert")
  /\ UNCHANGED <<dedup, abandoned, faulted, faults>>

(* SetNX answers: the key was new, or it was there and the event is skipped *)
DedupAnswers(w) ==
  /\ dedup' = dedup \union {Msg(w).id}
  /\ IF Msg(w).id \in dedup
     THEN Answer(w, "duplicate", "commit")
     ELSE Goto(w, "insert")
  /\ UNCHANGED <<abandoned, faulted, faults>>

(* Wrong variant: an error of the dedup check makes the event be skipped.   *)
DedupErrorSkips(w) ==
  /\ CallFails(w, "redis")
  /\ faulted' = faulted \union {Msg(w).id}
  /\ Answer(w, "duplicate", "commit")
  /\ UNCHANGED <<dedup, abandoned>>

(* SetNX fails; the key may have been set all the same.  The error is       *)
(* logged and the event processed as if it were new.                        *)
DedupFails(w) ==
  /\ CallFails(w, "redis")
  /\ dedup' \in {dedup, dedup \union {Msg(w).id}}
  /\ faulted' = faulted \union {Msg(w).id}
  /\ Goto(w, "insert")
  /\ UNCHANGED abandoned

(* The answer to SetNX is lost and the client resends the command: the key  *)
(* its first copy has set makes a new event look like a duplicate.          *)
DedupResent(w) ==
  /\ Msg(w).id \notin dedup
  /\ Fault("resend")
  /\ dedup' = dedup \union {Msg(w).id}
  /\ abandoned' = abandoned \union {Msg(w).id}
  /\ Answer(w, "duplicate", "commit")
  /\ UNCHANGED faulted

IsDuplicate(w) ==
  /\ pc[w] = "dedup"
  /\ DedupAnswers(w) \/ DedupFails(w) \/ DedupResent(w)
  /\ UNCHANGED <<kafkaVars, cur, cancelled, rows, counted>>

(* INSERT ... ON CONFLICT (event_id, created_at) DO NOTHING.                *)
Inserted(m) == rows \union {m}

InsertAnswers(w) ==
  /\ Msg(w).id \notin Unstorable
  /\ rows' = Inserted(Msg(w))
  /\ Goto(w, "calls")
  /\ UNCHANGED faults

(* Wrong variant: the error of the insert is logged and not returned.       *)
InsertErrorIgnored(w) ==
  /\ CallFails(w, "db")
  /\ Goto(w, "calls")
  /\ UNCHANGED rows

(* The statement fails: the values do not fit the table, or the outcome is  *)
(* lost with the connection or the context and the row may be there or not. *)
InsertFails(w) ==
  /\ Answer(w, "error", "commitErr")
  /\ \/ Msg(w).id \in Unstorable /\ UNCHANGED <<rows, faults>>
     \/ /\ CallFails(w, "db")
        /\ IF Msg(w).id \in Unstorable
           THEN UNCHANGED rows
           ELSE rows' \in {rows, Inserted(Msg(w))}

InsertEvent(w) ==
  /\ pc[w] = "insert"
  /\ InsertAnswers(w) \/ InsertFails(w)
  /\ UNCHANGED <<kafkaVars, cur, cancelled, redisVars, abandoned, faulted>>

(* Wrong variant: the latency sample is left out.                           *)
NextStageNoLatency(c) == IF c = "calls" THEN "cost" ELSE "commit"

NextStage(c) ==
  CASE c = "calls" -> "latency"
    [] c = "latency" -> "cost"
    [] c = "cost" -> "commit"

Count(c, id, n) == [counted EXCEPT ![c][id] = @ + n]

(* IncrCallsPerMinute, AppendLatency or IncrCost is applied once, or twice  *)
(* when its answer is lost and the client resends it.                       *)
CounterAnswers(w, c) ==
  /\ \/ /\ counted' = Count(c, Msg(w).id, 1)
        /\ UNCHANGED <<faulted, faults>>
     \/ /\ Fault("resend")
        /\ counted' = Count(c, Msg(w).id, 2)
        /\ faulted' = faulted \union {Msg(w).id}
  /\ IF c = "cost" THEN Answer(w, "ok", "commit") ELSE Goto(w, NextStage(c))

(* The counter's error ends updateRealTimeCounters and is only logged.      *)
CounterFails(w, c) ==
  /\ CallFails(w, "redis")
  /\ counted' \in {counted, Count(c, Msg(w).id, 1)}
  /\ Answer(w, "ok", "commit")
  /\ UNCHANGED faulted

UpdateCounter(w, c) ==
  /\ pc[w] = c
  /\ CounterAnswers(w, c) \/ CounterFails(w, c)
  /\ UNCHANGED <<kafkaVars, cur, cancelled, rows, dedup, abandoned>>

(* offsetStash.merge: the highest offset of each partition is kept.         *)
Stashed(n, off) == IF n < off THEN off ELSE n

(* Wrong variant: the offset after the message, the one Kafka stores, is    *)
(* passed where the reader expects the message's own.                       *)
HeldPlusOne(w) == cur[w].off + 1

Held(w) == cur[w].off

(* Wrong variant: a message whose handler failed is left uncommitted.       *)
CommitOnlyAnswered(w) ==
  /\ pc[w] \in {"commit", "commitErr"}
  /\ IF pc[w] = "commit"
     THEN stash' = [stash EXCEPT ![w][cur[w].part] = Stashed(@, Held(w))]
     ELSE UNCHANGED stash
  /\ pc' = [pc EXCEPT ![w] = "fetch"]
  /\ cur' = [cur EXCEPT ![w] = Idle]
  /\ UNCHANGED <<log, committed, owner, pos, cancelled, rows, redisVars,
                 historyVars, faults>>

(* CommitMessages only queues the offset (CommitInterval is one second).    *)
CommitMessages(w) ==
  /\ pc[w] \in {"commit", "commitErr"}
  /\ stash' = [stash EXCEPT ![w][cur[w].part] = Stashed(@, Held(w))]
  /\ pc' = [pc EXCEPT ![w] = "fetch"]
  /\ cur' = [cur EXCEPT ![w] = Idle]
  /\ UNCHANGED <<log, committed, owner, pos, cancelled, rows, redisVars,
                 historyVars, faults>>

-----------------------------------------------------------------------------
(* Commits, shutdown, crashes and group membership.                         *)

(* Wrong variant: partitions without a waiting offset are sent as zero.     *)
FlushedBare(w) == [p \in Partitions |-> stash[w][p]]

(* Every offset waiting in the stash of w becomes the committed one, be it  *)
(* lower than what the group has committed since.                           *)
Flushed(w) ==
  [p \in Partitions |-> IF stash[w][p] = 0 THEN committed[p] ELSE stash[w][p]]

NoOffsets == [p \in Partitions |-> 0]

(* The timer of the asynchronous commit.                                    *)
FlushCommits(w) ==
  /\ w \in Running
  /\ stash[w] # NoOffsets
  /\ committed' = Flushed(w)
  /\ stash' = [stash EXCEPT ![w] = NoOffsets]
  /\ UNCHANGED <<log, owner, pos, pc, cur, cancelled, rows, redisVars,
                 historyVars, faults>>

(* The process of w is gone: its partitions are free, its memory is lost.   *)
Gone(w) ==
  /\ owner' = [p \in Partitions |-> IF owner[p] = w THEN NoWorker ELSE owner[p]]
  /\ stash' = [stash EXCEPT ![w] = NoOffsets]
  /\ pc' = [pc EXCEPT ![w] = "down"]
  /\ cur' = [cur EXCEPT ![w] = Idle]
  /\ cancelled' = [cancelled EXCEPT ![w] = FALSE]
  /\ UNCHANGED <<log, pos, rows, redisVars, results, faulted>>

(* Consume returns, run's deferred Close flushes the stash if it can.       *)
Leave(w) ==
  /\ committed' \in {committed, Flushed(w)}
  /\ Gone(w)
  /\ UNCHANGED abandoned

(* FetchMessage returns an error: the context is cancelled, or the reader   *)
(* has failed; either way the loop ends and the process exits.              *)
FetchFails(w) ==
  /\ pc[w] = "fetch"
  /\ CallFails(w, "stop")
  /\ Leave(w)

(* CommitMessages returns the error of a cancelled context: after a handler *)
(* error it is logged and the loop goes on, otherwise it ends the loop.     *)
CommitRefused(w) ==
  /\ cancelled[w]
  /\ \/ /\ pc[w] = "commitErr"
        /\ pc' = [pc EXCEPT ![w] = "fetch"]
        /\ cur' = [cur EXCEPT ![w] = Idle]
        /\ UNCHANGED <<kafkaVars, cancelled, rows, redisVars, historyVars>>
     \/ /\ pc[w] = "commit"
        /\ Leave(w)
  /\ UNCHANGED faults

(* SIGTERM or SIGINT cancels the context of the process.                    *)
Shutdown(w) ==
  /\ w \in Running
  /\ ~cancelled[w]
  /\ Fault("stop")
  /\ cancelled' = [cancelled EXCEPT ![w] = TRUE]
  /\ UNCHANGED <<kafkaVars, pc, cur, rows, redisVars, historyVars>>

(* The process is killed.  An event it had claimed in Redis and not yet     *)
(* stored is abandoned: whoever fetches it again finds a duplicate.         *)
Crash(w) ==
  /\ w \in Running
  /\ Fault("crash")
  /\ abandoned' = abandoned \union
       (IF pc[w] = "insert" THEN {Msg(w).id} ELSE {})
  /\ Gone(w)
  /\ UNCHANGED committed

(* The container is started, or restarted by "restart: unless-stopped".     *)
Start(w) ==
  /\ pc[w] = "down"
  /\ pc' = [pc EXCEPT ![w] = "fetch"]
  /\ UNCHANGED <<kafkaVars, cur, cancelled, rows, redisVars, historyVars,
                 faults>>

(* Wrong variant: a group that has committed nothing starts at the end.     *)
ResumeLatest(p, n) == IF n = 0 THEN Len(log[p]) ELSE n

(* StartOffset is FirstOffset: a group that has committed nothing starts at *)
(* the first message, any other where it has committed.                     *)
ResumeFrom(p, n) == n

(* A new generation of the group: the partitions are dealt out again, each  *)
(* worker's stash is flushed or lost, and fetching resumes from what is     *)
(* committed.  A message already in a worker's hands stays there.           *)
Reassign ==
  /\ owner' \in [Partitions -> Running]
  /\ committed' \in
       {c \in [Partitions -> 0 .. MaxLog] :
          \A p \in Partitions :
            c[p] \in {committed[p]} \union
                     ({stash[w][p] : w \in Workers} \ {0})}
  /\ pos' = [p \in Partitions |-> ResumeFrom(p, committed'[p])]
  /\ stash' = [w \in Workers |-> NoOffsets]
  /\ UNCHANGED <<log, pc, cur, cancelled, rows, redisVars, historyVars>>

(* The coordinator reassigns when the owner of a partition is gone ...      *)
TakeOver ==
  /\ \E p \in Partitions : owner[p] = NoWorker
  /\ Reassign
  /\ UNCHANGED faults

(* ... and when a worker joins or is late with its heartbeat.               *)
Rebalance == Reassign /\ Fault("rebalance")

(* A dedup key expires after DedupTTL, or Redis evicts it: docker-compose   *)
(* runs it with maxmemory-policy allkeys-lru.                               *)
EvictKey(id) ==
  /\ id \in dedup
  /\ Fault("evict")
  /\ dedup' = dedup \ {id}
  /\ faulted' = faulted \union {id}
  /\ UNCHANGED <<kafkaVars, pc, cur, cancelled, rows, counted, results,
                 abandoned>>

-----------------------------------------------------------------------------
Process(w) == IsDuplicate(w) \/ InsertEvent(w) \/
              (\E c \in Counters : UpdateCounter(w, c))

Consume(w) == FetchMessage(w) \/ Process(w) \/ CommitMessages(w) \/
              CommitRefused(w)

Next ==
  \/ \E id \in EventIds, ts \in Stamps : Publish(id, ts)
  \/ \E w \in Workers : Consume(w) \/ FlushCommits(w) \/ FetchFails(w) \/
                        Shutdown(w) \/ Crash(w) \/ Start(w)
  \/ TakeOver \/ Rebalance
  \/ \E id \in EventIds : EvictKey(id)

Spec == Init /\ [][Next]_vars

(* A running process takes its next step, a process that has to stop stops, *)
(* the container runtime restarts what has exited, the commit timer fires   *)
(* and the coordinator gives free partitions away.                          *)
Fairness ==
  /\ \A w \in Workers :
       /\ WF_vars(Consume(w))
       /\ WF_vars(FlushCommits(w))
       /\ WF_vars(cancelled[w] /\ FetchFails(w))
       /\ WF_vars(Start(w))
  /\ WF_vars(TakeOver)

FairSpec == Spec /\ Fairness

-----------------------------------------------------------------------------
(* The abstract promise, with what this state makes of its variables.       *)
TopicIds ==
  [p \in Partitions |-> [i \in DOMAIN log[p] |-> log[p][i].id]]

Contract == INSTANCE DeliveryContract WITH
  topic   <- TopicIds,
  acked   <- committed,
  pending <- {id \in EventIds : InFlight(id)},
  stored  <- {id \in EventIds : HasRow(id)},
  excused <- {id \in EventIds : Failed(id)} \union abandoned

(* The workers, with their crashes, restarts and rebalances, implement the  *)
(* contract: whatever they do is a step of it or changes nothing it sees.   *)
ContractSpec == Contract!Spec

(* The state's types: offsets never pass the end of the topic and a worker  *)
(* holds a message exactly while it works on one (Consume, the reader).     *)
TypeOK ==
  /\ log \in [Partitions -> Seq(Message)]
  /\ committed \in [Partitions -> Nat]
  /\ owner \in [Partitions -> Workers \union {NoWorker}]
  /\ pos \in [Partitions -> Nat]
  /\ stash \in [Workers -> [Partitions -> Nat]]
  /\ pc \in [Workers -> Stages]
  /\ cur \in [Workers -> [part : Partitions, off : Nat]]
  /\ cancelled \in [Workers -> BOOLEAN]
  /\ dedup \subseteq EventIds
  /\ rows \subseteq Message
  /\ counted \in [Counters -> [EventIds -> Nat]]
  /\ results \subseteq Partitions \X Nat \X Outcomes
  /\ abandoned \subseteq EventIds
  /\ faulted \subseteq EventIds
  /\ faults \in [FaultKind -> Nat]
  /\ \A p \in Partitions :
       committed[p] <= Len(log[p]) /\ pos[p] <= Len(log[p])
  /\ \A w \in Workers, p \in Partitions : stash[w][p] <= Len(log[p])
  /\ \A w \in Workers :
       IF pc[w] \in {"down", "fetch"}
       THEN cur[w].off = 0
       ELSE cur[w].off \in 1 .. Len(log[cur[w].part])

(* No message is passed over: whatever crashes, shutdowns and rebalances    *)
(* happened, each offset the group has committed was answered by a handler  *)
(* first (Consume commits after the handler, the stash keeps the maximum).  *)
NoOffsetSkipped ==
  \A p \in Partitions : \A i \in 1 .. committed[p] : Handled(p, i)

(* The handler's "ok" means the very row is stored (buildHandler, Process). *)
OkMeansStored ==
  \A p \in Partitions : \A i \in DOMAIN log[p] :
    <<p, i, "ok">> \in results => log[p][i] \in rows

(* The Redis counters never run ahead of the table: an event is in a        *)
(* counter only if it is stored and in the counters updated before it.      *)
CountersFollowStore ==
  \A id \in EventIds :
    /\ counted["calls"][id] > 0 => HasRow(id)
    /\ counted["latency"][id] > 0 => counted["calls"][id] > 0
    /\ counted["cost"][id] > 0 => counted["latency"][id] > 0

(* Every committed event is stored or has an excuse the code knows of: a    *)
(* worker is about to insert it, a handler answered it with an error, or a  *)
(* claim in Redis was abandoned.  There is no other way to lose an event.   *)
LossIsExcused ==
  \A p \in Partitions : \A i \in 1 .. committed[p] :
    LET id == log[p][i].id IN
    HasRow(id) \/ InFlight(id) \/ Failed(id) \/ id \in abandoned

(* Unless a Redis fault has touched it, an event is stored once and added   *)
(* to each counter at most once, however often it is published and however  *)
(* many workers process it at the same time.                                *)
CountedOnce ==
  \A id \in EventIds \ faulted :
    /\ \A c \in Counters : counted[c][id] <= 1
    /\ \A r, s \in rows : r.id = id /\ s.id = id => r = s

(* No partition moves to a worker while another has messages of it in hand, *)
(* but by a rebalance: with one consumer (docker-compose.yml runs one), or  *)
(* with one partition, one is free only when its worker is gone.            *)
OnlyRebalanceMoves ==
  \/ \A v, w \in Workers : v = w
  \/ \A p, q \in Partitions : p = q

(* A committed offset never goes back, through crashes, shutdowns and lost  *)
(* commits, until a partition moves away from a worker that holds a message *)
(* of it (FlushCommits, ResumeFrom).                                        *)
CommittedMonotonic ==
  [][OnlyRebalanceMoves /\ faults["rebalance"] = 0 =>
       \A p \in Partitions : committed'[p] >= committed[p]]_committed

(* Every published message is answered by a handler in the end, whatever    *)
(* faults happened before (the loop never gets stuck on a message).         *)
EventuallyHandled ==
  \A p \in Partitions : \A i \in 1 .. MaxLog :
    Len(log[p]) >= i ~> Handled(p, i)

(* The lag of the group returns to zero: what was published is committed.   *)
EventuallyCommitted ==
  \A p \in Partitions : \A i \in 1 .. MaxLog :
    Len(log[p]) >= i ~> [](committed[p] >= i)

(* Every published event is stored in the end, unless PostgreSQL refused it *)
(* or a process died with the event claimed: no failure of Redis and no     *)
(* move of a partition keeps one from the table.                            *)
EventuallyStored ==
  \A id \in EventIds :
    (\E i \in DOMAIN log[PartitionOf[id]] : log[PartitionOf[id]][i].id = id)
      ~> HasRow(id) \/ Failed(id) \/ id \in abandoned

(* "messages are committed only after the handler returns nil"              *)
CommittedOnlyAfterNil ==
  \A p \in Partitions : \A i \in 1 .. committed[p] :
    <<p, i, "ok">> \in results \/ <<p, i, "duplicate">> \in results

(* "At-least-once delivery is guaranteed": a committed event is stored or   *)
(* still being stored.                                                      *)
CommittedImpliesStored ==
  \A p \in Partitions : \A i \in 1 .. committed[p] :
    HasRow(log[p][i].id) \/ InFlight(log[p][i].id)

(* "event_id is deduplicated at DB level too"                               *)
UniqueEventId == \A r, s \in rows : r.id = s.id => r = s
=============================================================================
