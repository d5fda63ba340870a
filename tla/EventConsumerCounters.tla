------------------------ MODULE EventConsumerCounters ------------------------
(***************************************************************************)
(* Theorems about the counters of EventConsumer: they never run ahead of   *)
(* the table, and without a Redis fault nothing is counted or stored twice.*)
(***************************************************************************)
EXTENDS EventConsumerProofs

(* Between the claim of an event and the answer of its handler.             *)
Working == {"insert", "calls", "latency", "cost"}

(* The counters a worker at this stage has still to update.                 *)
Ahead(stage) ==
  CASE stage = "latency" -> {"latency", "cost"}
    [] stage = "cost" -> {"cost"}
    [] OTHER -> Counters

-----------------------------------------------------------------------------
(* Steps.                                                                   *)

(* A step in which no event is claimed, stored or counted; workers may drop *)
(* what they do, and nobody is given other work.                            *)
Quiet ==
  /\ UNCHANGED <<rows, counted>>
  /\ \A w \in Workers : pc'[w] \in Working =>
       pc'[w] = pc[w] /\ Msg(w)' = Msg(w)
  /\ faulted \subseteq faulted'
  /\ \A id \in EventIds \ faulted' : id \in dedup' <=> id \in dedup

(* A step of Process, by which worker w comes to a stage.                   *)
Advance(w, stage) ==
  /\ pc[w] \in Stages \ {"down", "fetch"}
  /\ pc' = [pc EXCEPT ![w] = stage]
  /\ UNCHANGED <<log, cur>>

(* What is published is appended: a message in hand stays what it is.       *)
LEMMA PublishKeepsMsg ==
  ASSUME TypeOK, NEW id \in EventIds, NEW ts \in Stamps, Publish(id, ts),
         NEW w \in Workers, pc[w] \in Working
  PROVE  Msg(w)' = Msg(w)
  <1> DEFINE p == PartitionOf[id]  m == [id |-> id, ts |-> ts]
             part == cur[w].part  off == cur[w].off
  <1>1. p \in Partitions /\ m \in Message
    BY PartitionsAssumption DEF Message
  <1>2. /\ log' = [log EXCEPT ![p] = Append(@, m)]
        /\ cur' = cur
        /\ log \in [Partitions -> Seq(Message)]
    BY DEF Publish, TypeOK
  <1>3. part \in Partitions /\ off \in 1 .. Len(log[part])
    BY MsgType DEF Working
  <1> HIDE DEF p, m, part, off
  <1>4. log[part] \in Seq(Message) /\ log'[part] \in {log[part], Append(log[part], m)}
    BY <1>1, <1>2, <1>3
  <1>5. log'[part][off] = log[part][off]
    BY <1>1, <1>3, <1>4
  <1> QED
    BY <1>2, <1>5 DEF Msg, part, off

(* Every step outside Process is quiet.                                     *)
LEMMA QuietSteps ==
  ASSUME TypeOK, [Next]_vars,
         ~ \E w \in Workers : Process(w)
  PROVE  Quiet
  <1> USE DEF Quiet, Working
  <1>0. pc \in [Workers -> Stages] /\ cur \in [Workers -> [part : Partitions, off : Nat]]
    BY DEF TypeOK
  <1>1. ASSUME NEW id \in EventIds, NEW ts \in Stamps, Publish(id, ts)
        PROVE  Quiet
    <2>1. UNCHANGED <<rows, counted, dedup, faulted, pc>>
      BY <1>1 DEF Publish, redisVars, historyVars
    <2> QED
      BY <1>1, <2>1, PublishKeepsMsg
  <1>2. ASSUME NEW w \in Workers, FetchMessage(w)
        PROVE  Quiet
    <2>1. /\ UNCHANGED <<rows, counted, dedup, faulted, log>>
          /\ \A v \in Workers : v # w => pc'[v] = pc[v] /\ cur'[v] = cur[v]
          /\ pc'[w] \in {"dedup", "commitErr"}
      BY <1>0, <1>2 DEF FetchMessage, redisVars, historyVars
    <2> QED
      BY <2>1 DEF Msg
  <1>3. ASSUME NEW w \in Workers, CommitMessages(w) \/ CommitRefused(w)
        PROVE  Quiet
    <2>1. /\ UNCHANGED <<rows, counted, dedup, faulted, log>>
          /\ \A v \in Workers : v # w => pc'[v] = pc[v] /\ cur'[v] = cur[v]
          /\ pc'[w] \in {"fetch", "down"}
      BY <1>0, <1>3 DEF CommitMessages, CommitRefused, Leave, Gone, redisVars,
                        historyVars, kafkaVars
    <2> QED
      BY <2>1 DEF Msg
  <1>4. ASSUME NEW w \in Workers, FetchFails(w) \/ Crash(w)
        PROVE  Quiet
    <2>1. /\ UNCHANGED <<rows, counted, dedup, faulted, log>>
          /\ \A v \in Workers : v # w => pc'[v] = pc[v] /\ cur'[v] = cur[v]
          /\ pc'[w] = "down"
      BY <1>0, <1>4 DEF FetchFails, Crash, Leave, Gone, redisVars, historyVars
    <2> QED
      BY <2>1 DEF Msg
  <1>5. ASSUME NEW w \in Workers, FlushCommits(w) \/ Shutdown(w) \/ Start(w)
        PROVE  Quiet
    <2>1. /\ UNCHANGED <<rows, counted, dedup, faulted, log, cur>>
          /\ \A v \in Workers : pc'[v] = pc[v] \/ pc'[v] = "fetch"
      BY <1>0, <1>5 DEF FlushCommits, Shutdown, Start, redisVars, historyVars,
                        kafkaVars
    <2> QED
      BY <2>1 DEF Msg
  <1>6. CASE TakeOver \/ Rebalance
    <2>1. UNCHANGED <<rows, counted, dedup, faulted, log, cur, pc>>
      BY <1>6 DEF TakeOver, Rebalance, Reassign, redisVars, historyVars
    <2> QED
      BY <2>1 DEF Msg
  <1>7. ASSUME NEW id \in EventIds, EvictKey(id)
        PROVE  Quiet
    <2>1. /\ UNCHANGED <<rows, counted, log, cur, pc>>
          /\ dedup' = dedup \ {id} /\ faulted' = faulted \union {id}
      BY <1>7 DEF EvictKey, kafkaVars
    <2> QED
      BY <2>1 DEF Msg
  <1>8. CASE UNCHANGED vars
    BY <1>8 DEF vars, Msg
  <1> QED
    BY <1>1, <1>2, <1>3, <1>4, <1>5, <1>6, <1>7, <1>8 DEF Next, Consume

LEMMA CountersDistinct ==
  /\ Counters = {"calls", "latency", "cost"}
  /\ Counters \subseteq Stages /\ Counters \subseteq Working
  BY DEF Counters, Stages, Working

-----------------------------------------------------------------------------
(* Counters follow the table.                                               *)

(* A worker that counts has stored its event and counted it before.         *)
CountingFollows ==
  \A w \in Workers :
    /\ pc[w] \in Counters => HasRow(Msg(w).id)
    /\ pc[w] = "latency" => counted["calls"][Msg(w).id] > 0
    /\ pc[w] = "cost" => counted["latency"][Msg(w).id] > 0

FollowInv == CountersFollowStore /\ CountingFollows

LEMMA FollowInit == Init => FollowInv
  BY DEF Init, FollowInv, CountersFollowStore, CountingFollows, Counters

(* A step that counts nothing, and by which a worker begins to count only   *)
(* what it has stored.                                                      *)
LEMMA FollowStep ==
  ASSUME FollowInv, rows \subseteq rows', counted' = counted,
         \A w \in Workers : pc'[w] \in Counters =>
           \/ pc'[w] = pc[w] /\ Msg(w)' = Msg(w)
           \/ pc'[w] = "calls" /\ Msg(w)' \in rows'
  PROVE  FollowInv'
  <1>1. \A id : HasRow(id) => HasRow(id)'
    BY DEF HasRow
  <1>2. \A w \in Workers : Msg(w)' \in rows' => HasRow(Msg(w).id)'
    BY DEF HasRow
  <1> QED
    BY <1>1, <1>2 DEF FollowInv, CountersFollowStore, CountingFollows, Counters

LEMMA FollowUpdateCounter ==
  ASSUME TypeOK, FollowInv, NEW w \in Workers, NEW c \in Counters,
         UpdateCounter(w, c)
  PROVE  FollowInv'
  <1> DEFINE m == Msg(w)
  <1>1. /\ pc[w] = c
        /\ UNCHANGED <<log, cur, rows>>
        /\ m.id \in EventIds
    BY MsgType DEF UpdateCounter, kafkaVars, Counters
  <1>2. counted \in [Counters -> [EventIds -> Nat]]
    BY DEF TypeOK
  <1>3. PICK n \in {0, 1, 2} :
          /\ n = 0 => pc' = [pc EXCEPT ![w] = "commit"]
          /\ counted' = [counted EXCEPT ![c][m.id] = @ + n]
    <2>1. counted = [counted EXCEPT ![c][m.id] = @ + 0]
      BY <1>1, <1>2
    <2> QED
      BY <2>1 DEF UpdateCounter, CounterAnswers, CounterFails, Count, Answer
  <1>4. \/ pc' = [pc EXCEPT ![w] = "commit"]
        \/ c # "cost" /\ pc' = [pc EXCEPT ![w] = NextStage(c)]
    BY DEF UpdateCounter, CounterAnswers, CounterFails, Answer, Goto
  <1> HIDE DEF m
  <1>5. \A d \in Counters, id \in EventIds :
          counted'[d][id] = IF d = c /\ id = m.id THEN counted[d][id] + n
                            ELSE counted[d][id]
    BY <1>1, <1>2, <1>3
  <1>6. /\ HasRow(m.id)
        /\ c = "latency" => counted["calls"][m.id] > 0
        /\ c = "cost" => counted["latency"][m.id] > 0
    BY <1>1 DEF FollowInv, CountingFollows, m
  <1>7. \A id : HasRow(id)' = HasRow(id)
    BY <1>1 DEF HasRow
  <1>8. CountersFollowStore'
    <2> SUFFICES ASSUME NEW id \in EventIds
                 PROVE  /\ counted'["calls"][id] > 0 => HasRow(id)
                        /\ counted'["latency"][id] > 0 => counted'["calls"][id] > 0
                        /\ counted'["cost"][id] > 0 => counted'["latency"][id] > 0
      BY <1>7 DEF CountersFollowStore
    <2>1. \A d \in {"calls", "latency", "cost"} :
            /\ counted[d][id] \in Nat /\ counted'[d][id] \in Nat
            /\ counted'[d][id] >= counted[d][id]
            /\ d # c \/ id # m.id => counted'[d][id] = counted[d][id]
      BY <1>2, <1>5, CountersDistinct
    <2>2. c \in {"calls", "latency", "cost"}
      BY CountersDistinct
    <2>3. /\ counted["calls"][id] > 0 => HasRow(id)
          /\ counted["latency"][id] > 0 => counted["calls"][id] > 0
          /\ counted["cost"][id] > 0 => counted["latency"][id] > 0
      BY DEF FollowInv, CountersFollowStore
    <2>4. CASE id = m.id
      BY <1>6, <2>1, <2>2, <2>3, <2>4
    <2>5. CASE id # m.id
      BY <2>1, <2>3, <2>5
    <2> QED
      BY <2>4, <2>5
  <1>9. CountingFollows'
    <2> SUFFICES ASSUME NEW v \in Workers, pc'[v] \in Counters
                 PROVE  /\ Msg(v)' = Msg(v)
                        /\ HasRow(Msg(v).id)
                        /\ pc'[v] = "latency" => counted'["calls"][Msg(v).id] > 0
                        /\ pc'[v] = "cost" => counted'["latency"][Msg(v).id] > 0
      BY <1>7, CountersDistinct DEF CountingFollows
    <2>1. Msg(v)' = Msg(v)
      BY <1>1 DEF Msg
    <2>2. CASE v = w
      <3>1. /\ n # 0
            /\ \/ c = "calls" /\ pc'[v] = "latency"
               \/ c = "latency" /\ pc'[v] = "cost"
        BY <1>1, <1>3, <1>4, <2>2 DEF NextStage, Counters, TypeOK
      <3> QED
        BY <1>1, <1>2, <1>3, <1>5, <1>6, <1>7, <2>1, <2>2, <3>1, CountersDistinct
           DEF m
    <2>3. CASE v # w
      <3>1. pc'[v] = pc[v] /\ pc[v] \notin {"down", "fetch"}
        BY <1>4, <2>3 DEF TypeOK, Counters
      <3>2. Msg(v).id \in EventIds
        BY <3>1, MsgType
      <3> QED
        BY <1>2, <1>5, <1>7, <2>1, <3>1, <3>2, CountersDistinct
           DEF FollowInv, CountingFollows
    <2> QED
      BY <2>2, <2>3
  <1> QED
    BY <1>8, <1>9 DEF FollowInv

LEMMA FollowNext ==
  ASSUME TypeOK, FollowInv, [Next]_vars
  PROVE  FollowInv'
  <1>1. CASE ~ \E w \in Workers : Process(w)
    BY <1>1, QuietSteps, FollowStep DEF Quiet, Working, Counters
  <1>2. ASSUME NEW w \in Workers, IsDuplicate(w)
        PROVE  FollowInv'
    <2>1. /\ UNCHANGED <<log, cur, rows, counted>>
          /\ \A v \in Workers : pc'[v] \in Counters => pc'[v] = pc[v]
      BY <1>2 DEF IsDuplicate, DedupAnswers, DedupFails, DedupResent, Answer,
                  Goto, kafkaVars, Counters, TypeOK
    <2> QED
      BY <2>1, FollowStep DEF Msg
  <1>3. ASSUME NEW w \in Workers, InsertEvent(w)
        PROVE  FollowInv'
    <2>1. /\ UNCHANGED <<log, cur, counted>>
          /\ rows \subseteq rows'
          /\ \A v \in Workers : pc'[v] \in Counters =>
               pc'[v] = pc[v] \/ (pc'[v] = "calls" /\ Msg(v) \in rows')
      BY <1>3 DEF InsertEvent, InsertAnswers, InsertFails, Inserted, Answer,
                  Goto, kafkaVars, redisVars, Counters, TypeOK
    <2> QED
      BY <2>1, FollowStep DEF Msg
  <1> QED
    BY <1>1, <1>2, <1>3, FollowUpdateCounter DEF Process

(* A counter in Redis includes an event only if it has its row in the table *)
(* and is in the counters that are updated before, whatever updates fail.   *)
THEOREM CountersFollow == Spec => []CountersFollowStore
  <1>1. Init => TypeOK /\ FollowInv
    BY TypeInit, FollowInit
  <1>2. TypeOK /\ FollowInv /\ [Next]_vars => (TypeOK /\ FollowInv)'
    BY TypeNext, FollowNext
  <1>3. FollowInv => CountersFollowStore
    BY DEF FollowInv
  <1> QED
    BY <1>1, <1>2, <1>3, PTL DEF Spec

-----------------------------------------------------------------------------
(* Nothing is counted or stored twice.                                      *)

(* Worker w has claimed the event and not yet answered.                     *)
On(w, id) == pc[w] \in Working /\ Msg(w).id = id

(* The claim is what keeps others out: one worker at a time, the key there  *)
(* as long as anything of the event is, and what the worker has still to do *)
(* not done before.                                                         *)
Once(id) ==
  /\ \A v, w \in Workers : On(v, id) /\ On(w, id) => v = w
  /\ \A w \in Workers : On(w, id) =>
       /\ id \in dedup
       /\ pc[w] = "insert" => \A r \in rows : r.id # id
       /\ \A c \in Ahead(pc[w]) : counted[c][id] = 0
  /\ id \notin dedup =>
       (\A r \in rows : r.id # id) /\ (\A c \in Counters : counted[c][id] = 0)
  /\ \A c \in Counters : counted[c][id] <= 1
  /\ \A r, s \in rows : r.id = id /\ s.id = id => r = s

OnceInv == \A id \in EventIds \ faulted : Once(id)

LEMMA OnceInit == Init => OnceInv
  BY CountersDistinct DEF Init, OnceInv, Once, On, Working

LEMMA AheadCounters == \A stage : Ahead(stage) \subseteq Counters
  BY CountersDistinct DEF Ahead

LEMMA OnceQuiet ==
  ASSUME OnceInv, Quiet
  PROVE  OnceInv'
  <1> SUFFICES ASSUME NEW id \in EventIds \ faulted'
               PROVE  Once(id)'
    BY DEF OnceInv
  <1>1. Once(id) /\ (id \in dedup' <=> id \in dedup)
    BY DEF OnceInv, Quiet
  <1>2. \A w \in Workers : On(w, id)' => On(w, id) /\ pc'[w] = pc[w]
    BY DEF Quiet, On
  <1>3. UNCHANGED <<rows, counted>>
    BY DEF Quiet
  <1> QED
    BY <1>1, <1>2, <1>3 DEF Once

(* A step of Process concerns the event in hand and no other.               *)
LEMMA OnceOther ==
  ASSUME TypeOK, NEW w \in Workers, NEW stage \in Stages, Advance(w, stage),
         NEW id, id # Msg(w).id, Once(id),
         id \in dedup' <=> id \in dedup,
         rows \subseteq rows', rows' \subseteq rows \union {Msg(w)},
         \A c \in Counters : counted'[c][id] = counted[c][id]
  PROVE  Once(id)'
  <1>1. \A v \in Workers : /\ Msg(v)' = Msg(v)
                           /\ v # w => pc'[v] = pc[v]
    BY DEF Advance, Msg, TypeOK
  <1>2. \A v \in Workers : On(v, id)' => On(v, id) /\ pc'[v] = pc[v]
    BY <1>1 DEF On
  <1>3. \A r \in rows' : r.id = id => r \in rows
    OBVIOUS
  <1> QED
    BY <1>2, <1>3, AheadCounters DEF Once

LEMMA OnceIsDuplicate ==
  ASSUME TypeOK, OnceInv, NEW w \in Workers, IsDuplicate(w)
  PROVE  OnceInv'
  <1> DEFINE own == Msg(w).id
  <1>1. /\ pc[w] = "dedup"
        /\ UNCHANGED <<log, cur, rows, counted>>
        /\ faulted \subseteq faulted'
        /\ dedup \subseteq dedup' /\ dedup' \subseteq dedup \union {own}
    BY DEF IsDuplicate, DedupAnswers, DedupFails, DedupResent, kafkaVars
  <1>2. \/ own \in faulted'
        \/ dedup' = dedup /\ pc' = [pc EXCEPT ![w] = "commit"]
        \/ own \notin dedup /\ own \in dedup' /\ pc' = [pc EXCEPT ![w] = "commit"]
        \/ own \notin dedup /\ own \in dedup' /\ pc' = [pc EXCEPT ![w] = "insert"]
    BY DEF IsDuplicate, DedupAnswers, DedupFails, DedupResent, Answer, Goto
  <1>3. PICK stage \in {"commit", "insert"} : Advance(w, stage)
    BY <1>1 DEF IsDuplicate, DedupAnswers, DedupFails, DedupResent, Answer,
                Goto, Advance, Stages
  <1>4. ASSUME NEW id \in EventIds \ faulted', id # own
        PROVE  Once(id)'
    BY <1>1, <1>3, <1>4, OnceOther DEF OnceInv, Stages
  <1>5. ASSUME NEW id \in EventIds \ faulted', id = own
        PROVE  Once(id)'
    <2>1. Once(id)
      BY <1>1, <1>5 DEF OnceInv
    <2>2. /\ \A v \in Workers : Msg(v)' = Msg(v)
          /\ \A v \in Workers : v # w => pc'[v] = pc[v]
          /\ pc'[w] = stage /\ ~On(w, id)
      BY <1>1, <1>3 DEF Advance, Msg, On, Working, TypeOK
    <2>3. CASE stage = "commit"
      <3>1. \A v \in Workers : On(v, id)' => On(v, id) /\ pc'[v] = pc[v]
        BY <2>2, <2>3 DEF On, Working
      <3> QED
        BY <1>1, <2>1, <3>1 DEF Once
    <2>4. CASE stage = "insert"
      <3>1. id \notin dedup /\ id \in dedup'
        BY <1>1, <1>2, <1>5, <2>2, <2>4 DEF TypeOK
      <3>2. \A v \in Workers : On(v, id)' => v = w
        BY <2>1, <2>2, <3>1 DEF Once, On
      <3>3. /\ \A r \in rows' : r.id # id
            /\ \A c \in Counters : counted'[c][id] = 0
        BY <1>1, <2>1, <3>1 DEF Once
      <3> QED
        BY <3>1, <3>2, <3>3, AheadCounters DEF Once
    <2> QED
      BY <2>3, <2>4
  <1> QED
    BY <1>4, <1>5 DEF OnceInv

LEMMA OnceInsertEvent ==
  ASSUME TypeOK, OnceInv, NEW w \in Workers, InsertEvent(w)
  PROVE  OnceInv'
  <1> DEFINE m == Msg(w)
  <1>1. /\ pc[w] = "insert"
        /\ UNCHANGED <<log, cur, dedup, counted, faulted>>
        /\ rows \subseteq rows' /\ rows' \subseteq rows \union {m}
    BY DEF InsertEvent, InsertAnswers, InsertFails, Inserted, kafkaVars,
           redisVars
  <1>2. PICK stage \in {"calls", "commitErr"} : Advance(w, stage)
    BY <1>1 DEF InsertEvent, InsertAnswers, InsertFails, Answer, Goto, Advance,
                Stages
  <1>3. ASSUME NEW id \in EventIds \ faulted', id # m.id
        PROVE  Once(id)'
    BY <1>1, <1>2, <1>3, OnceOther DEF OnceInv, Stages
  <1>4. ASSUME NEW id \in EventIds \ faulted', id = m.id
        PROVE  Once(id)'
    <2>1. Once(id) /\ On(w, id)
      BY <1>1, <1>4 DEF OnceInv, On, Working
    <2>2. /\ id \in dedup'
          /\ \A r \in rows : r.id # id
          /\ \A c \in Counters : counted'[c][id] = 0
      BY <1>1, <2>1 DEF Once, Ahead
    <2>3. \A v \in Workers : On(v, id)' => v = w
      <3>1. \A v \in Workers : v # w => Msg(v)' = Msg(v) /\ pc'[v] = pc[v]
        BY <1>2 DEF Advance, Msg, TypeOK
      <3> QED
        BY <2>1, <3>1 DEF Once, On
    <2>4. pc'[w] # "insert"
      BY <1>2 DEF Advance, TypeOK
    <2>5. \A r, s \in rows' : r.id = id /\ s.id = id => r = s
      BY <1>1, <2>2
    <2> QED
      BY <2>2, <2>3, <2>4, <2>5, AheadCounters DEF Once
  <1> QED
    BY <1>3, <1>4 DEF OnceInv

LEMMA OnceUpdateCounter ==
  ASSUME TypeOK, OnceInv, NEW w \in Workers, NEW c \in Counters,
         UpdateCounter(w, c)
  PROVE  OnceInv'
  <1> DEFINE own == Msg(w).id
  <1>1. /\ pc[w] = c /\ own \in EventIds
        /\ UNCHANGED <<log, cur, dedup, rows>>
        /\ faulted \subseteq faulted'
    BY MsgType DEF UpdateCounter, CounterAnswers, CounterFails, kafkaVars,
                   Counters
  <1>2. counted \in [Counters -> [EventIds -> Nat]]
    BY DEF TypeOK
  <1>3. PICK n \in {0, 1, 2} :
          /\ counted' = [counted EXCEPT ![c][own] = @ + n]
          /\ n = 2 => own \in faulted'
    <2>1. counted = [counted EXCEPT ![c][own] = @ + 0]
      BY <1>1, <1>2
    <2> QED
      BY <2>1 DEF UpdateCounter, CounterAnswers, CounterFails, Count
  <1>4. PICK stage \in Stages :
          /\ Advance(w, stage)
          /\ \/ stage = "commit"
             \/ c = "calls" /\ stage = "latency"
             \/ c = "latency" /\ stage = "cost"
    BY <1>1 DEF UpdateCounter, CounterAnswers, CounterFails, Answer, Goto,
                NextStage, Advance, Stages, Counters
  <1> HIDE DEF own
  <1>5. \A d \in Counters, id \in EventIds :
          counted'[d][id] = IF d = c /\ id = own THEN counted[d][id] + n
                            ELSE counted[d][id]
    BY <1>1, <1>2, <1>3
  <1>6. ASSUME NEW id \in EventIds \ faulted', id # own
        PROVE  Once(id)'
    BY <1>1, <1>4, <1>5, <1>6, OnceOther DEF OnceInv, own
  <1>7. ASSUME NEW id \in EventIds \ faulted', id = own
        PROVE  Once(id)'
    <2>1. Once(id) /\ On(w, id)
      BY <1>1, <1>7, CountersDistinct DEF OnceInv, On, own
    <2>2. /\ id \in dedup'
          /\ \A d \in Ahead(c) : counted[d][id] = 0
          /\ \A d \in Counters : counted[d][id] \in Nat /\ counted[d][id] <= 1
      BY <1>1, <1>2, <2>1 DEF Once
    <2>3. \A v \in Workers : On(v, id)' => v = w
      <3>1. \A v \in Workers : v # w => Msg(v)' = Msg(v) /\ pc'[v] = pc[v]
        BY <1>4 DEF Advance, Msg, TypeOK
      <3> QED
        BY <2>1, <3>1 DEF Once, On
    <2>4. c \in Ahead(c) /\ n \in {0, 1}
      BY <1>3, <1>7, CountersDistinct DEF Ahead
    <2>5. \A d \in Counters : counted'[d][id] <= 1
      BY <1>1, <1>5, <2>2, <2>4
    <2>6. /\ pc'[w] = stage /\ stage # "insert"
          /\ On(w, id)' => \A d \in Ahead(stage) : d \in Ahead(c) /\ d # c
      BY <1>4, CountersDistinct DEF Advance, TypeOK, Ahead, On, Working
    <2>7. On(w, id)' => \A d \in Ahead(pc'[w]) : counted'[d][id] = 0
      BY <1>1, <1>5, <2>2, <2>6, AheadCounters
    <2> QED
      BY <1>1, <2>1, <2>2, <2>3, <2>5, <2>6, <2>7 DEF Once
  <1> QED
    BY <1>6, <1>7 DEF OnceInv

LEMMA OnceNext ==
  ASSUME TypeOK, OnceInv, [Next]_vars
  PROVE  OnceInv'
  BY QuietSteps, OnceQuiet, OnceIsDuplicate, OnceInsertEvent,
     OnceUpdateCounter DEF Process

(* Without a Redis fault the claim is enough: however often an event is     *)
(* published, delivered, or taken up by several workers at once, it has one *)
(* row and is in each counter at most once.                                 *)
THEOREM CountedAtMostOnce == Spec => []CountedOnce
  <1>1. Init => TypeOK /\ OnceInv
    BY TypeInit, OnceInit
  <1>2. TypeOK /\ OnceInv /\ [Next]_vars => (TypeOK /\ OnceInv)'
    BY TypeNext, OnceNext
  <1>3. OnceInv => CountedOnce
    BY DEF OnceInv, Once, CountedOnce
  <1> QED
    BY <1>1, <1>2, <1>3, PTL DEF Spec
=============================================================================
