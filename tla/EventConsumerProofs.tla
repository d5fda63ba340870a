------------------------- MODULE EventConsumerProofs -------------------------
(***************************************************************************)
(* Theorems about EventConsumer, for any number of workers, partitions,    *)
(* events and faults.                                                      *)
(***************************************************************************)
EXTENDS EventConsumer, TLAPS

LEMMA IdleType == Idle \in [part : Partitions, off : Nat] /\ Idle.off = 0
BY PartitionsAssumption DEF Idle

LEMMA TypeInit == Init => TypeOK
<1> SUFFICES ASSUME Init PROVE TypeOK
  OBVIOUS
<1>1. \A p \in Partitions : log[p] = << >> /\ committed[p] = 0 /\ pos[p] = 0
  BY DEF Init
<1>2. log \in [Partitions -> Seq(Message)]
  BY DEF Init
<1>3. stash \in [Workers -> [Partitions -> Nat]]
  BY DEF Init
<1>4. counted \in [Counters -> [EventIds -> Nat]]
  BY DEF Init
<1>5. cur \in [Workers -> [part : Partitions, off : Nat]]
  BY IdleType DEF Init
<1>6. \A w \in Workers : pc[w] = "down" /\ cur[w].off = 0
  BY IdleType DEF Init
<1>7. \A w \in Workers, p \in Partitions : stash[w][p] = 0
  BY DEF Init
<1> QED
  BY <1>1, <1>2, <1>3, <1>4, <1>5, <1>6, <1>7 DEF Init, TypeOK, Stages

LEMMA TypePublish ==
  ASSUME TypeOK, NEW id \in EventIds, NEW ts \in Stamps, Publish(id, ts)
  PROVE  TypeOK'
<1> DEFINE p == PartitionOf[id]  m == [id |-> id, ts |-> ts]
<1>1. p \in Partitions /\ m \in Message
  BY PartitionsAssumption DEF Message
<1>2. /\ log' = [log EXCEPT ![p] = Append(@, m)]
      /\ log \in [Partitions -> Seq(Message)]
  BY DEF Publish, TypeOK
<1> HIDE DEF p, m
<1>3. log' \in [Partitions -> Seq(Message)]
  BY <1>1, <1>2
<1>4. \A q \in Partitions : Len(log[q]) \in Nat /\ Len(log'[q]) >= Len(log[q])
  BY <1>1, <1>2
<1>5. \A q \in Partitions : Len(log'[q]) \in Nat
  BY <1>3
<1>6. UNCHANGED <<committed, owner, pos, stash, pc, cur, cancelled, rows, dedup,
                  counted, results, abandoned, faulted, faults>>
  BY DEF Publish, redisVars, historyVars
<1>7. \A q \in Partitions : committed'[q] <= Len(log'[q]) /\ pos'[q] <= Len(log'[q])
  BY <1>4, <1>5, <1>6 DEF TypeOK
<1>8. \A w \in Workers, q \in Partitions : stash'[w][q] <= Len(log'[q])
  BY <1>4, <1>5, <1>6 DEF TypeOK
<1>9. \A w \in Workers :
        IF pc'[w] \in {"down", "fetch"}
        THEN cur'[w].off = 0
        ELSE cur'[w].off \in 1 .. Len(log'[cur'[w].part])
  <2> SUFFICES ASSUME NEW w \in Workers, pc[w] \notin {"down", "fetch"}
               PROVE  cur[w].off \in 1 .. Len(log'[cur[w].part])
    BY <1>6 DEF TypeOK
  <2>1. cur[w].part \in Partitions /\ cur[w].off \in 1 .. Len(log[cur[w].part])
    BY DEF TypeOK
  <2> QED
    BY <1>4, <1>5, <2>1
<1> QED
  BY <1>3, <1>6, <1>7, <1>8, <1>9 DEF TypeOK

(* The message a working worker holds is one of the topic. *)
LEMMA MsgType ==
  ASSUME TypeOK, NEW w \in Workers, pc[w] \notin {"down", "fetch"}
  PROVE  /\ cur[w].part \in Partitions
         /\ cur[w].off \in 1 .. Len(log[cur[w].part])
         /\ Msg(w) \in Message
         /\ Msg(w).id \in EventIds
<1>1. /\ cur[w].part \in Partitions
      /\ cur[w].off \in 1 .. Len(log[cur[w].part])
  BY DEF TypeOK
<1>2. log[cur[w].part] \in Seq(Message)
  BY <1>1 DEF TypeOK
<1>3. Msg(w) \in Message
  BY <1>1, <1>2 DEF Msg
<1> QED
  BY <1>1, <1>3 DEF Message

LEMMA FaultType ==
  ASSUME TypeOK, NEW k \in FaultKind, Fault(k)
  PROVE  faults' \in [FaultKind -> Nat]
BY DEF TypeOK, Fault

LEMMA TypeFetchMessage ==
  ASSUME TypeOK, NEW w \in Workers, FetchMessage(w)
  PROVE  TypeOK'
<1>1. PICK p \in Partitions :
        /\ owner[p] = w
        /\ pos[p] < Len(log[p])
        /\ pos' = [pos EXCEPT ![p] = @ + 1]
        /\ cur' = [cur EXCEPT ![w] = [part |-> p, off |-> pos[p] + 1]]
        /\ \/ pc' = [pc EXCEPT ![w] = "dedup"] /\ results' = results
           \/ /\ pc' = [pc EXCEPT ![w] = "commitErr"]
              /\ \E e \in {"garbage", "error"} :
                   results' = results \union {<<p, pos[p] + 1, e>>}
  BY DEF FetchMessage, Entry
<1>2. Len(log[p]) \in Nat /\ pos[p] \in Nat
  BY DEF TypeOK
<1>3. pos' \in [Partitions -> Nat] /\ cur' \in [Workers -> [part : Partitions, off : Nat]]
  BY <1>1, <1>2 DEF TypeOK
<1>4. results' \subseteq Partitions \X Nat \X Outcomes
  BY <1>1, <1>2 DEF TypeOK, Outcomes
<1>5. pc' \in [Workers -> Stages]
  BY <1>1 DEF TypeOK, Stages
<1>6. \A q \in Partitions : pos'[q] <= Len(log[q])
  BY <1>1, <1>2 DEF TypeOK
<1>7. \A v \in Workers :
        IF pc'[v] \in {"down", "fetch"}
        THEN cur'[v].off = 0
        ELSE cur'[v].off \in 1 .. Len(log[cur'[v].part])
  <2> SUFFICES ASSUME NEW v \in Workers
               PROVE  IF pc'[v] \in {"down", "fetch"}
                      THEN cur'[v].off = 0
                      ELSE cur'[v].off \in 1 .. Len(log[cur'[v].part])
    OBVIOUS
  <2>1. CASE v = w
    BY <2>1, <1>1, <1>2 DEF TypeOK
  <2>2. CASE v # w
    BY <2>2, <1>1 DEF TypeOK
  <2> QED
    BY <2>1, <2>2
<1> QED
  BY <1>3, <1>4, <1>5, <1>6, <1>7 DEF FetchMessage, TypeOK, redisVars

(* What a worker's step keeps of the type when it leaves Kafka alone and    *)
(* goes on working on the same message.                                     *)
LEMMA TypeProcess ==
  ASSUME TypeOK, NEW w \in Workers,
         pc[w] \notin {"down", "fetch"},
         NEW stage \in Stages \ {"down", "fetch"},
         pc' = [pc EXCEPT ![w] = stage],
         results' = results \/ \E o \in Outcomes :
           results' = results \union {<<cur[w].part, cur[w].off, o>>},
         UNCHANGED <<kafkaVars, cur, cancelled>>,
         dedup' \subseteq EventIds, rows' \subseteq Message,
         counted' \in [Counters -> [EventIds -> Nat]],
         abandoned' \subseteq EventIds, faulted' \subseteq EventIds,
         faults' \in [FaultKind -> Nat]
  PROVE  TypeOK'
<1>1. results' \subseteq Partitions \X Nat \X Outcomes
  BY DEF TypeOK
<1>2. pc' \in [Workers -> Stages]
  BY DEF TypeOK
<1>3. \A v \in Workers :
        pc'[v] \in {"down", "fetch"} <=> pc[v] \in {"down", "fetch"}
  BY DEF TypeOK, Stages
<1> QED
  BY <1>1, <1>2, <1>3 DEF TypeOK, kafkaVars

LEMMA CallFailsType ==
  ASSUME TypeOK, NEW w, NEW k \in FaultKind, CallFails(w, k)
  PROVE  faults' \in [FaultKind -> Nat]
BY FaultType DEF CallFails, TypeOK

LEMMA TypeIsDuplicate ==
  ASSUME TypeOK, NEW w \in Workers, IsDuplicate(w)
  PROVE  TypeOK'
<1>1. Msg(w).id \in EventIds
  BY MsgType DEF IsDuplicate
<1>2. faults' \in [FaultKind -> Nat]
  BY CallFailsType, FaultType
     DEF IsDuplicate, DedupAnswers, DedupFails, DedupResent, FaultKind, TypeOK
<1>3. /\ dedup' \subseteq EventIds
      /\ abandoned' \subseteq EventIds
      /\ faulted' \subseteq EventIds
      /\ rows' \subseteq Message
      /\ counted' \in [Counters -> [EventIds -> Nat]]
  BY <1>1 DEF IsDuplicate, DedupAnswers, DedupFails, DedupResent, TypeOK
<1>4. \E stage \in Stages \ {"down", "fetch"} : pc' = [pc EXCEPT ![w] = stage]
  BY DEF IsDuplicate, DedupAnswers, DedupFails, DedupResent, Answer, Goto,
         Stages
<1>5. results' = results \/ \E o \in Outcomes :
        results' = results \union {<<cur[w].part, cur[w].off, o>>}
  BY DEF IsDuplicate, DedupAnswers, DedupFails, DedupResent, Answer, Goto,
         Outcomes
<1> QED
  <2>1. PICK stage \in Stages \ {"down", "fetch"} :
          pc' = [pc EXCEPT ![w] = stage]
    BY <1>4
  <2> QED
    BY <1>2, <1>3, <1>5, <2>1, TypeProcess DEF IsDuplicate

LEMMA TypeInsertEvent ==
  ASSUME TypeOK, NEW w \in Workers, InsertEvent(w)
  PROVE  TypeOK'
<1>1. Msg(w) \in Message
  BY MsgType DEF InsertEvent
<1>2. faults' \in [FaultKind -> Nat]
  BY CallFailsType DEF InsertEvent, InsertAnswers, InsertFails, FaultKind, TypeOK
<1>3. rows' \subseteq Message
  BY <1>1 DEF InsertEvent, InsertAnswers, InsertFails, Inserted, TypeOK
<1>4. \E stage \in Stages \ {"down", "fetch"} : pc' = [pc EXCEPT ![w] = stage]
  BY DEF InsertEvent, InsertAnswers, InsertFails, Answer, Goto, Stages
<1>5. results' = results \/ \E o \in Outcomes :
        results' = results \union {<<cur[w].part, cur[w].off, o>>}
  BY DEF InsertEvent, InsertAnswers, InsertFails, Answer, Goto, Outcomes
<1> QED
  BY <1>2, <1>3, <1>4, <1>5, TypeProcess DEF InsertEvent, TypeOK, redisVars

LEMMA CountType ==
  ASSUME TypeOK, NEW c \in Counters, NEW id \in EventIds, NEW n \in Nat
  PROVE  /\ Count(c, id, n) \in [Counters -> [EventIds -> Nat]]
         /\ \A d \in Counters, e \in EventIds :
              Count(c, id, n)[d][e] =
                counted[d][e] + (IF d = c /\ e = id THEN n ELSE 0)
BY DEF TypeOK, Count

LEMMA TypeUpdateCounter ==
  ASSUME TypeOK, NEW w \in Workers, NEW c \in Counters, UpdateCounter(w, c)
  PROVE  TypeOK'
<1>1. Msg(w).id \in EventIds /\ pc[w] \notin {"down", "fetch"}
  BY MsgType DEF UpdateCounter, Counters
<1>2. faults' \in [FaultKind -> Nat]
  BY CallFailsType, FaultType
     DEF UpdateCounter, CounterAnswers, CounterFails, FaultKind, TypeOK
<1>3. counted' \in [Counters -> [EventIds -> Nat]]
  <2>1. counted' \in {counted, Count(c, Msg(w).id, 1), Count(c, Msg(w).id, 2)}
    BY DEF UpdateCounter, CounterAnswers, CounterFails
  <2>2. \A n \in {1, 2} :
          Count(c, Msg(w).id, n) \in [Counters -> [EventIds -> Nat]]
    BY <1>1, CountType
  <2> QED
    BY <2>1, <2>2 DEF TypeOK
<1>4. \E stage \in Stages \ {"down", "fetch"} : pc' = [pc EXCEPT ![w] = stage]
  BY DEF UpdateCounter, CounterAnswers, CounterFails, Answer, Goto, Stages,
         NextStage, Counters
<1>5. results' = results \/ \E o \in Outcomes :
        results' = results \union {<<cur[w].part, cur[w].off, o>>}
  BY DEF UpdateCounter, CounterAnswers, CounterFails, Answer, Goto, Outcomes
<1>6. faulted' \subseteq EventIds
  BY <1>1 DEF UpdateCounter, CounterAnswers, CounterFails, TypeOK
<1> QED
  BY <1>1, <1>2, <1>3, <1>4, <1>5, <1>6, TypeProcess
     DEF UpdateCounter, TypeOK

LEMMA TypeCommitMessages ==
  ASSUME TypeOK, NEW w \in Workers, CommitMessages(w)
  PROVE  TypeOK'
<1>1. /\ cur[w].part \in Partitions
      /\ cur[w].off \in 1 .. Len(log[cur[w].part])
      /\ cur[w].off \in Nat
  BY MsgType DEF CommitMessages, TypeOK
<1>2. /\ stash' = [stash EXCEPT ![w][cur[w].part] = Stashed(@, Held(w))]
      /\ stash[w][cur[w].part] \in Nat
      /\ stash[w][cur[w].part] <= Len(log[cur[w].part])
  BY <1>1 DEF CommitMessages, TypeOK
<1>3. /\ Stashed(stash[w][cur[w].part], Held(w)) \in Nat
      /\ Stashed(stash[w][cur[w].part], Held(w)) <= Len(log[cur[w].part])
  BY <1>1, <1>2 DEF Stashed, Held
<1>4. stash' \in [Workers -> [Partitions -> Nat]]
  BY <1>1, <1>2, <1>3 DEF TypeOK
<1>5. \A v \in Workers, p \in Partitions : stash'[v][p] <= Len(log[p])
  BY <1>1, <1>2, <1>3 DEF TypeOK
<1>6. cur' \in [Workers -> [part : Partitions, off : Nat]]
  BY IdleType DEF CommitMessages, TypeOK
<1>7. \A v \in Workers :
        IF pc'[v] \in {"down", "fetch"}
        THEN cur'[v].off = 0
        ELSE cur'[v].off \in 1 .. Len(log[cur'[v].part])
  BY IdleType DEF CommitMessages, TypeOK
<1> QED
  BY <1>4, <1>5, <1>6, <1>7
     DEF CommitMessages, TypeOK, redisVars, historyVars, Stages

LEMMA FlushedType ==
  ASSUME TypeOK, NEW w \in Workers
  PROVE  /\ Flushed(w) \in [Partitions -> Nat]
         /\ \A p \in Partitions : Flushed(w)[p] <= Len(log[p])
BY DEF TypeOK, Flushed

LEMMA TypeFlushCommits ==
  ASSUME TypeOK, NEW w \in Workers, FlushCommits(w)
  PROVE  TypeOK'
<1>1. stash' \in [Workers -> [Partitions -> Nat]]
  BY DEF FlushCommits, TypeOK, NoOffsets
<1>2. \A v \in Workers, p \in Partitions : stash'[v][p] <= Len(log[p])
  BY DEF FlushCommits, TypeOK, NoOffsets
<1> QED
  BY <1>1, <1>2, FlushedType
     DEF FlushCommits, TypeOK, redisVars, historyVars

(* A process that leaves, however it does, leaves the types as they are. *)
LEMMA TypeGone ==
  ASSUME TypeOK, NEW w \in Workers, Gone(w),
         committed' \in {committed, Flushed(w)},
         abandoned' \subseteq EventIds,
         faults' \in [FaultKind -> Nat]
  PROVE  TypeOK'
<1>1. stash' \in [Workers -> [Partitions -> Nat]]
  BY DEF Gone, TypeOK, NoOffsets
<1>2. \A v \in Workers, p \in Partitions : stash'[v][p] <= Len(log[p])
  BY DEF Gone, TypeOK, NoOffsets
<1>3. cur' \in [Workers -> [part : Partitions, off : Nat]]
  BY IdleType DEF Gone, TypeOK
<1>4. \A v \in Workers :
        IF pc'[v] \in {"down", "fetch"}
        THEN cur'[v].off = 0
        ELSE cur'[v].off \in 1 .. Len(log[cur'[v].part])
  BY IdleType DEF Gone, TypeOK
<1>5. /\ committed' \in [Partitions -> Nat]
      /\ \A p \in Partitions : committed'[p] <= Len(log[p])
  BY FlushedType DEF TypeOK
<1>6. owner' \in [Partitions -> Workers \union {NoWorker}]
  BY DEF Gone, TypeOK
<1>7. pc' \in [Workers -> Stages] /\ cancelled' \in [Workers -> BOOLEAN]
  BY DEF Gone, TypeOK, Stages
<1> QED
  BY <1>1, <1>2, <1>3, <1>4, <1>5, <1>6, <1>7 DEF Gone, TypeOK, redisVars

LEMMA TypeCommitRefused ==
  ASSUME TypeOK, NEW w \in Workers, CommitRefused(w)
  PROVE  TypeOK'
<1>1. CASE pc[w] = "commit" /\ Leave(w)
  BY <1>1, TypeGone DEF CommitRefused, Leave, TypeOK
<1>2. CASE /\ pc' = [pc EXCEPT ![w] = "fetch"]
           /\ cur' = [cur EXCEPT ![w] = Idle]
           /\ UNCHANGED <<kafkaVars, cancelled, rows, redisVars, historyVars>>
  <2>1. cur' \in [Workers -> [part : Partitions, off : Nat]]
    BY <1>2, IdleType DEF TypeOK
  <2>2. \A v \in Workers :
          IF pc'[v] \in {"down", "fetch"}
          THEN cur'[v].off = 0
          ELSE cur'[v].off \in 1 .. Len(log[cur'[v].part])
    BY <1>2, IdleType DEF TypeOK
  <2>3. pc' \in [Workers -> Stages]
    BY <1>2 DEF TypeOK, Stages
  <2> QED
    BY <1>2, <2>1, <2>2, <2>3
       DEF CommitRefused, TypeOK, kafkaVars, redisVars, historyVars
<1> QED
  BY <1>1, <1>2 DEF CommitRefused

LEMMA TypeFetchFails ==
  ASSUME TypeOK, NEW w \in Workers, FetchFails(w)
  PROVE  TypeOK'
<1>1. faults' \in [FaultKind -> Nat]
  BY CallFailsType DEF FetchFails, FaultKind
<1> QED
  BY <1>1, TypeGone DEF FetchFails, Leave, TypeOK

LEMMA TypeShutdown ==
  ASSUME TypeOK, NEW w \in Workers, Shutdown(w)
  PROVE  TypeOK'
<1>1. faults' \in [FaultKind -> Nat]
  BY FaultType DEF Shutdown, FaultKind
<1> QED
  BY <1>1 DEF Shutdown, TypeOK, kafkaVars, redisVars, historyVars

LEMMA TypeCrash ==
  ASSUME TypeOK, NEW w \in Workers, Crash(w)
  PROVE  TypeOK'
<1>1. faults' \in [FaultKind -> Nat]
  BY FaultType DEF Crash, FaultKind
<1>2. abandoned' \subseteq EventIds
  BY MsgType DEF Crash, TypeOK
<1> QED
  BY <1>1, <1>2, TypeGone DEF Crash

LEMMA TypeStart ==
  ASSUME TypeOK, NEW w \in Workers, Start(w)
  PROVE  TypeOK'
<1>1. pc' \in [Workers -> Stages]
  BY DEF Start, TypeOK, Stages
<1>2. \A v \in Workers :
        pc'[v] \in {"down", "fetch"} <=> pc[v] \in {"down", "fetch"}
  BY DEF Start, TypeOK
<1> QED
  BY <1>1, <1>2 DEF Start, TypeOK, kafkaVars, redisVars, historyVars

LEMMA TypeReassign ==
  ASSUME TypeOK, Reassign, faults' \in [FaultKind -> Nat]
  PROVE  TypeOK'
<1>1. /\ committed' \in [Partitions -> Nat]
      /\ \A p \in Partitions : committed'[p] <= Len(log[p])
  <2>1. committed' \in [Partitions -> 0 .. MaxLog]
    BY DEF Reassign
  <2>2. ASSUME NEW p \in Partitions
        PROVE  committed'[p] <= Len(log[p])
    <3>1. \/ committed'[p] = committed[p]
          \/ \E w \in Workers : committed'[p] = stash[w][p]
      BY DEF Reassign
    <3> QED
      BY <3>1 DEF TypeOK
  <2>3. 0 .. MaxLog \subseteq Nat
    BY BoundsAssumption
  <2> QED
    BY <2>1, <2>2, <2>3
<1>2. /\ pos' \in [Partitions -> Nat]
      /\ \A p \in Partitions : pos'[p] <= Len(log[p])
  BY <1>1 DEF Reassign, ResumeFrom
<1>3. /\ stash' \in [Workers -> [Partitions -> Nat]]
      /\ \A v \in Workers, p \in Partitions : stash'[v][p] <= Len(log[p])
  BY DEF Reassign, TypeOK, NoOffsets
<1>4. owner' \in [Partitions -> Workers \union {NoWorker}]
  BY DEF Reassign, Running
<1> QED
  BY <1>1, <1>2, <1>3, <1>4 DEF Reassign, TypeOK, redisVars, historyVars

LEMMA TypeEvictKey ==
  ASSUME TypeOK, NEW id \in EventIds, EvictKey(id)
  PROVE  TypeOK'
<1>1. faults' \in [FaultKind -> Nat]
  BY FaultType DEF EvictKey, FaultKind
<1> QED
  BY <1>1 DEF EvictKey, TypeOK, kafkaVars

LEMMA TypeNext == TypeOK /\ [Next]_vars => TypeOK'
<1> SUFFICES ASSUME TypeOK, [Next]_vars PROVE TypeOK'
  OBVIOUS
<1>1. ASSUME NEW id \in EventIds, NEW ts \in Stamps, Publish(id, ts)
      PROVE  TypeOK'
  BY <1>1, TypePublish
<1>2. ASSUME NEW w \in Workers, Consume(w)
      PROVE  TypeOK'
  BY <1>2, TypeFetchMessage, TypeIsDuplicate, TypeInsertEvent,
     TypeUpdateCounter, TypeCommitMessages, TypeCommitRefused
     DEF Consume, Process
<1>3. ASSUME NEW w \in Workers,
             FlushCommits(w) \/ FetchFails(w) \/ Shutdown(w) \/ Crash(w)
               \/ Start(w)
      PROVE  TypeOK'
  BY <1>3, TypeFlushCommits, TypeFetchFails, TypeShutdown, TypeCrash, TypeStart
<1>4. CASE TakeOver
  BY <1>4, TypeReassign DEF TakeOver, TypeOK
<1>5. CASE Rebalance
  <2>1. faults' \in [FaultKind -> Nat]
    BY <1>5, FaultType DEF Rebalance, FaultKind
  <2> QED
    BY <1>5, <2>1, TypeReassign DEF Rebalance
<1>6. ASSUME NEW id \in EventIds, EvictKey(id)
      PROVE  TypeOK'
  BY <1>6, TypeEvictKey
<1>7. CASE UNCHANGED vars
  BY <1>7 DEF vars, TypeOK
<1> QED
  BY <1>1, <1>2, <1>3, <1>4, <1>5, <1>6, <1>7 DEF Next

(* The type invariant holds in every state: no offset in any part of the    *)
(* system passes the end of the topic.                                      *)
THEOREM TypeCorrect == Spec => []TypeOK
BY TypeInit, TypeNext, PTL DEF Spec

-----------------------------------------------------------------------------
(* No message is passed over.  The committed offset is fed from the stash,  *)
(* the stash from what a worker has in hand, and what it has in hand from   *)
(* the position, so the invariant has a part for each of them.              *)

(* Every message up to an offset waiting to be committed is answered. *)
StashHandled ==
  \A w \in Workers, p \in Partitions : \A i \in 1 .. stash[w][p] : Handled(p, i)

(* What a partition's owner has fetched is answered or in its hands. *)
FetchedHandled ==
  \A p \in Partitions, w \in Workers : owner[p] = w =>
    \A i \in 1 .. pos[p] :
      Handled(p, i) \/ (cur[w].part = p /\ cur[w].off = i)

(* All that precedes a message in a worker's hands is answered, and the     *)
(* message itself once the worker is about to commit it.                    *)
HeldHandled ==
  \A w \in Workers :
    /\ \A i \in 1 .. cur[w].off : i < cur[w].off => Handled(cur[w].part, i)
    /\ pc[w] \in {"commit", "commitErr"} => Handled(cur[w].part, cur[w].off)

OffsetInv ==
  NoOffsetSkipped /\ StashHandled /\ FetchedHandled /\ HeldHandled

LEMMA OffsetInit == Init => OffsetInv
BY IdleType, WorkersAssumption
   DEF Init, OffsetInv, NoOffsetSkipped, StashHandled, FetchedHandled,
       HeldHandled

LEMMA HandledStable ==
  ASSUME results \subseteq results', NEW p, NEW i, Handled(p, i)
  PROVE  Handled(p, i)'
BY DEF Handled

(* A step that leaves Kafka and the messages in hand alone keeps OffsetInv  *)
(* if it records an answer before it goes to a commit.                      *)
LEMMA OffsetFrame ==
  ASSUME TypeOK, OffsetInv, UNCHANGED <<committed, owner, pos, stash, cur>>,
         results \subseteq results',
         \A w \in Workers : pc'[w] \in {"commit", "commitErr"} =>
           \/ pc[w] \in {"commit", "commitErr"}
           \/ Handled(cur[w].part, cur[w].off)'
  PROVE  OffsetInv'
<1>1. \A p \in Partitions, i \in Nat : Handled(p, i) => Handled(p, i)'
  BY HandledStable
<1>2. \A w \in Workers : cur[w].part \in Partitions /\ cur[w].off \in Nat
  BY DEF TypeOK
<1>3. NoOffsetSkipped'
  BY <1>1 DEF OffsetInv, NoOffsetSkipped, TypeOK
<1>4. StashHandled'
  BY <1>1 DEF OffsetInv, StashHandled, TypeOK
<1>5. FetchedHandled'
  BY <1>1 DEF OffsetInv, FetchedHandled, TypeOK
<1>6. HeldHandled'
  BY <1>1, <1>2 DEF OffsetInv, HeldHandled, TypeOK
<1> QED
  BY <1>3, <1>4, <1>5, <1>6 DEF OffsetInv

LEMMA AnswerHandled ==
  ASSUME NEW w, NEW o \in Outcomes, NEW stage, Answer(w, o, stage)
  PROVE  /\ results \subseteq results'
         /\ <<cur[w].part, cur[w].off, o>> \in results'
BY DEF Answer

LEMMA OffsetPublish ==
  ASSUME TypeOK, OffsetInv, NEW id \in EventIds, NEW ts \in Stamps,
         Publish(id, ts)
  PROVE  OffsetInv'
BY OffsetFrame DEF Publish, historyVars

LEMMA OffsetFetchMessage ==
  ASSUME TypeOK, OffsetInv, NEW w \in Workers, FetchMessage(w)
  PROVE  OffsetInv'
<1>1. PICK p \in Partitions :
        /\ owner[p] = w
        /\ pos' = [pos EXCEPT ![p] = @ + 1]
        /\ cur' = [cur EXCEPT ![w] = [part |-> p, off |-> pos[p] + 1]]
        /\ \/ pc' = [pc EXCEPT ![w] = "dedup"] /\ results' = results
           \/ /\ pc' = [pc EXCEPT ![w] = "commitErr"]
              /\ \E e \in Outcomes :
                   results' = results \union {<<p, pos[p] + 1, e>>}
  BY DEF FetchMessage, Entry, Outcomes
<1>2. /\ results \subseteq results'
      /\ pc[w] = "fetch" /\ cur[w].off = 0 /\ pos[p] \in Nat
      /\ UNCHANGED <<committed, owner, stash>>
  BY <1>1 DEF FetchMessage, TypeOK
<1>3. \A q \in Partitions, i \in Nat : Handled(q, i) => Handled(q, i)'
  BY <1>2, HandledStable
<1>4. \A i \in 1 .. pos[p] : Handled(p, i)
  BY <1>1, <1>2 DEF OffsetInv, FetchedHandled
<1>5. NoOffsetSkipped'
  BY <1>2, <1>3 DEF OffsetInv, NoOffsetSkipped, TypeOK
<1>6. StashHandled'
  BY <1>2, <1>3 DEF OffsetInv, StashHandled, TypeOK
<1>7. FetchedHandled'
  <2> SUFFICES ASSUME NEW q \in Partitions, NEW v \in Workers, owner[q] = v,
                      NEW i \in 1 .. pos'[q]
               PROVE  Handled(q, i)' \/ (cur'[v].part = q /\ cur'[v].off = i)
    BY <1>2 DEF FetchedHandled
  <2>1. i \in Nat /\ cur'[w] = [part |-> p, off |-> pos[p] + 1]
    BY <1>1 DEF TypeOK
  <2>2. CASE q = p
    <3>1. v = w /\ pos'[p] = pos[p] + 1
      BY <1>1, <2>2 DEF TypeOK
    <3>2. i \in 1 .. pos[p] \/ i = pos[p] + 1
      BY <1>2, <2>2, <3>1
    <3> QED
      BY <1>3, <1>4, <2>1, <2>2, <3>1, <3>2
  <2>3. CASE q # p /\ v = w
    <3>1. i \in 1 .. pos[q]
      BY <1>1, <2>3 DEF TypeOK
    <3>2. Handled(q, i)
      BY <1>2, <2>3, <3>1 DEF OffsetInv, FetchedHandled
    <3> QED
      BY <1>3, <2>1, <3>2
  <2>4. CASE q # p /\ v # w
    <3>1. i \in 1 .. pos[q] /\ cur'[v] = cur[v]
      BY <1>1, <2>4 DEF TypeOK
    <3> QED
      BY <1>3, <2>1, <3>1 DEF OffsetInv, FetchedHandled
  <2> QED
    BY <2>2, <2>3, <2>4
<1>8. HeldHandled'
  <2> SUFFICES ASSUME NEW v \in Workers
               PROVE  /\ \A i \in 1 .. cur'[v].off : i < cur'[v].off =>
                            Handled(cur[v].part, i)'
                      /\ pc'[v] \in {"commit", "commitErr"} =>
                            Handled(cur[v].part, cur[v].off)'
    BY DEF HeldHandled
  <2>1. CASE v = w
    <3>1. cur'[v].part = p /\ cur'[v].off = pos[p] + 1
      BY <1>1, <2>1 DEF TypeOK
    <3>2. ASSUME NEW i \in 1 .. cur'[v].off, i < cur'[v].off
          PROVE  Handled(cur[v].part, i)'
      <4>1. i \in 1 .. pos[p]
        BY <1>2, <3>1, <3>2
      <4>2. Handled(p, i)'
        BY <1>3, <1>4, <4>1
      <4> QED
        BY <3>1, <4>2 DEF Handled
    <3>3. ASSUME pc'[v] \in {"commit", "commitErr"}
          PROVE  Handled(cur[v].part, cur[v].off)'
      BY <1>1, <1>2, <2>1, <3>1, <3>3 DEF Handled, TypeOK
    <3> QED
      BY <3>2, <3>3
  <2>2. CASE v # w
    <3>1. cur'[v] = cur[v] /\ pc'[v] = pc[v]
      BY <1>1, <2>2 DEF TypeOK
    <3>2. cur[v].part \in Partitions /\ cur[v].off \in Nat
      BY DEF TypeOK
    <3> QED
      BY <1>2, <3>1, <3>2 DEF OffsetInv, HeldHandled, Handled
  <2> QED
    BY <2>1, <2>2
<1> QED
  BY <1>5, <1>6, <1>7, <1>8 DEF OffsetInv

(* The steps of Process record an answer exactly when they go to a commit.  *)
LEMMA ProcessAnswers ==
  ASSUME TypeOK, NEW w \in Workers, Process(w)
  PROVE  /\ pc[w] \notin {"down", "fetch"}
         /\ UNCHANGED <<log, committed, owner, pos, stash, cur>>
         /\ results \subseteq results'
         /\ \E stage \in Stages :
              /\ pc' = [pc EXCEPT ![w] = stage]
              /\ stage \in {"commit", "commitErr"} =>
                   \E o \in Outcomes :
                     <<cur[w].part, cur[w].off, o>> \in results'
<1>1. CASE IsDuplicate(w)
  BY <1>1 DEF IsDuplicate, DedupAnswers, DedupFails, DedupResent, Goto,
              Answer, kafkaVars, Outcomes, Stages
<1>2. CASE InsertEvent(w)
  BY <1>2 DEF InsertEvent, InsertAnswers, InsertFails, Goto, Answer,
              kafkaVars, Outcomes, Stages
<1>3. ASSUME NEW c \in Counters, UpdateCounter(w, c)
      PROVE  /\ pc[w] \notin {"down", "fetch"}
             /\ UNCHANGED <<log, committed, owner, pos, stash, cur>>
             /\ results \subseteq results'
             /\ \E stage \in Stages :
                  /\ pc' = [pc EXCEPT ![w] = stage]
                  /\ stage \in {"commit", "commitErr"} =>
                       \E o \in Outcomes :
                         <<cur[w].part, cur[w].off, o>> \in results'
  BY <1>3 DEF UpdateCounter, CounterAnswers, CounterFails, Goto, Answer,
              NextStage, Counters, kafkaVars, Outcomes, Stages
<1> QED
  BY <1>1, <1>2, <1>3 DEF Process

LEMMA OffsetProcess ==
  ASSUME TypeOK, OffsetInv, NEW w \in Workers, Process(w)
  PROVE  OffsetInv'
<1>1. \A v \in Workers : pc'[v] \in {"commit", "commitErr"} =>
        \/ pc[v] \in {"commit", "commitErr"}
        \/ Handled(cur[v].part, cur[v].off)'
  BY ProcessAnswers DEF Handled, TypeOK
<1> QED
  BY <1>1, OffsetFrame, ProcessAnswers

(* A worker that lets go of its message has nothing in its hands. *)
LEMMA IdleKeepsHeld ==
  ASSUME TypeOK, HeldHandled, NEW w \in Workers,
         \A p, i : Handled(p, i) => Handled(p, i)',
         cur' = [cur EXCEPT ![w] = Idle],
         NEW stage \in {"down", "fetch"}, pc' = [pc EXCEPT ![w] = stage]
  PROVE  HeldHandled'
<1>1. ASSUME NEW v \in Workers
      PROVE  (/\ \A i \in 1 .. cur[v].off : i < cur[v].off => Handled(cur[v].part, i)
              /\ pc[v] \in {"commit", "commitErr"} => Handled(cur[v].part, cur[v].off))'
  <2>1. CASE v = w
    <3>1. cur'[v] = Idle /\ pc'[v] = stage
      BY <2>1 DEF TypeOK
    <3>2. cur'[v].off = 0
      BY <3>1, IdleType
    <3> QED
      BY ONLY <3>1, <3>2, stage \in {"down", "fetch"}
  <2>2. CASE v # w
    <3>1. cur'[v] = cur[v] /\ pc'[v] = pc[v]
      BY <2>2 DEF TypeOK
    <3>2. /\ \A i \in 1 .. cur[v].off : i < cur[v].off => Handled(cur[v].part, i)
          /\ pc[v] \in {"commit", "commitErr"} => Handled(cur[v].part, cur[v].off)
      BY DEF HeldHandled
    <3> QED
      BY <3>1, <3>2
  <2> QED
    BY <2>1, <2>2
<1> QED
  BY <1>1 DEF HeldHandled

(* A worker that drops its message once the message is answered. *)
LEMMA OffsetDrop ==
  ASSUME TypeOK, OffsetInv, NEW w \in Workers,
         cur[w].off = 0 \/ Handled(cur[w].part, cur[w].off),
         cur' = [cur EXCEPT ![w] = Idle],
         UNCHANGED <<owner, pos, results>>
  PROVE  FetchedHandled'
<1> SUFFICES ASSUME NEW p \in Partitions, NEW v \in Workers, owner[p] = v,
                    NEW i \in 1 .. pos[p]
             PROVE  Handled(p, i) \/ (cur'[v].part = p /\ cur'[v].off = i)
  BY DEF FetchedHandled, Handled
<1>1. Handled(p, i) \/ (cur[v].part = p /\ cur[v].off = i)
  BY DEF OffsetInv, FetchedHandled
<1>2. i \in Nat /\ i # 0
  BY DEF TypeOK
<1> QED
  BY <1>1, <1>2 DEF TypeOK

LEMMA OffsetCommitMessages ==
  ASSUME TypeOK, OffsetInv, NEW w \in Workers, CommitMessages(w)
  PROVE  OffsetInv'
<1>1. /\ cur[w].part \in Partitions
      /\ cur[w].off \in Nat
      /\ stash' = [stash EXCEPT ![w][cur[w].part] = Stashed(@, Held(w))]
      /\ pc' = [pc EXCEPT ![w] = "fetch"]
      /\ cur' = [cur EXCEPT ![w] = Idle]
      /\ UNCHANGED <<committed, owner, pos, results>>
  BY DEF CommitMessages, TypeOK, historyVars
<1>2. \A i \in 1 .. cur[w].off : Handled(cur[w].part, i)
  BY <1>1 DEF CommitMessages, OffsetInv, HeldHandled
<1>3. \A p, i : Handled(p, i) => Handled(p, i)'
  BY <1>1 DEF Handled
<1>4. NoOffsetSkipped'
  BY <1>1, <1>3 DEF OffsetInv, NoOffsetSkipped
<1>5. StashHandled'
  <2> SUFFICES ASSUME NEW v \in Workers, NEW p \in Partitions,
                      NEW i \in 1 .. stash'[v][p]
               PROVE  Handled(p, i)
    BY <1>3 DEF StashHandled
  <2>1. CASE v = w /\ p = cur[w].part
    <3>1. stash'[v][p] = Stashed(stash[v][p], cur[w].off)
      BY <1>1, <2>1 DEF TypeOK, Held
    <3>2. i \in 1 .. stash[v][p] \/ i \in 1 .. cur[w].off
      BY <3>1 DEF Stashed
    <3> QED
      BY <1>2, <2>1, <3>2 DEF OffsetInv, StashHandled
  <2>2. CASE ~(v = w /\ p = cur[w].part)
    <3>1. stash'[v][p] = stash[v][p]
      BY <1>1, <2>2 DEF TypeOK
    <3> QED
      BY <3>1 DEF OffsetInv, StashHandled
  <2> QED
    BY <2>1, <2>2
<1>6. FetchedHandled'
  BY <1>1, <1>2, OffsetDrop DEF OffsetInv, HeldHandled, CommitMessages
<1>7. HeldHandled'
  BY <1>1, <1>3, IdleKeepsHeld DEF OffsetInv
<1> QED
  BY <1>4, <1>5, <1>6, <1>7 DEF OffsetInv

(* What a flush commits was waiting in a stash or committed before. *)
LEMMA FlushedHandled ==
  ASSUME TypeOK, OffsetInv, NEW w \in Workers, NEW p \in Partitions,
         NEW i \in 1 .. Flushed(w)[p]
  PROVE  Handled(p, i)
BY DEF Flushed, OffsetInv, NoOffsetSkipped, StashHandled

LEMMA OffsetFlushCommits ==
  ASSUME TypeOK, OffsetInv, NEW w \in Workers, FlushCommits(w)
  PROVE  OffsetInv'
<1>1. /\ committed' = Flushed(w)
      /\ stash' = [stash EXCEPT ![w] = NoOffsets]
      /\ UNCHANGED <<owner, pos, pc, cur, results>>
  BY DEF FlushCommits, historyVars
<1>2. \A p, i : Handled(p, i) => Handled(p, i)'
  BY <1>1 DEF Handled
<1>3. NoOffsetSkipped'
  BY <1>1, <1>2, FlushedHandled DEF NoOffsetSkipped
<1>4. StashHandled'
  BY <1>1, <1>2 DEF OffsetInv, StashHandled, TypeOK, NoOffsets
<1>5. FetchedHandled' /\ HeldHandled'
  BY <1>1, <1>2 DEF OffsetInv, FetchedHandled, HeldHandled
<1> QED
  BY <1>3, <1>4, <1>5 DEF OffsetInv

LEMMA OffsetGone ==
  ASSUME TypeOK, OffsetInv, NEW w \in Workers, Gone(w),
         committed' \in {committed, Flushed(w)}
  PROVE  OffsetInv'
<1>1. /\ owner' = [p \in Partitions |->
                     IF owner[p] = w THEN NoWorker ELSE owner[p]]
      /\ stash' = [stash EXCEPT ![w] = NoOffsets]
      /\ pc' = [pc EXCEPT ![w] = "down"]
      /\ cur' = [cur EXCEPT ![w] = Idle]
      /\ UNCHANGED <<pos, results>>
  BY DEF Gone
<1>2. \A p, i : Handled(p, i) => Handled(p, i)'
  BY <1>1 DEF Handled
<1>3. NoOffsetSkipped'
  BY <1>2, FlushedHandled DEF OffsetInv, NoOffsetSkipped
<1>4. StashHandled'
  BY <1>1, <1>2 DEF OffsetInv, StashHandled, TypeOK, NoOffsets
<1>5. FetchedHandled'
  <2> SUFFICES ASSUME NEW p \in Partitions, NEW v \in Workers, owner'[p] = v,
                      NEW i \in 1 .. pos[p]
               PROVE  Handled(p, i) \/ (cur'[v].part = p /\ cur'[v].off = i)
    BY <1>1, <1>2 DEF FetchedHandled
  <2>1. owner[p] = v /\ v # w
    BY <1>1, WorkersAssumption
  <2>2. cur'[v] = cur[v]
    BY <1>1, <2>1 DEF TypeOK
  <2> QED
    BY <2>1, <2>2 DEF OffsetInv, FetchedHandled
<1>6. HeldHandled'
  BY <1>1, <1>2, IdleKeepsHeld DEF OffsetInv
<1> QED
  BY <1>3, <1>4, <1>5, <1>6 DEF OffsetInv

LEMMA OffsetCommitRefused ==
  ASSUME TypeOK, OffsetInv, NEW w \in Workers, CommitRefused(w)
  PROVE  OffsetInv'
<1>1. CASE pc[w] = "commit" /\ Leave(w)
  BY <1>1, OffsetGone DEF Leave
<1>2. CASE /\ pc[w] = "commitErr"
           /\ pc' = [pc EXCEPT ![w] = "fetch"]
           /\ cur' = [cur EXCEPT ![w] = Idle]
           /\ UNCHANGED <<kafkaVars, cancelled, rows, redisVars, historyVars>>
  <2>1. UNCHANGED <<committed, owner, pos, stash, results>>
    BY <1>2 DEF kafkaVars, historyVars
  <2>2. \A p, i : Handled(p, i) => Handled(p, i)'
    BY <2>1 DEF Handled
  <2>3. NoOffsetSkipped' /\ StashHandled'
    BY <2>1, <2>2 DEF OffsetInv, NoOffsetSkipped, StashHandled
  <2>4. FetchedHandled'
    BY <1>2, <2>1, OffsetDrop DEF OffsetInv, HeldHandled
  <2>5. HeldHandled'
    BY <1>2, <2>1, <2>2, IdleKeepsHeld DEF OffsetInv
  <2> QED
    BY <2>3, <2>4, <2>5 DEF OffsetInv
<1> QED
  BY <1>1, <1>2 DEF CommitRefused

LEMMA OffsetReassign ==
  ASSUME TypeOK, OffsetInv, Reassign
  PROVE  OffsetInv'
<1>1. /\ \A p \in Partitions :
           \/ committed'[p] = committed[p]
           \/ \E w \in Workers : committed'[p] = stash[w][p]
      /\ pos' = [p \in Partitions |-> committed'[p]]
      /\ stash' = [w \in Workers |-> NoOffsets]
      /\ UNCHANGED <<pc, cur, results>>
  BY DEF Reassign, ResumeFrom, historyVars
<1>2. \A p, i : Handled(p, i) => Handled(p, i)'
  BY <1>1 DEF Handled
<1>3. \A p \in Partitions : \A i \in 1 .. committed'[p] : Handled(p, i)
  BY <1>1 DEF OffsetInv, NoOffsetSkipped, StashHandled
<1>4. NoOffsetSkipped' /\ FetchedHandled'
  BY <1>1, <1>2, <1>3 DEF NoOffsetSkipped, FetchedHandled
<1>5. StashHandled'
  BY <1>1 DEF StashHandled, NoOffsets
<1>6. HeldHandled'
  BY <1>1, <1>2 DEF OffsetInv, HeldHandled
<1> QED
  BY <1>4, <1>5, <1>6 DEF OffsetInv

LEMMA OffsetNext == TypeOK /\ OffsetInv /\ [Next]_vars => OffsetInv'
<1> SUFFICES ASSUME TypeOK, OffsetInv, [Next]_vars PROVE OffsetInv'
  OBVIOUS
<1>1. ASSUME NEW id \in EventIds, NEW ts \in Stamps, Publish(id, ts)
      PROVE  OffsetInv'
  BY <1>1, OffsetPublish
<1>2. ASSUME NEW w \in Workers, Consume(w)
      PROVE  OffsetInv'
  BY <1>2, OffsetFetchMessage, OffsetProcess, OffsetCommitMessages,
     OffsetCommitRefused DEF Consume
<1>3. ASSUME NEW w \in Workers, FlushCommits(w)
      PROVE  OffsetInv'
  BY <1>3, OffsetFlushCommits
<1>4. ASSUME NEW w \in Workers, FetchFails(w) \/ Crash(w)
      PROVE  OffsetInv'
  BY <1>4, OffsetGone DEF FetchFails, Leave, Crash
<1>5. ASSUME NEW w \in Workers, Shutdown(w) \/ Start(w)
      PROVE  OffsetInv'
  <2>1. \A v \in Workers :
          pc'[v] \in {"commit", "commitErr"} => pc[v] \in {"commit", "commitErr"}
    BY <1>5 DEF Shutdown, Start, TypeOK
  <2> QED
    BY <1>5, <2>1, OffsetFrame DEF Shutdown, Start, kafkaVars, historyVars
<1>6. CASE TakeOver \/ Rebalance
  BY <1>6, OffsetReassign DEF TakeOver, Rebalance
<1>7. ASSUME NEW id \in EventIds, EvictKey(id)
      PROVE  OffsetInv'
  BY <1>7, OffsetFrame DEF EvictKey, kafkaVars
<1>8. CASE UNCHANGED vars
  BY <1>8, OffsetFrame DEF vars
<1> QED
  BY <1>1, <1>2, <1>3, <1>4, <1>5, <1>6, <1>7, <1>8 DEF Next

(* The group never commits past a message no handler has answered, whatever *)
(* crashes, shutdowns, failed flushes and rebalances there were.            *)
THEOREM NothingSkipped == Spec => []NoOffsetSkipped
<1>1. Init => TypeOK /\ OffsetInv
  BY TypeInit, OffsetInit
<1>2. TypeOK /\ OffsetInv /\ [Next]_vars => (TypeOK /\ OffsetInv)'
  BY TypeNext, OffsetNext
<1>3. OffsetInv => NoOffsetSkipped
  BY DEF OffsetInv
<1> QED
  BY <1>1, <1>2, <1>3, PTL DEF Spec

-----------------------------------------------------------------------------
(* Every committed event is accounted for.  A claim in Redis and an answer  *)
(* of the handler both stand for an event that is stored, on its way into   *)
(* the table, or excused; what stands for it may change from one to the     *)
(* other but is never lost.                                                 *)

Settled(id) == HasRow(id) \/ Failed(id) \/ id \in abandoned

Accounted(id) == InFlight(id) \/ Settled(id)

ClaimsAccounted == \A id \in dedup : Accounted(id)

(* The handler has answered messages of the topic only. *)
AnswersInLog ==
  \A p \in Partitions : \A i \in Nat : Handled(p, i) => i \in 1 .. Len(log[p])

AnswersAccounted ==
  \A p \in Partitions : \A i \in 1 .. Len(log[p]) :
    Handled(p, i) => Accounted(log[p][i].id)

(* A worker that updates counters has stored its message. *)
CountingStored == \A w \in Workers : pc[w] \in Counters => Msg(w) \in rows

OkStored ==
  \A p \in Partitions : \A i \in 1 .. Len(log[p]) :
    <<p, i, "ok">> \in results => log[p][i] \in rows

AccountInv ==
  ClaimsAccounted /\ AnswersInLog /\ AnswersAccounted /\ CountingStored
    /\ OkStored

LEMMA AccountInit == Init => AccountInv
BY DEF Init, AccountInv, ClaimsAccounted, AnswersInLog, AnswersAccounted,
       CountingStored, OkStored, Handled, Counters

LEMMA LogType ==
  ASSUME TypeOK, NEW p \in Partitions
  PROVE  /\ Len(log[p]) \in Nat
         /\ DOMAIN log[p] = 1 .. Len(log[p])
         /\ \A i \in 1 .. Len(log[p]) :
              log[p][i] \in Message /\ log[p][i].id \in EventIds
<1>1. log[p] \in Seq(Message)
  BY DEF TypeOK
<1>2. \A i \in 1 .. Len(log[p]) : log[p][i] \in Message
  BY <1>1
<1> QED
  BY <1>1, <1>2 DEF Message

(* A step that only adds rows, answers and abandoned claims, and in which   *)
(* no attempt to store an event ends unsettled.                             *)
Forward ==
  /\ log' = log
  /\ rows \subseteq rows'
  /\ results \subseteq results'
  /\ abandoned \subseteq abandoned'
  /\ \A v \in Workers, id \in EventIds : pc[v] = "insert" /\ Msg(v).id = id =>
       \/ pc'[v] = "insert" /\ cur'[v] = cur[v]
       \/ Settled(id)'

LEMMA SettledStable ==
  ASSUME Forward, NEW id, Settled(id)
  PROVE  Settled(id)'
BY DEF Forward, Settled, HasRow, Failed

LEMMA AccountedStable ==
  ASSUME Forward, NEW id \in EventIds, Accounted(id)
  PROVE  Accounted(id)'
<1>1. CASE Settled(id)
  BY <1>1, SettledStable DEF Accounted
<1>2. CASE InFlight(id)
  <2>1. PICK v \in Workers : pc[v] = "insert" /\ Msg(v).id = id
    BY <1>2 DEF InFlight
  <2>2. CASE pc'[v] = "insert" /\ cur'[v] = cur[v]
    BY <2>1, <2>2 DEF Forward, Accounted, InFlight, Msg
  <2>3. CASE Settled(id)'
    BY <2>3 DEF Accounted
  <2> QED
    BY <2>1, <2>2, <2>3 DEF Forward
<1> QED
  BY <1>1, <1>2 DEF Accounted

LEMMA AccountStep ==
  ASSUME TypeOK, AccountInv, Forward,
         \A id \in dedup' : id \in EventIds /\ (id \in dedup \/ Accounted(id)'),
         \A p \in Partitions, i \in Nat, o \in Outcomes :
           <<p, i, o>> \in results' =>
             \/ <<p, i, o>> \in results
             \/ /\ i \in 1 .. Len(log[p])
                /\ \A id \in EventIds : id = log[p][i].id => Accounted(id)'
                /\ o = "ok" => log[p][i] \in rows',
         \A v \in Workers : pc'[v] \in Counters =>
           \/ pc[v] \in Counters /\ cur'[v] = cur[v]
           \/ Msg(v)' \in rows'
  PROVE  AccountInv'
<1>1. ClaimsAccounted'
  BY AccountedStable DEF AccountInv, ClaimsAccounted
<1>2. AnswersInLog'
  BY DEF AccountInv, AnswersInLog, Handled, Forward
<1>3. AnswersAccounted'
  <2> SUFFICES ASSUME NEW p \in Partitions, NEW i \in 1 .. Len(log[p]),
                      Handled(p, i)',
                      NEW id \in EventIds, id = log[p][i].id
               PROVE  Accounted(id)'
    BY LogType DEF AnswersAccounted, Forward, Accounted, InFlight, Settled,
                   HasRow, Failed
  <2>1. PICK o \in Outcomes : <<p, i, o>> \in results'
    BY DEF Handled
  <2>2. CASE <<p, i, o>> \in results
    BY <2>2, AccountedStable DEF AccountInv, AnswersAccounted, Handled
  <2> QED
    BY <2>1, <2>2, LogType
<1>4. CountingStored'
  BY DEF AccountInv, CountingStored, Forward, Msg
<1>5. OkStored'
  <2> SUFFICES ASSUME NEW p \in Partitions, NEW i \in 1 .. Len(log[p]),
                      <<p, i, "ok">> \in results'
               PROVE  log[p][i] \in rows'
    BY DEF OkStored, Forward
  <2>1. i \in Nat /\ "ok" \in Outcomes
    BY DEF Outcomes
  <2> QED
    BY <2>1 DEF AccountInv, OkStored, Forward
<1> QED
  BY <1>1, <1>2, <1>3, <1>4, <1>5 DEF AccountInv

LEMMA AccountPublish ==
  ASSUME TypeOK, AccountInv, NEW e \in EventIds, NEW ts \in Stamps,
         Publish(e, ts)
  PROVE  /\ AccountInv'
         /\ \A id \in EventIds : /\ InFlight(id)' = InFlight(id)
                                /\ Failed(id)' = Failed(id)
                                /\ HasRow(id)' = HasRow(id)
<1> DEFINE q == PartitionOf[e]  m == [id |-> e, ts |-> ts]
<1>1. q \in Partitions /\ m \in Message
  BY PartitionsAssumption DEF Message
<1>2. /\ log' = [log EXCEPT ![q] = Append(@, m)]
      /\ log \in [Partitions -> Seq(Message)]
      /\ UNCHANGED <<pc, cur, dedup, rows, results, abandoned>>
  BY DEF Publish, TypeOK, redisVars, historyVars
<1> HIDE DEF q, m
<1>3. \A p \in Partitions :
        /\ Len(log[p]) \in Nat /\ Len(log'[p]) \in Nat
        /\ Len(log[p]) <= Len(log'[p])
        /\ DOMAIN log'[p] = 1 .. Len(log'[p])
        /\ \A i \in 1 .. Len(log[p]) : log'[p][i] = log[p][i]
  BY <1>1, <1>2
<1>4. \A p \in Partitions : \A i \in 1 .. Len(log'[p]) :
        Handled(p, i) => i \in 1 .. Len(log[p])
  BY <1>3 DEF AccountInv, AnswersInLog
<1>5. \A w \in Workers : pc[w] \notin {"down", "fetch"} => Msg(w)' = Msg(w)
  BY <1>2, <1>3, MsgType DEF Msg
<1>6. \A id \in EventIds : InFlight(id)' = InFlight(id)
  BY <1>2, <1>5 DEF InFlight
<1>7. \A id \in EventIds : Failed(id)' = Failed(id)
  <2>1. \A p \in Partitions, i \in Nat : Handled(p, i)' = Handled(p, i)
    BY <1>2 DEF Handled
  <2>2. \A id \in EventIds : Failed(id) => Failed(id)'
    <3> SUFFICES ASSUME NEW id \in EventIds, Failed(id) PROVE Failed(id)'
      OBVIOUS
    <3>1. PICK p \in Partitions : \E i \in 1 .. Len(log[p]) :
            /\ log[p][i].id = id
            /\ <<p, i, "error">> \in results \/ <<p, i, "garbage">> \in results
      BY LogType DEF Failed
    <3>2. PICK i \in 1 .. Len(log[p]) :
            /\ log[p][i].id = id
            /\ <<p, i, "error">> \in results \/ <<p, i, "garbage">> \in results
      BY <3>1
    <3>3. i \in DOMAIN log'[p] /\ log'[p][i] = log[p][i]
      BY <1>3, <3>2
    <3> QED
      BY <1>2, <3>2, <3>3 DEF Failed
  <2>3. ASSUME NEW id \in EventIds, Failed(id)'
        PROVE  Failed(id)
    <3>1. PICK p \in Partitions : \E i \in DOMAIN log'[p] :
            /\ log'[p][i].id = id
            /\ <<p, i, "error">> \in results \/ <<p, i, "garbage">> \in results
      BY <1>2, <2>3 DEF Failed
    <3>2. PICK i \in 1 .. Len(log'[p]) :
            /\ log'[p][i].id = id
            /\ <<p, i, "error">> \in results \/ <<p, i, "garbage">> \in results
      BY <1>3, <3>1
    <3>3. i \in 1 .. Len(log[p]) /\ log'[p][i] = log[p][i]
      BY <1>3, <1>4, <3>2 DEF Handled, Outcomes
    <3> QED
      BY <3>2, <3>3, LogType DEF Failed
  <2> QED
    BY <2>2, <2>3 DEF Failed
<1>8. \A id \in EventIds : HasRow(id)' = HasRow(id)
  BY <1>2 DEF HasRow
<1>9. \A id \in EventIds : Accounted(id) => Accounted(id)'
  BY <1>2, <1>6, <1>7, <1>8 DEF Accounted, Settled
<1>10. ClaimsAccounted' /\ CountingStored'
  BY <1>2, <1>5, <1>9 DEF AccountInv, ClaimsAccounted, CountingStored, Counters,
     TypeOK
<1>11. AnswersInLog'
  <2> SUFFICES ASSUME NEW p \in Partitions, NEW i \in Nat, Handled(p, i)
               PROVE  i \in 1 .. Len(log'[p])
    BY <1>2 DEF AnswersInLog, Handled
  <2>1. i \in 1 .. Len(log[p])
    BY DEF AccountInv, AnswersInLog
  <2> QED
    BY <1>3, <2>1
<1>12. AnswersAccounted'
  <2> SUFFICES ASSUME NEW p \in Partitions, NEW i \in 1 .. Len(log'[p]),
                      Handled(p, i), NEW id, id = log'[p][i].id
               PROVE  Accounted(id)'
    BY <1>2 DEF AnswersAccounted, Handled, Accounted, InFlight, Settled,
                HasRow, Failed
  <2>1. i \in 1 .. Len(log[p]) /\ log'[p][i] = log[p][i]
    BY <1>3, <1>4
  <2>2. Accounted(id) /\ id \in EventIds
    BY <2>1, LogType DEF AccountInv, AnswersAccounted
  <2> QED
    BY <1>9, <2>2
<1>13. OkStored'
  BY <1>2, <1>3, <1>4 DEF AccountInv, OkStored, Handled, Outcomes
<1> QED
  BY <1>6, <1>7, <1>8, <1>10, <1>11, <1>12, <1>13 DEF AccountInv

(* An error on record settles the event. *)
LEMMA ErrorSettles ==
  ASSUME TypeOK, log' = log, NEW p \in Partitions, NEW i \in 1 .. Len(log[p]),
         <<p, i, "error">> \in results' \/ <<p, i, "garbage">> \in results',
         NEW id, id = log[p][i].id
  PROVE  Settled(id)'
BY LogType DEF Settled, Failed

LEMMA StoreSettles ==
  ASSUME NEW m \in rows', NEW id, id = m.id
  PROVE  Settled(id)'
BY DEF Settled, HasRow

(* The message in hand, under its place in the log. *)
LEMMA HeldMsg ==
  ASSUME TypeOK, NEW w \in Workers, pc[w] \notin {"down", "fetch"}
  PROVE  /\ cur[w].part \in Partitions
         /\ cur[w].off \in Nat
         /\ cur[w].off \in 1 .. Len(log[cur[w].part])
         /\ Msg(w) = log[cur[w].part][cur[w].off]
         /\ Msg(w).id \in EventIds
BY MsgType DEF Msg, TypeOK

LEMMA AccountFetchMessage ==
  ASSUME TypeOK, AccountInv, NEW w \in Workers, FetchMessage(w)
  PROVE  Forward /\ AccountInv'
<1>1. PICK p \in Partitions :
        /\ owner[p] = w
        /\ pos[p] < Len(log[p])
        /\ cur' = [cur EXCEPT ![w] = [part |-> p, off |-> pos[p] + 1]]
        /\ \/ pc' = [pc EXCEPT ![w] = "dedup"] /\ results' = results
           \/ /\ pc' = [pc EXCEPT ![w] = "commitErr"]
              /\ \E e \in {"garbage", "error"} :
                   results' = results \union {<<p, pos[p] + 1, e>>}
  BY DEF FetchMessage, Entry
<1>2. /\ pos[p] + 1 \in 1 .. Len(log[p])
      /\ pc[w] = "fetch"
      /\ UNCHANGED <<log, dedup, rows, abandoned>>
  BY <1>1, LogType DEF FetchMessage, TypeOK, redisVars
<1>3. \A v \in Workers : v # w => pc'[v] = pc[v] /\ cur'[v] = cur[v]
  BY <1>1 DEF TypeOK
<1>4. pc'[w] \in {"dedup", "commitErr"}
  BY <1>1 DEF TypeOK
<1>5. Forward
  BY <1>1, <1>2, <1>3 DEF Forward
<1>6. \A q \in Partitions, i \in Nat, o \in Outcomes :
        <<q, i, o>> \in results' =>
          \/ <<q, i, o>> \in results
          \/ /\ i \in 1 .. Len(log[q])
             /\ \A id \in EventIds : id = log[q][i].id => Accounted(id)'
             /\ o = "ok" => log[q][i] \in rows'
  <2> SUFFICES ASSUME NEW q \in Partitions, NEW i \in Nat, NEW o \in Outcomes,
                      <<q, i, o>> \in results', <<q, i, o>> \notin results
               PROVE  /\ i \in 1 .. Len(log[q])
                      /\ \A id \in EventIds : id = log[q][i].id => Accounted(id)'
                      /\ o # "ok"
    OBVIOUS
  <2>1. q = p /\ i = pos[p] + 1 /\ o \in {"garbage", "error"}
    BY <1>1
  <2>2. \A id \in EventIds : id = log[q][i].id => Settled(id)'
    BY <1>2, <2>1, ErrorSettles
  <2> QED
    BY <1>2, <2>1, <2>2 DEF Accounted
<1>7. \A v \in Workers : pc'[v] \in Counters =>
        pc[v] \in Counters /\ cur'[v] = cur[v]
  BY <1>3, <1>4 DEF Counters
<1> QED
  BY <1>2, <1>5, <1>6, <1>7, AccountStep DEF TypeOK

(* The steps of Process: what they record is accounted for if the one       *)
(* answer and the one claim they may add are.                               *)
LEMMA AccountProcess ==
  ASSUME TypeOK, AccountInv, NEW w \in Workers,
         pc[w] \notin {"down", "fetch"},
         UNCHANGED <<log, cur>>,
         NEW stage, pc' = [pc EXCEPT ![w] = stage],
         NEW m, m = Msg(w),
         dedup' \subseteq dedup \union {m.id},
         m.id \in dedup' => m.id \in dedup \/ Accounted(m.id)',
         rows \subseteq rows', abandoned \subseteq abandoned',
         NEW a \in Outcomes,
         \/ results' = results
         \/ /\ results' = results \union {<<cur[w].part, cur[w].off, a>>}
            /\ a = "ok" => m \in rows'
            /\ a = "duplicate" => Accounted(m.id)',
         pc[w] = "insert" => Settled(m.id)',
         stage \in Counters => m \in rows'
  PROVE  Forward /\ AccountInv'
<1>1. /\ cur[w].part \in Partitions /\ cur[w].off \in Nat
      /\ cur[w].off \in 1 .. Len(log[cur[w].part])
      /\ m = log[cur[w].part][cur[w].off]
      /\ m.id \in EventIds
  BY HeldMsg
<1>2. \A v \in Workers : /\ v # w => pc'[v] = pc[v]
                         /\ pc'[w] = stage
  BY DEF TypeOK
<1>3. Forward
  BY <1>2 DEF Forward
<1>4. \A q \in Partitions, i \in Nat, o \in Outcomes :
        <<q, i, o>> \in results' =>
          \/ <<q, i, o>> \in results
          \/ /\ i \in 1 .. Len(log[q])
             /\ \A id \in EventIds : id = log[q][i].id => Accounted(id)'
             /\ o = "ok" => log[q][i] \in rows'
  <2> SUFFICES ASSUME NEW q \in Partitions, NEW i \in Nat, NEW o \in Outcomes,
                      <<q, i, o>> \in results', <<q, i, o>> \notin results
               PROVE  /\ i \in 1 .. Len(log[q])
                      /\ \A id \in EventIds : id = log[q][i].id => Accounted(id)'
                      /\ o = "ok" => log[q][i] \in rows'
    OBVIOUS
  <2>1. /\ q = cur[w].part /\ i = cur[w].off /\ o = a
        /\ o = "ok" => m \in rows'
        /\ o = "duplicate" => Accounted(m.id)'
    OBVIOUS
  <2>2. CASE o \in {"ok", "duplicate"}
    <3>1. Accounted(m.id)'
      BY <2>1, <2>2, StoreSettles DEF Accounted
    <3> QED
      BY <1>1, <2>1, <3>1
  <2>3. CASE o \in {"error", "garbage"}
    <3>1. Settled(m.id)'
      BY <1>1, <2>1, <2>3, ErrorSettles
    <3> QED
      BY <1>1, <2>1, <2>3, <3>1 DEF Accounted
  <2> QED
    BY <2>2, <2>3 DEF Outcomes
<1>5. \A v \in Workers : pc'[v] \in Counters =>
        \/ pc[v] \in Counters /\ cur'[v] = cur[v]
        \/ Msg(v)' \in rows'
  BY <1>2 DEF Msg
<1>6. \A id \in dedup' : id \in EventIds /\ (id \in dedup \/ Accounted(id)')
  BY <1>1 DEF TypeOK
<1> QED
  BY <1>3, <1>4, <1>5, <1>6, AccountStep

(* IsDuplicate claims the event or finds it claimed: an attempt to store    *)
(* it begins, or what the key stands for is accounted for already.          *)
LEMMA AccountIsDuplicate ==
  ASSUME TypeOK, AccountInv, NEW w \in Workers, IsDuplicate(w)
  PROVE  Forward /\ AccountInv'
<1> DEFINE m == Msg(w)
<1>1. /\ pc[w] = "dedup"
      /\ m.id \in EventIds
      /\ UNCHANGED <<log, cur, rows, counted>>
  BY MsgType DEF IsDuplicate, kafkaVars
<1>2. ASSUME pc' = [pc EXCEPT ![w] = "insert"]
      PROVE  \A id \in EventIds : id = m.id => Accounted(id)'
  BY <1>1, <1>2 DEF Accounted, InFlight, Msg, TypeOK
<1>3. CASE DedupAnswers(w) /\ m.id \in dedup
  <2>1. /\ Answer(w, "duplicate", "commit")
        /\ dedup' = dedup
        /\ abandoned' = abandoned
    BY <1>3 DEF DedupAnswers
  <2>2. Forward
    BY <1>1, <2>1 DEF Forward, Answer, TypeOK
  <2>3. \A id \in EventIds : id = m.id => Accounted(id)'
    BY <1>1, <1>3, <2>2, AccountedStable DEF AccountInv, ClaimsAccounted
  <2>4. /\ pc' = [pc EXCEPT ![w] = "commit"]
        /\ results' = results \union {<<cur[w].part, cur[w].off, "duplicate">>}
        /\ "duplicate" \in Outcomes /\ "commit" \notin Counters
    BY <2>1 DEF Answer, Counters, Outcomes
  <2>5. /\ pc[w] \notin {"down", "fetch"} /\ pc[w] # "insert"
        /\ dedup' \subseteq dedup \union {m.id}
        /\ rows \subseteq rows' /\ abandoned \subseteq abandoned'
    BY <1>1, <2>1
  <2> QED
    BY <1>1, <2>3, <2>4, <2>5, AccountProcess
<1>4. CASE \/ DedupAnswers(w) /\ m.id \notin dedup
           \/ DedupFails(w)
  <2>1. /\ Goto(w, "insert")
        /\ dedup' \subseteq dedup \union {m.id}
        /\ abandoned' = abandoned
    BY <1>4 DEF DedupAnswers, DedupFails
  <2>2. \A id \in EventIds : id = m.id => Accounted(id)'
    BY <1>2, <2>1 DEF Goto
  <2> QED
    BY <1>1, <2>1, <2>2, AccountProcess DEF Goto, Counters, Outcomes
<1>5. CASE DedupResent(w)
  <2>1. /\ Answer(w, "duplicate", "commit")
        /\ dedup' = dedup \union {m.id}
        /\ abandoned' = abandoned \union {m.id}
    BY <1>5 DEF DedupResent
  <2>2. \A id \in EventIds : id = m.id => Accounted(id)'
    BY <2>1 DEF Accounted, Settled
  <2>4. /\ pc' = [pc EXCEPT ![w] = "commit"]
        /\ results' = results \union {<<cur[w].part, cur[w].off, "duplicate">>}
        /\ "duplicate" \in Outcomes /\ "commit" \notin Counters
    BY <2>1 DEF Answer, Counters, Outcomes
  <2>5. /\ pc[w] \notin {"down", "fetch"} /\ pc[w] # "insert"
        /\ dedup' \subseteq dedup \union {m.id}
        /\ rows \subseteq rows' /\ abandoned \subseteq abandoned'
    BY <1>1, <2>1
  <2> QED
    BY <1>1, <2>2, <2>4, <2>5, AccountProcess
<1> QED
  BY <1>3, <1>4, <1>5 DEF IsDuplicate

(* The insert ends the attempt: with the row, or with an error on record. *)
LEMMA AccountInsertEvent ==
  ASSUME TypeOK, AccountInv, NEW w \in Workers, InsertEvent(w)
  PROVE  Forward /\ AccountInv'
<1> DEFINE m == Msg(w)
<1>1. /\ pc[w] = "insert"
      /\ m.id \in EventIds
      /\ UNCHANGED <<log, cur, dedup, abandoned>>
      /\ rows \subseteq rows'
  BY MsgType DEF InsertEvent, InsertAnswers, InsertFails, Inserted, kafkaVars,
                 redisVars
<1>2. CASE InsertAnswers(w)
  <2>1. /\ pc' = [pc EXCEPT ![w] = "calls"]
        /\ results' = results
        /\ m \in rows'
        /\ "ok" \in Outcomes
    BY <1>2 DEF InsertAnswers, Goto, Inserted, Outcomes
  <2>2. \A id \in EventIds : id = m.id => Settled(id)'
    BY <2>1, StoreSettles
  <2> QED
    BY <1>1, <2>1, <2>2, AccountProcess
<1>3. CASE InsertFails(w)
  <2>1. /\ pc' = [pc EXCEPT ![w] = "commitErr"]
        /\ results' = results \union {<<cur[w].part, cur[w].off, "error">>}
        /\ "error" \in Outcomes /\ "commitErr" \notin Counters
    BY <1>3 DEF InsertFails, Answer, Outcomes, Counters
  <2>2. \A id \in EventIds : id = m.id => Settled(id)'
    BY <1>1, <2>1, HeldMsg, ErrorSettles
  <2> QED
    BY <1>1, <2>1, <2>2, AccountProcess
<1> QED
  BY <1>2, <1>3 DEF InsertEvent

LEMMA AccountUpdateCounter ==
  ASSUME TypeOK, AccountInv, NEW w \in Workers, NEW c \in Counters,
         UpdateCounter(w, c)
  PROVE  Forward /\ AccountInv'
<1> DEFINE m == Msg(w)
<1>1. /\ pc[w] = c /\ c \notin {"down", "fetch", "insert"}
      /\ m \in rows'
      /\ UNCHANGED <<log, cur, dedup, rows, abandoned>>
  BY DEF UpdateCounter, Counters, kafkaVars, AccountInv, CountingStored
<1>2. \E stage \in Stages :
        /\ pc' = [pc EXCEPT ![w] = stage]
        /\ \/ results' = results
           \/ results' = results \union {<<cur[w].part, cur[w].off, "ok">>}
  BY DEF UpdateCounter, CounterAnswers, CounterFails, Answer, Goto, Stages,
         NextStage, Counters
<1>3. PICK stage \in Stages :
        /\ pc' = [pc EXCEPT ![w] = stage]
        /\ \/ results' = results
           \/ results' = results \union {<<cur[w].part, cur[w].off, "ok">>}
  BY <1>2
<1>4. "ok" \in Outcomes
  BY DEF Outcomes
<1> QED
  BY <1>1, <1>3, <1>4, AccountProcess

(* Steps that record nothing and begin no stage of Process. *)
LEMMA AccountQuiet ==
  ASSUME TypeOK, AccountInv, Forward, dedup' \subseteq dedup,
         results' = results,
         \A v \in Workers : pc'[v] \in Counters =>
           pc[v] \in Counters /\ cur'[v] = cur[v]
  PROVE  AccountInv'
<1>1. \A id \in dedup' : id \in EventIds /\ id \in dedup
  BY DEF TypeOK
<1> QED
  BY <1>1, AccountStep

LEMMA AccountCommitMessages ==
  ASSUME TypeOK, AccountInv, NEW w \in Workers,
         pc[w] \in {"commit", "commitErr"},
         pc' = [pc EXCEPT ![w] = "fetch"],
         cur' = [cur EXCEPT ![w] = Idle],
         UNCHANGED <<log, dedup, rows, results, abandoned>>
  PROVE  Forward /\ AccountInv'
<1>1. \A v \in Workers : pc'[v] # "fetch" => v # w /\ cur'[v] = cur[v]
                                            /\ pc'[v] = pc[v]
  BY DEF TypeOK
<1>2. \A v \in Workers : pc[v] = "insert" => v # w /\ cur'[v] = cur[v]
                                            /\ pc'[v] = pc[v]
  BY DEF TypeOK
<1>3. Forward
  BY <1>2 DEF Forward
<1> QED
  BY <1>1, <1>3, AccountQuiet DEF Counters

LEMMA AccountGone ==
  ASSUME TypeOK, AccountInv, NEW w \in Workers, Gone(w),
         abandoned \subseteq abandoned',
         pc[w] = "insert" => Msg(w).id \in abandoned'
  PROVE  Forward /\ AccountInv'
<1>1. \A v \in Workers : pc'[v] # "down" => /\ cur'[v] = cur[v]
                                           /\ pc'[v] = pc[v]
  BY DEF Gone, TypeOK
<1>2. \A v \in Workers : v # w => cur'[v] = cur[v] /\ pc'[v] = pc[v]
  BY DEF Gone, TypeOK
<1>3. Forward
  BY <1>2 DEF Forward, Gone, Settled
<1> QED
  BY <1>1, <1>3, AccountQuiet DEF Counters, Gone, redisVars

LEMMA AccountNext ==
  TypeOK /\ AccountInv /\ [Next]_vars => AccountInv'
<1> SUFFICES ASSUME TypeOK, AccountInv, [Next]_vars PROVE AccountInv'
  OBVIOUS
<1>1. ASSUME NEW id \in EventIds, NEW ts \in Stamps, Publish(id, ts)
      PROVE  AccountInv'
  BY <1>1, AccountPublish
<1>2. ASSUME NEW w \in Workers, Process(w) \/ FetchMessage(w)
      PROVE  AccountInv'
  BY <1>2, AccountFetchMessage, AccountIsDuplicate, AccountInsertEvent,
     AccountUpdateCounter DEF Process
<1>3. ASSUME NEW w \in Workers, CommitMessages(w)
      PROVE  AccountInv'
  BY <1>3, AccountCommitMessages DEF CommitMessages, redisVars, historyVars
<1>4. ASSUME NEW w \in Workers, CommitRefused(w)
      PROVE  AccountInv'
  <2>1. CASE pc[w] = "commit" /\ Leave(w)
    BY <2>1, AccountGone DEF Leave
  <2>2. CASE ~(pc[w] = "commit" /\ Leave(w))
    BY <1>4, <2>2, AccountCommitMessages
       DEF CommitRefused, kafkaVars, redisVars, historyVars
  <2> QED
    BY <2>1, <2>2
<1>5. ASSUME NEW w \in Workers, FetchFails(w)
      PROVE  AccountInv'
  BY <1>5, AccountGone DEF FetchFails, Leave
<1>6. ASSUME NEW w \in Workers, Crash(w)
      PROVE  AccountInv'
  BY <1>6, AccountGone DEF Crash
<1>7. ASSUME NEW w \in Workers, FlushCommits(w) \/ Shutdown(w) \/ Start(w)
      PROVE  AccountInv'
  <2>1. /\ UNCHANGED <<log, cur, rows, dedup, results, abandoned>>
        /\ \A v \in Workers : pc'[v] # "fetch" => pc'[v] = pc[v]
        /\ \A v \in Workers : pc[v] # "down" => pc'[v] = pc[v]
    BY <1>7 DEF FlushCommits, Shutdown, Start, kafkaVars, redisVars,
                historyVars, TypeOK
  <2>2. Forward
    BY <2>1 DEF Forward
  <2> QED
    BY <2>1, <2>2, AccountQuiet DEF Counters
<1>8. CASE TakeOver \/ Rebalance
  <2>1. UNCHANGED <<log, pc, cur, rows, dedup, results, abandoned>>
    BY <1>8 DEF TakeOver, Rebalance, Reassign, redisVars, historyVars
  <2>2. Forward
    BY <2>1 DEF Forward
  <2> QED
    BY <2>1, <2>2, AccountQuiet
<1>9. ASSUME NEW id \in EventIds, EvictKey(id)
      PROVE  AccountInv'
  <2>1. /\ UNCHANGED <<log, pc, cur, rows, results, abandoned>>
        /\ dedup' \subseteq dedup
    BY <1>9 DEF EvictKey, kafkaVars
  <2>2. Forward
    BY <2>1 DEF Forward
  <2> QED
    BY <2>1, <2>2, AccountQuiet
<1>10. CASE UNCHANGED vars
  <2>1. Forward /\ UNCHANGED <<pc, cur, dedup, results>>
    BY <1>10 DEF vars, Forward
  <2> QED
    BY <2>1, AccountQuiet
<1> QED
  BY <1>1, <1>2, <1>3, <1>4, <1>5, <1>6, <1>7, <1>8, <1>9, <1>10
     DEF Next, Consume

(* Whatever happened, a committed event is stored, about to be stored, or   *)
(* lost for a reason the code knows of: an error its handler returned, or a *)
(* claim that outlived the attempt to store.                                *)
THEOREM EveryLossExcused == Spec => []LossIsExcused
<1>1. Init => TypeOK /\ OffsetInv /\ AccountInv
  BY TypeInit, OffsetInit, AccountInit
<1>2. TypeOK /\ OffsetInv /\ AccountInv /\ [Next]_vars
        => (TypeOK /\ OffsetInv /\ AccountInv)'
  BY TypeNext, OffsetNext, AccountNext
<1>3. TypeOK /\ OffsetInv /\ AccountInv => LossIsExcused
  <2> SUFFICES ASSUME TypeOK, OffsetInv, AccountInv,
                      NEW p \in Partitions, NEW i \in 1 .. committed[p]
               PROVE  Accounted(log[p][i].id)
    BY DEF LossIsExcused, Accounted, Settled
  <2>1. Handled(p, i)
    BY DEF OffsetInv, NoOffsetSkipped
  <2>2. i \in 1 .. Len(log[p])
    BY LogType DEF TypeOK
  <2> QED
    BY <2>1, <2>2 DEF AccountInv, AnswersAccounted
<1> QED
  BY <1>1, <1>2, <1>3, PTL DEF Spec

(* The handler never says "ok" of a message that is not in the table. *)
THEOREM OkIsStored == Spec => []OkMeansStored
<1>1. Init => TypeOK /\ AccountInv
  BY TypeInit, AccountInit
<1>2. TypeOK /\ AccountInv /\ [Next]_vars => (TypeOK /\ AccountInv)'
  BY TypeNext, AccountNext
<1>3. TypeOK /\ AccountInv => OkMeansStored
  BY LogType DEF AccountInv, OkStored, OkMeansStored
<1> QED
  BY <1>1, <1>2, <1>3, PTL DEF Spec

-----------------------------------------------------------------------------
(* Committed offsets go forward.                                            *)

(* Partitions have workers all or none, and what is in the hands or in the  *)
(* stash of a worker is of a partition it owns and not behind its commits.  *)
HomeInv ==
  /\ \A p, q \in Partitions : owner[p] = NoWorker => owner[q] = NoWorker
  /\ \A p \in Partitions : owner[p] # NoWorker => committed[p] <= pos[p]
  /\ \A w \in Workers, p \in Partitions : stash[w][p] > 0 =>
       owner[p] = w /\ committed[p] <= stash[w][p] /\ stash[w][p] <= pos[p]
  /\ \A w \in Workers : cur[w].off > 0 =>
       owner[cur[w].part] = w /\ cur[w].off = pos[cur[w].part]

Home == OnlyRebalanceMoves /\ faults["rebalance"] = 0 => HomeInv

LEMMA HomeInit == Init => Home
BY IdleType DEF Init, Home, HomeInv

LEMMA HomeFrame ==
  ASSUME HomeInv, UNCHANGED <<committed, owner, pos, stash>>,
         \A w \in Workers : cur'[w].off > 0 => cur'[w] = cur[w]
  PROVE  HomeInv'
BY DEF HomeInv

LEMMA HomeFetchMessage ==
  ASSUME TypeOK, HomeInv, NEW w \in Workers, FetchMessage(w)
  PROVE  HomeInv'
<1>1. PICK p \in Partitions :
        /\ owner[p] = w
        /\ pos' = [pos EXCEPT ![p] = @ + 1]
        /\ cur' = [cur EXCEPT ![w] = [part |-> p, off |-> pos[p] + 1]]
  BY DEF FetchMessage
<1>2. /\ pos[p] \in Nat /\ pos'[p] = pos[p] + 1
      /\ \A q \in Partitions : q # p => pos'[q] = pos[q]
      /\ cur'[w].part = p /\ cur'[w].off = pos[p] + 1
      /\ \A v \in Workers : v # w => cur'[v] = cur[v]
      /\ UNCHANGED <<committed, owner, stash>>
  BY <1>1 DEF FetchMessage, TypeOK
<1>3. ASSUME NEW q \in Partitions
      PROVE  /\ pos[q] \in Nat /\ pos'[q] \in Nat /\ pos[q] <= pos'[q]
             /\ committed[q] \in Nat
             /\ \A v \in Workers : stash[v][q] \in Nat
  BY <1>1, <1>2 DEF TypeOK
<1>4. \A q \in Partitions : owner[q] # NoWorker => committed[q] <= pos'[q]
  BY <1>3 DEF HomeInv
<1>5. \A v \in Workers, q \in Partitions : stash[v][q] > 0 =>
        owner[q] = v /\ committed[q] <= stash[v][q] /\ stash[v][q] <= pos'[q]
  BY <1>3 DEF HomeInv
<1>6. ASSUME NEW v \in Workers, cur'[v].off > 0
      PROVE  owner[cur'[v].part] = v /\ cur'[v].off = pos'[cur'[v].part]
  <2>1. CASE v = w
    BY <1>1, <1>2, <2>1
  <2>2. CASE v # w
    <3>1. cur'[v] = cur[v] /\ cur[v].part \in Partitions
      BY <1>2, <2>2 DEF TypeOK
    <3>2. owner[cur[v].part] = v /\ cur[v].off = pos[cur[v].part]
      BY <1>6, <3>1 DEF HomeInv
    <3>3. cur[v].part # p
      BY <1>1, <2>2, <3>2
    <3> QED
      BY <1>2, <3>1, <3>2, <3>3
  <2> QED
    BY <2>1, <2>2
<1> QED
  BY <1>2, <1>4, <1>5, <1>6 DEF HomeInv

LEMMA HomeCommitMessages ==
  ASSUME TypeOK, HomeInv, NEW w \in Workers, CommitMessages(w)
  PROVE  HomeInv'
<1> DEFINE p == cur[w].part
<1>1. /\ p \in Partitions /\ cur[w].off > 0 /\ cur[w].off \in Nat
      /\ owner[p] = w /\ cur[w].off = pos[p] /\ committed[p] <= pos[p]
  <2>1. p \in Partitions /\ cur[w].off \in 1 .. Len(log[p]) /\ Len(log[p]) \in Nat
    BY MsgType, LogType DEF CommitMessages
  <2>2. cur[w].off > 0 /\ cur[w].off \in Nat
    BY <2>1
  <2>3. owner[p] = w /\ cur[w].off = pos[p]
    BY <2>2 DEF HomeInv
  <2>4. owner[p] # NoWorker
    BY <2>3, WorkersAssumption
  <2>5. committed[p] <= pos[p]
    BY <2>1, <2>4 DEF HomeInv
  <2> QED
    BY <2>1, <2>2, <2>3, <2>5
<1>2. /\ UNCHANGED <<committed, owner, pos>>
      /\ \A v \in Workers : cur'[v] = cur[v] \/ cur'[v].off = 0
  BY IdleType DEF CommitMessages, TypeOK
<1>3. /\ stash'[w][p] \in {stash[w][p], cur[w].off}
      /\ \A v \in Workers, q \in Partitions :
           stash'[v][q] = stash[v][q] \/ (v = w /\ q = p)
  BY <1>1 DEF CommitMessages, Stashed, Held, TypeOK
<1> HIDE DEF p
<1>4. ASSUME NEW v \in Workers, NEW q \in Partitions, stash'[v][q] > 0
      PROVE  owner[q] = v /\ committed[q] <= stash'[v][q] /\ stash'[v][q] <= pos[q]
  <2>1. CASE stash'[v][q] = stash[v][q]
    BY <1>4, <2>1 DEF HomeInv
  <2>2. CASE v = w /\ q = p /\ stash'[w][p] = cur[w].off
    BY <1>1, <2>2 DEF TypeOK
  <2> QED
    BY <1>3, <2>1, <2>2
<1>5. \A v \in Workers : cur'[v].off > 0 => cur'[v] = cur[v]
  BY <1>2
<1> QED
  BY <1>2, <1>4, <1>5 DEF HomeInv

(* What is flushed is not behind, and is flushed by the owner alone.        *)
LEMMA FlushedForward ==
  ASSUME TypeOK, HomeInv, NEW w \in Workers, NEW p \in Partitions
  PROVE  /\ committed[p] <= Flushed(w)[p]
         /\ Flushed(w)[p] # committed[p] =>
              owner[p] = w /\ Flushed(w)[p] = stash[w][p] /\ stash[w][p] > 0
<1>1. committed[p] \in Nat /\ stash[w][p] \in Nat
  BY DEF TypeOK
<1>2. Flushed(w)[p] = IF stash[w][p] = 0 THEN committed[p] ELSE stash[w][p]
  BY DEF Flushed
<1> QED
  BY <1>1, <1>2 DEF HomeInv

LEMMA HomeFlushCommits ==
  ASSUME TypeOK, HomeInv, NEW w \in Workers, FlushCommits(w)
  PROVE  HomeInv'
<1>1. /\ committed' = Flushed(w) /\ UNCHANGED <<owner, pos, cur>>
      /\ \A p \in Partitions : stash'[w][p] = 0
      /\ \A v \in Workers : v # w => stash'[v] = stash[v]
  BY DEF FlushCommits, NoOffsets, TypeOK
<1>2. \A p \in Partitions : committed[p] \in Nat /\ pos[p] \in Nat
  BY DEF TypeOK
<1>3. ASSUME NEW p \in Partitions, owner[p] # NoWorker
      PROVE  committed'[p] <= pos[p]
  BY <1>1, <1>2, <1>3, FlushedForward DEF HomeInv
<1>4. ASSUME NEW v \in Workers, NEW p \in Partitions, stash'[v][p] > 0
      PROVE  /\ owner[p] = v /\ committed'[p] <= stash'[v][p]
             /\ stash'[v][p] <= pos[p]
  <2>1. v # w /\ stash'[v][p] = stash[v][p]
    BY <1>1, <1>4
  <2>2. owner[p] = v /\ committed[p] <= stash[v][p] /\ stash[v][p] <= pos[p]
    BY <1>4, <2>1 DEF HomeInv
  <2>3. committed'[p] = committed[p]
    BY <1>1, <2>1, <2>2, FlushedForward
  <2> QED
    BY <2>1, <2>2, <2>3
<1> QED
  BY <1>1, <1>3, <1>4 DEF HomeInv

(* A worker that goes takes along all that was in its name.                 *)
LEMMA HomeGone ==
  ASSUME TypeOK, OnlyRebalanceMoves, HomeInv, NEW w \in Workers, Gone(w),
         committed' \in {committed, Flushed(w)}
  PROVE  HomeInv'
<1>1. /\ \A p \in Partitions :
           owner'[p] = IF owner[p] = w THEN NoWorker ELSE owner[p]
      /\ \A p \in Partitions : stash'[w][p] = 0
      /\ \A v \in Workers : v # w => stash'[v] = stash[v] /\ cur'[v] = cur[v]
      /\ cur'[w].off = 0 /\ UNCHANGED pos
  BY IdleType DEF Gone, NoOffsets, TypeOK
<1>2. ASSUME NEW p \in Partitions, owner[p] # w
      PROVE  committed'[p] = committed[p]
  BY <1>2, FlushedForward
<1>3. \A p, q \in Partitions : owner'[p] = NoWorker => owner'[q] = NoWorker
  <2>1. CASE \A u, v \in Workers : u = v
    BY <1>1, <2>1 DEF TypeOK
  <2>2. CASE \A p, q \in Partitions : p = q
    BY <2>2
  <2> QED
    BY <2>1, <2>2 DEF OnlyRebalanceMoves
<1>4. \A p \in Partitions : owner'[p] # NoWorker => committed'[p] <= pos[p]
  BY <1>1, <1>2 DEF HomeInv
<1>5. ASSUME NEW v \in Workers, NEW p \in Partitions, stash'[v][p] > 0
      PROVE  /\ owner'[p] = v /\ committed'[p] <= stash'[v][p]
             /\ stash'[v][p] <= pos[p]
  BY <1>1, <1>2, <1>5 DEF HomeInv
<1>6. ASSUME NEW v \in Workers, cur'[v].off > 0
      PROVE  owner'[cur'[v].part] = v /\ cur'[v].off = pos[cur'[v].part]
  <2>1. v # w /\ cur'[v] = cur[v] /\ cur[v].part \in Partitions
    BY <1>1, <1>6 DEF TypeOK
  <2>2. owner[cur[v].part] = v /\ cur[v].off = pos[cur[v].part]
    BY <1>6, <2>1 DEF HomeInv
  <2> QED
    BY <1>1, <2>1, <2>2
<1> QED
  BY <1>1, <1>3, <1>4, <1>5, <1>6 DEF HomeInv

(* The coordinator acts when no worker has anything in its name.            *)
LEMMA HomeTakeOver ==
  ASSUME TypeOK, HomeInv, TakeOver
  PROVE  HomeInv' /\ committed' = committed
<1>1. \A p \in Partitions : owner[p] = NoWorker
  BY DEF TakeOver, HomeInv
<1>2. ASSUME NEW w \in Workers, NEW p \in Partitions
      PROVE  stash[w][p] = 0
  <2>1. owner[p] # w /\ stash[w][p] \in Nat
    BY <1>1, WorkersAssumption DEF TypeOK
  <2>2. ~(stash[w][p] > 0)
    BY <2>1 DEF HomeInv
  <2> QED
    BY <2>1, <2>2
<1>3. ASSUME NEW w \in Workers
      PROVE  ~(cur[w].off > 0)
  <2>1. cur[w].part \in Partitions
    BY DEF TypeOK
  <2>2. owner[cur[w].part] # w
    BY <1>1, <2>1, WorkersAssumption
  <2> QED
    BY <2>2 DEF HomeInv
<1>4. /\ owner' \in [Partitions -> Running] /\ UNCHANGED cur
      /\ committed' \in [Partitions -> 0 .. MaxLog]
      /\ \A p \in Partitions :
           committed'[p] \in {committed[p]} \union ({stash[w][p] : w \in Workers} \ {0})
      /\ pos' = [p \in Partitions |-> committed'[p]]
      /\ \A w \in Workers, p \in Partitions : stash'[w][p] = 0
  BY DEF TakeOver, Reassign, ResumeFrom, NoOffsets
<1>5. \A p \in Partitions : committed'[p] = committed[p]
  BY <1>2, <1>4
<1>6. committed' = committed
  BY <1>4, <1>5 DEF TypeOK
<1>7. \A p \in Partitions : owner'[p] # NoWorker /\ committed'[p] <= pos'[p]
  <2> SUFFICES ASSUME NEW p \in Partitions
               PROVE  owner'[p] # NoWorker /\ committed'[p] <= pos'[p]
    OBVIOUS
  <2>1. owner'[p] \in Workers
    BY <1>4 DEF Running
  <2>2. pos'[p] = committed'[p] /\ committed'[p] \in Nat
    BY <1>4, BoundsAssumption
  <2> QED
    BY <2>1, <2>2, WorkersAssumption
<1> QED
  BY <1>3, <1>4, <1>6, <1>7 DEF HomeInv

(* Faults are only ever counted up.                                         *)
LEMMA FaultsGrow ==
  ASSUME TypeOK, [Next]_vars, faults'["rebalance"] = 0
  PROVE  faults["rebalance"] = 0 /\ ~Rebalance
<1>1. \A k \in FaultKind : Fault(k) =>
        faults["rebalance"] <= faults'["rebalance"] /\ k # "rebalance"
  BY DEF Fault, TypeOK, FaultKind
<1>2. faults["rebalance"] \in Nat
  BY DEF TypeOK, FaultKind
<1>3. ~Rebalance
  BY <1>1 DEF Rebalance, FaultKind
<1>4. faults' = faults \/ \E k \in FaultKind : Fault(k)
  BY <1>3 DEF Next, vars, Publish, Consume, Process, FetchMessage, IsDuplicate,
         DedupAnswers, DedupFails, DedupResent, InsertEvent, InsertAnswers,
         InsertFails, UpdateCounter, CounterAnswers, CounterFails, CallFails,
         CommitMessages, CommitRefused, FlushCommits, FetchFails, Shutdown,
         Crash, Start, TakeOver, EvictKey, FaultKind, Counters
<1> QED
  BY <1>1, <1>2, <1>3, <1>4

LEMMA HomeNext == TypeOK /\ Home /\ [Next]_vars => Home'
<1> SUFFICES ASSUME TypeOK, Home, [Next]_vars, OnlyRebalanceMoves,
                    faults'["rebalance"] = 0
             PROVE  HomeInv'
  BY DEF Home, OnlyRebalanceMoves
<1>1. HomeInv /\ ~Rebalance
  BY FaultsGrow DEF Home
<1>2. ASSUME UNCHANGED <<committed, owner, pos, stash, cur>>
      PROVE  HomeInv'
  BY <1>1, <1>2, HomeFrame
<1>3. ASSUME NEW w \in Workers, FetchFails(w) \/ Crash(w)
      PROVE  HomeInv'
  BY <1>1, <1>3, HomeGone DEF FetchFails, Leave, Crash
<1>4. ASSUME NEW w \in Workers, CommitRefused(w)
      PROVE  HomeInv'
  <2>1. CASE pc[w] = "commit" /\ Leave(w)
    BY <1>1, <2>1, HomeGone DEF Leave
  <2>2. CASE cur' = [cur EXCEPT ![w] = Idle] /\ UNCHANGED kafkaVars
    BY <1>1, <2>2, HomeFrame, IdleType DEF kafkaVars, TypeOK
  <2> QED
    BY <1>4, <2>1, <2>2 DEF CommitRefused
<1>5. ASSUME NEW w \in Workers, Process(w)
      PROVE  HomeInv'
  BY <1>2, <1>5, ProcessAnswers
<1>6. ASSUME NEW w \in Workers, Shutdown(w) \/ Start(w)
      PROVE  HomeInv'
  BY <1>2, <1>6 DEF Shutdown, Start, kafkaVars
<1>7. ASSUME NEW id \in EventIds, NEW ts \in Stamps, Publish(id, ts)
      PROVE  HomeInv'
  BY <1>2, <1>7 DEF Publish
<1>8. ASSUME NEW id \in EventIds, EvictKey(id)
      PROVE  HomeInv'
  BY <1>2, <1>8 DEF EvictKey, kafkaVars
<1>9. CASE UNCHANGED vars
  BY <1>2, <1>9 DEF vars
<1> QED
  BY <1>1, <1>3, <1>4, <1>5, <1>6, <1>7, <1>8, <1>9, HomeFetchMessage,
     HomeCommitMessages, HomeFlushCommits, HomeTakeOver DEF Next, Consume

(* With one consumer, or one partition, what the group has committed never  *)
(* goes back before a rebalance, whatever crashes, shutdowns and lost       *)
(* commits there are.                                                       *)
THEOREM CommitsGoForward == Spec => CommittedMonotonic
<1> DEFINE Forth == OnlyRebalanceMoves /\ faults["rebalance"] = 0 =>
                      \A p \in Partitions : committed'[p] >= committed[p]
<1>1. Init => TypeOK /\ Home
  BY TypeInit, HomeInit
<1>2. TypeOK /\ Home /\ [Next]_vars => (TypeOK /\ Home)'
  BY TypeNext, HomeNext
<1>3. TypeOK /\ Home /\ [Next]_vars => [Forth]_committed
  <2> SUFFICES ASSUME TypeOK, HomeInv, [Next]_vars, NEW p \in Partitions
               PROVE  committed'[p] >= committed[p]
    BY DEF Home
  <2>1. committed[p] \in Nat
    BY DEF TypeOK
  <2>2. ASSUME committed' = committed
        PROVE  committed'[p] >= committed[p]
    BY <2>1, <2>2
  <2>3. ASSUME NEW w \in Workers, committed' \in {committed, Flushed(w)}
        PROVE  committed'[p] >= committed[p]
    BY <2>1, <2>3, FlushedForward, FlushedType
  <2>4. ASSUME NEW w \in Workers,
               FlushCommits(w) \/ FetchFails(w) \/ Crash(w) \/ CommitRefused(w)
        PROVE  committed'[p] >= committed[p]
    BY <2>2, <2>3, <2>4 DEF FlushCommits, FetchFails, Crash, CommitRefused,
                            Leave, kafkaVars
  <2>5. CASE Rebalance
    <3>1. committed'[p] \in {committed[p]} \union ({stash[w][p] : w \in Workers} \ {0})
      BY <2>5 DEF Rebalance, Reassign
    <3>2. \A w \in Workers : stash[w][p] \in Nat /\ (stash[w][p] > 0 =>
                               committed[p] <= stash[w][p])
      BY DEF HomeInv, TypeOK
    <3> QED
      BY <2>1, <3>1, <3>2
  <2>6. CASE TakeOver
    BY <2>2, <2>6, HomeTakeOver
  <2>7. ASSUME NEW w \in Workers,
               FetchMessage(w) \/ Process(w) \/ CommitMessages(w) \/
               Shutdown(w) \/ Start(w)
        PROVE  committed'[p] >= committed[p]
    BY <2>2, <2>7, ProcessAnswers DEF FetchMessage, CommitMessages, Shutdown,
                                      Start, kafkaVars
  <2>8. ASSUME NEW id \in EventIds,
               EvictKey(id) \/ \E ts \in Stamps : Publish(id, ts)
        PROVE  committed'[p] >= committed[p]
    BY <2>2, <2>8 DEF EvictKey, Publish, kafkaVars
  <2>9. CASE UNCHANGED vars
    BY <2>2, <2>9 DEF vars
  <2> QED
    BY <2>4, <2>5, <2>6, <2>7, <2>8, <2>9 DEF Next, Consume
<1> QED
  BY <1>1, <1>2, <1>3, PTL DEF Spec, CommittedMonotonic
=============================================================================
