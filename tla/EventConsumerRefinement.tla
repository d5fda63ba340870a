----------------------- MODULE EventConsumerRefinement -----------------------
(***************************************************************************)
(* EventConsumer implements DeliveryContract, for any number of workers,   *)
(* partitions, events and faults.  The steps of Process are the contract's *)
(* claims and settlements, the three ways an offset becomes the committed  *)
(* one are its acknowledgements, and the rest changes nothing it sees.     *)
(***************************************************************************)
EXTENDS EventConsumerProofs, SequenceTheorems

PendingSet == {id \in EventIds : InFlight(id)}
StoredSet == {id \in EventIds : HasRow(id)}
ExcusedSet == {id \in EventIds : Failed(id)} \union abandoned

LEMMA RefInit == Init => Contract!Init
<1> SUFFICES ASSUME Init PROVE Contract!Init
  OBVIOUS
<1>1. TopicIds = [p \in Partitions |-> << >>]
  <2>1. \A p \in Partitions : DOMAIN log[p] = {}
    BY DEF Init
  <2>2. \A p \in Partitions : [i \in DOMAIN log[p] |-> log[p][i].id] = << >>
    BY <2>1
  <2> QED
    BY <2>2 DEF TopicIds
<1>2. /\ PendingSet = {} /\ StoredSet = {} /\ ExcusedSet = {}
  BY DEF Init, PendingSet, StoredSet, ExcusedSet, InFlight, HasRow, Failed
<1> QED
  BY <1>1, <1>2 DEF Contract!Init, Init, PendingSet, StoredSet, ExcusedSet

LEMMA TopicStable ==
  ASSUME log' = log
  PROVE  TopicIds' = TopicIds
BY DEF TopicIds

LEMMA RefPublish ==
  ASSUME TypeOK, AccountInv, NEW e \in EventIds, NEW ts \in Stamps,
         Publish(e, ts)
  PROVE  \E p \in Partitions : Contract!Publish(p, e)
<1> DEFINE q == PartitionOf[e]  m == [id |-> e, ts |-> ts]
<1>1. q \in Partitions /\ m \in Message /\ m.id = e
  BY PartitionsAssumption DEF Message
<1>2. /\ log' = [log EXCEPT ![q] = Append(@, m)]
      /\ log \in [Partitions -> Seq(Message)]
      /\ UNCHANGED <<committed, abandoned>>
  BY DEF Publish, TypeOK, historyVars
<1> HIDE DEF q, m
<1>3. /\ log[q] \in Seq(Message)
      /\ Len(log[q]) \in Nat
      /\ DOMAIN log[q] = 1 .. Len(log[q])
      /\ log'[q] = Append(log[q], m)
      /\ DOMAIN log'[q] = 1 .. Len(log[q]) + 1
      /\ \A i \in 1 .. Len(log[q]) : log'[q][i] = log[q][i]
      /\ log'[q][Len(log[q]) + 1] = m
  BY <1>1, <1>2
<1>4. TopicIds'[q] = Append(TopicIds[q], e)
  <2>1. /\ TopicIds[q] = [i \in 1 .. Len(log[q]) |-> log[q][i].id]
        /\ TopicIds'[q] = [i \in 1 .. Len(log[q]) + 1 |-> log'[q][i].id]
    BY <1>1, <1>3 DEF TopicIds
  <2>2. \A i \in 1 .. Len(log[q]) : log[q][i].id \in EventIds
    BY <1>1, LogType
  <2>3. TopicIds[q] \in Seq(EventIds) /\ Len(TopicIds[q]) = Len(log[q])
    BY <1>3, <2>1, <2>2
  <2>4. /\ Append(TopicIds[q], e) \in Seq(EventIds)
        /\ Len(Append(TopicIds[q], e)) = Len(log[q]) + 1
        /\ \A i \in 1 .. Len(log[q]) :
             Append(TopicIds[q], e)[i] = log[q][i].id
        /\ Append(TopicIds[q], e)[Len(log[q]) + 1] = e
    BY <1>3, <2>1, <2>3
  <2>5. TopicIds'[q] \in Seq(EventIds) /\ Len(TopicIds'[q]) = Len(log[q]) + 1
    BY <1>1, <1>3, <2>1, <2>2
  <2>6. \A i \in 1 .. Len(log[q]) + 1 :
          TopicIds'[q][i] = Append(TopicIds[q], e)[i]
    BY <1>1, <1>3, <2>1, <2>4
  <2> QED
    BY <2>4, <2>5, <2>6, SeqEqual
<1>5. \A p \in Partitions \ {q} : TopicIds'[p] = TopicIds[p]
  BY <1>1, <1>2 DEF TopicIds
<1>6. TopicIds' = [TopicIds EXCEPT ![q] = Append(@, e)]
  BY <1>1, <1>4, <1>5 DEF TopicIds
<1>7. UNCHANGED <<PendingSet, StoredSet, ExcusedSet>>
  BY <1>2, AccountPublish DEF PendingSet, StoredSet, ExcusedSet
<1>8. Contract!Publish(q, e)
  BY <1>2, <1>6, <1>7
     DEF Contract!Publish, PendingSet, StoredSet, ExcusedSet
<1> QED
  BY <1>1, <1>8

-----------------------------------------------------------------------------
(* The kinds of steps, told apart by what they do to InFlight, HasRow and   *)
(* what excuses an event.                                                   *)

Excused(id) == Failed(id) \/ id \in abandoned

LEMMA ExcusedIs ==
  ASSUME TypeOK
  PROVE  /\ ExcusedSet \subseteq EventIds
         /\ \A id \in EventIds : id \in ExcusedSet <=> Excused(id)
BY DEF TypeOK, ExcusedSet, Excused

LEMMA SameView ==
  ASSUME TypeOK, TypeOK', log' = log,
         \A id \in EventIds : /\ InFlight(id)' <=> InFlight(id)
                              /\ HasRow(id)' <=> HasRow(id)
                              /\ Excused(id)' <=> Excused(id)
  PROVE  UNCHANGED <<TopicIds, PendingSet, StoredSet, ExcusedSet>>
<1>1. ExcusedSet' = ExcusedSet
  <2>1. /\ ExcusedSet' \subseteq EventIds
        /\ \A id \in EventIds : id \in ExcusedSet' <=> Excused(id)'
    BY DEF TypeOK, ExcusedSet, Excused
  <2> QED
    BY <2>1, ExcusedIs
<1> QED
  BY <1>1, TopicStable DEF PendingSet, StoredSet

(* An attempt begins. *)
LEMMA IsClaim ==
  ASSUME TypeOK, TypeOK', log' = log, committed' = committed,
         NEW e \in EventIds,
         \E p \in Partitions : \E i \in DOMAIN log[p] : log[p][i].id = e,
         \A id \in EventIds : /\ InFlight(id)' <=> InFlight(id) \/ id = e
                              /\ HasRow(id)' <=> HasRow(id)
                              /\ Excused(id)' <=> Excused(id)
  PROVE  Contract!Claim(e)
<1>1. ExcusedSet' = ExcusedSet
  <2>1. /\ ExcusedSet' \subseteq EventIds
        /\ \A id \in EventIds : id \in ExcusedSet' <=> Excused(id)'
    BY DEF TypeOK, ExcusedSet, Excused
  <2> QED
    BY <2>1, ExcusedIs
<1>2. /\ PendingSet' = PendingSet \union {e}
      /\ StoredSet' = StoredSet
  BY DEF PendingSet, StoredSet
<1>3. Contract!Published(e)
  BY DEF Contract!Published, TopicIds
<1> QED
  BY <1>1, <1>2, <1>3, TopicStable
     DEF Contract!Claim, PendingSet, StoredSet, ExcusedSet

(* An attempt ends, or an event is given up without one. *)
LEMMA IsSettlement ==
  ASSUME TypeOK, TypeOK', log' = log, committed' = committed,
         NEW e \in EventIds,
         \E p \in Partitions : \E i \in DOMAIN log[p] : log[p][i].id = e,
         \A id \in EventIds : id # e =>
           /\ InFlight(id)' <=> InFlight(id)
           /\ HasRow(id)' <=> HasRow(id)
           /\ Excused(id)' <=> Excused(id),
         InFlight(e)' => InFlight(e),
         HasRow(e) => HasRow(e)',
         Excused(e) => Excused(e)',
         HasRow(e)' \/ Excused(e)'
  PROVE  Contract!Settle(e)
<1>1. /\ ExcusedSet' \subseteq EventIds
      /\ \A id \in EventIds : id \in ExcusedSet' <=> Excused(id)'
  BY DEF TypeOK, ExcusedSet, Excused
<1>2. ExcusedSet' \in {ExcusedSet, ExcusedSet \union {e}}
  <2>1. CASE Excused(e)' <=> Excused(e)
    BY <1>1, <2>1, ExcusedIs
  <2>2. CASE Excused(e)' /\ ~Excused(e)
    BY <1>1, <2>2, ExcusedIs
  <2> QED
    BY <2>1, <2>2
<1>3. StoredSet' \in {StoredSet, StoredSet \union {e}}
  <2>1. CASE HasRow(e)' <=> HasRow(e)
    BY <2>1 DEF StoredSet
  <2>2. CASE HasRow(e)' /\ ~HasRow(e)
    BY <2>2 DEF StoredSet
  <2> QED
    BY <2>1, <2>2
<1>4. PendingSet' \in {PendingSet, PendingSet \ {e}}
  <2>1. CASE InFlight(e)' <=> InFlight(e)
    BY <2>1 DEF PendingSet
  <2>2. CASE ~InFlight(e)' /\ InFlight(e)
    BY <2>2 DEF PendingSet
  <2> QED
    BY <2>1, <2>2
<1>5. e \in StoredSet' \union ExcusedSet'
  BY <1>1 DEF StoredSet
<1>6. Contract!Published(e)
  BY DEF Contract!Published, TopicIds
<1> QED
  BY <1>2, <1>3, <1>4, <1>5, <1>6, TopicStable
     DEF Contract!Settle, PendingSet, StoredSet, ExcusedSet

(* Offsets that are committed, or wait to be, may be acknowledged. *)
LEMMA IsAcknowledgement ==
  ASSUME TypeOK, TypeOK', AccountInv, log' = log,
         \A p \in Partitions : \A i \in 1 .. committed'[p] : Handled(p, i),
         \A id \in EventIds : /\ InFlight(id)' <=> InFlight(id)
                              /\ HasRow(id)' <=> HasRow(id)
                              /\ Excused(id)' <=> Excused(id)
  PROVE  Contract!Acknowledge
<1>1. UNCHANGED <<TopicIds, PendingSet, StoredSet, ExcusedSet>>
  BY SameView
<1>2. committed' \in [Partitions -> Nat]
  BY DEF TypeOK
<1>3. ASSUME NEW p \in Partitions
      PROVE  Contract!Covers(p, committed'[p])
  <2>1. Len(TopicIds[p]) = Len(log[p])
    <3>1. TopicIds[p] = [i \in 1 .. Len(log[p]) |-> log[p][i].id]
      BY LogType DEF TopicIds
    <3> QED
      BY <3>1, LogType
  <2>2. committed'[p] \in 0 .. Len(log[p])
    BY LogType DEF TypeOK
  <2>3. ASSUME NEW i \in 1 .. committed'[p]
        PROVE  TopicIds[p][i] \in PendingSet \union StoredSet \union ExcusedSet
    <3>1. i \in 1 .. Len(log[p])
      BY <2>2, LogType
    <3>2. TopicIds[p][i] = log[p][i].id /\ log[p][i].id \in EventIds
      BY <3>1, LogType DEF TopicIds
    <3>3. Accounted(log[p][i].id)
      BY <3>1 DEF AccountInv, AnswersAccounted
    <3> QED
      BY <3>2, <3>3
         DEF Accounted, Settled, PendingSet, StoredSet, ExcusedSet
  <2> QED
    BY <2>1, <2>2, <2>3
       DEF Contract!Covers, Contract!Accounted, PendingSet, StoredSet,
           ExcusedSet
<1> QED
  BY <1>1, <1>2, <1>3
     DEF Contract!Acknowledge, PendingSet, StoredSet, ExcusedSet

-----------------------------------------------------------------------------
(* How a step of one worker shows in InFlight and in Failed. *)

LEMMA FailedAfter ==
  ASSUME TypeOK, log' = log,
         NEW p \in Partitions, NEW i \in 1 .. Len(log[p]), NEW o \in Outcomes,
         results' = results \union {<<p, i, o>>},
         NEW id \in EventIds
  PROVE  /\ Failed(id) => Failed(id)'
         /\ id = log[p][i].id /\ o \in {"error", "garbage"} => Failed(id)'
         /\ Failed(id)' /\ ~Failed(id)
              => id = log[p][i].id /\ o \in {"error", "garbage"}
<1> DEFINE Now == id = log[p][i].id /\ o \in {"error", "garbage"}
<1>1. ASSUME Failed(id)', ~Failed(id)
      PROVE  Now
  <2>1. PICK q \in Partitions : \E j \in DOMAIN log[q] :
          /\ log[q][j].id = id
          /\ <<q, j, "error">> \in results' \/ <<q, j, "garbage">> \in results'
    BY <1>1 DEF Failed
  <2>2. PICK j \in DOMAIN log[q] :
          /\ log[q][j].id = id
          /\ <<q, j, "error">> \in results' \/ <<q, j, "garbage">> \in results'
    BY <2>1
  <2>3. <<q, j, "error">> \notin results /\ <<q, j, "garbage">> \notin results
    BY <1>1, <2>2 DEF Failed
  <2>4. q = p /\ j = i /\ o \in {"error", "garbage"}
    BY <2>2, <2>3
  <2> QED
    BY <2>2, <2>4
<1>2. Failed(id) => Failed(id)'
  BY DEF Failed
<1>3. Now => Failed(id)'
  BY LogType DEF Failed
<1> QED
  BY <1>1, <1>2, <1>3

(* An answer that is not an error leaves it as it is. *)
LEMMA FailedKept ==
  ASSUME TypeOK, log' = log,
         NEW p \in Partitions, NEW i \in 1 .. Len(log[p]),
         NEW o \in {"ok", "duplicate"},
         results' = results \union {<<p, i, o>>},
         NEW id \in EventIds
  PROVE  Failed(id)' <=> Failed(id)
<1>1. o \notin {"error", "garbage"} /\ o \in Outcomes
  BY DEF Outcomes
<1>2. Failed(id) => Failed(id)'
  BY <1>1, FailedAfter
<1>3. Failed(id)' => Failed(id)
  BY <1>1, FailedAfter
<1> QED
  BY <1>2, <1>3

LEMMA InFlightAfter ==
  ASSUME log' = log, NEW w \in Workers,
         \A v \in Workers : v # w => pc'[v] = pc[v] /\ cur'[v] = cur[v],
         NEW id \in EventIds
  PROVE  /\ pc[w] # "insert" /\ pc'[w] # "insert"
              => (InFlight(id)' <=> InFlight(id))
         /\ pc[w] # "insert" /\ pc'[w] = "insert" /\ cur'[w] = cur[w]
              => (InFlight(id)' <=> InFlight(id) \/ id = Msg(w).id)
         /\ pc[w] = "insert" /\ pc'[w] # "insert"
              => /\ id # Msg(w).id => (InFlight(id)' <=> InFlight(id))
                 /\ InFlight(id)' => InFlight(id)
<1> DEFINE Other == \E v \in Workers \ {w} : pc[v] = "insert" /\ Msg(v).id = id
<1>1. InFlight(id) <=> Other \/ (pc[w] = "insert" /\ Msg(w).id = id)
  BY DEF InFlight
<1>2. \A v \in Workers \ {w} :
        (pc'[v] = "insert" /\ Msg(v)'.id = id) <=> (pc[v] = "insert" /\ Msg(v).id = id)
  BY DEF Msg
<1>3. InFlight(id)' <=> Other \/ (pc'[w] = "insert" /\ Msg(w)'.id = id)
  BY <1>2 DEF InFlight
<1>4. cur'[w] = cur[w] => Msg(w)' = Msg(w)
  BY DEF Msg
<1> QED
  BY <1>1, <1>3, <1>4

(* The event in hand is in the topic. *)
LEMMA HeldPublished ==
  ASSUME TypeOK, NEW w \in Workers, pc[w] \notin {"down", "fetch"}
  PROVE  \E p \in Partitions : \E i \in DOMAIN log[p] : log[p][i].id = Msg(w).id
BY HeldMsg, LogType

LEMMA RefFetchMessage ==
  ASSUME TypeOK, TypeOK', NEW w \in Workers, FetchMessage(w)
  PROVE  Contract!Next \/ UNCHANGED Contract!vars
<1>1. PICK p \in Partitions :
        /\ pos[p] < Len(log[p])
        /\ cur' = [cur EXCEPT ![w] = [part |-> p, off |-> pos[p] + 1]]
        /\ \/ pc' = [pc EXCEPT ![w] = "dedup"] /\ results' = results
           \/ /\ pc' = [pc EXCEPT ![w] = "commitErr"]
              /\ \E e \in {"garbage", "error"} :
                   results' = results \union {<<p, pos[p] + 1, e>>}
  BY DEF FetchMessage, Entry
<1>2. /\ pos[p] + 1 \in 1 .. Len(log[p])
      /\ pc[w] = "fetch"
      /\ UNCHANGED <<log, committed, rows, abandoned>>
  BY <1>1, LogType DEF FetchMessage, TypeOK
<1>3. /\ \A v \in Workers : v # w => pc'[v] = pc[v] /\ cur'[v] = cur[v]
      /\ pc'[w] # "insert"
  BY <1>1 DEF TypeOK
<1>4. \A id \in EventIds : /\ InFlight(id)' <=> InFlight(id)
                           /\ HasRow(id)' <=> HasRow(id)
  BY <1>2, <1>3, InFlightAfter DEF HasRow
<1>5. CASE results' = results
  <2>1. \A id \in EventIds : Excused(id)' <=> Excused(id)
    BY <1>2, <1>5 DEF Excused, Failed
  <2> QED
    BY <1>2, <1>4, <2>1, SameView
       DEF Contract!vars, PendingSet, StoredSet, ExcusedSet
<1>6. ASSUME NEW e \in {"garbage", "error"},
             results' = results \union {<<p, pos[p] + 1, e>>}
      PROVE  Contract!Next
  <2> DEFINE id == log[p][pos[p] + 1].id
  <2>1. id \in EventIds /\ e \in Outcomes
    BY <1>2, LogType DEF Outcomes
  <2>2. \A f \in EventIds : Failed(f)' <=> Failed(f) \/ f = id
    BY <1>2, <1>6, <2>1, FailedAfter
  <2>3. \A f \in EventIds : Excused(f)' <=> Excused(f) \/ f = id
    BY <1>2, <2>2 DEF Excused
  <2>4. \E q \in Partitions : \E i \in DOMAIN log[q] : log[q][i].id = id
    BY <1>2, LogType
  <2>5. Contract!Settle(id)
    BY <1>2, <1>4, <2>1, <2>3, <2>4, IsSettlement
  <2> QED
    BY <2>1, <2>5 DEF Contract!Next
<1> QED
  BY <1>1, <1>5, <1>6

LEMMA RefIsDuplicate ==
  ASSUME TypeOK, TypeOK', NEW w \in Workers, IsDuplicate(w)
  PROVE  Contract!Next \/ UNCHANGED Contract!vars
<1> DEFINE m == Msg(w)
<1>1. /\ pc[w] = "dedup"
      /\ m.id \in EventIds
      /\ UNCHANGED <<log, committed, cur, rows>>
  BY MsgType DEF IsDuplicate, kafkaVars
<1>2. \E p \in Partitions : \E i \in DOMAIN log[p] : log[p][i].id = m.id
  BY <1>1, HeldPublished
<1>3. \A id \in EventIds : HasRow(id)' <=> HasRow(id)
  BY <1>1 DEF HasRow
<1>4. CASE Goto(w, "insert") /\ abandoned' = abandoned
  <2>1. /\ pc'[w] = "insert"
        /\ \A v \in Workers : v # w => pc'[v] = pc[v] /\ cur'[v] = cur[v]
    BY <1>1, <1>4 DEF Goto, TypeOK
  <2>2. \A id \in EventIds : InFlight(id)' <=> InFlight(id) \/ id = m.id
    BY <1>1, <2>1, InFlightAfter
  <2>3. \A id \in EventIds : Excused(id)' <=> Excused(id)
    BY <1>1, <1>4 DEF Goto, Excused, Failed
  <2>4. Contract!Claim(m.id)
    BY <1>1, <1>2, <1>3, <2>2, <2>3, IsClaim
  <2> QED
    BY <1>1, <2>4 DEF Contract!Next
<1>5. ASSUME Answer(w, "duplicate", "commit")
      PROVE  \A id \in EventIds : /\ InFlight(id)' <=> InFlight(id)
                                  /\ Failed(id)' <=> Failed(id)
  <2>1. /\ pc'[w] = "commit"
        /\ \A v \in Workers : v # w => pc'[v] = pc[v] /\ cur'[v] = cur[v]
    BY <1>1, <1>5 DEF Answer, TypeOK
  <2>2. \A id \in EventIds : InFlight(id)' <=> InFlight(id)
    BY <1>1, <2>1, InFlightAfter
  <2>3. /\ "duplicate" \in Outcomes
        /\ results' = results \union {<<cur[w].part, cur[w].off, "duplicate">>}
    BY <1>5 DEF Answer, Outcomes
  <2>4. /\ cur[w].part \in Partitions
        /\ cur[w].off \in 1 .. Len(log[cur[w].part])
    BY <1>1, HeldMsg
  <2>5. "duplicate" \in {"ok", "duplicate"}
    OBVIOUS
  <2>6. \A id \in EventIds : Failed(id)' <=> Failed(id)
    BY <1>1, <2>3, <2>4, <2>5, FailedKept
  <2> QED
    BY <2>2, <2>6
<1>6. CASE Answer(w, "duplicate", "commit") /\ abandoned' = abandoned
  <2>1. \A id \in EventIds : Excused(id)' <=> Excused(id)
    BY <1>5, <1>6 DEF Excused
  <2> QED
    BY <1>1, <1>3, <1>5, <1>6, <2>1, SameView
       DEF Contract!vars, PendingSet, StoredSet, ExcusedSet
<1>7. CASE /\ Answer(w, "duplicate", "commit")
           /\ abandoned' = abandoned \union {m.id}
  <2>1. \A id \in EventIds : Excused(id)' <=> Excused(id) \/ id = m.id
    BY <1>5, <1>7 DEF Excused
  <2>2. Contract!Settle(m.id)
    BY <1>1, <1>2, <1>3, <1>5, <1>7, <2>1, IsSettlement
  <2> QED
    BY <1>1, <2>2 DEF Contract!Next
<1> QED
  BY <1>4, <1>6, <1>7
     DEF IsDuplicate, DedupAnswers, DedupFails, DedupResent

LEMMA RefInsertEvent ==
  ASSUME TypeOK, TypeOK', NEW w \in Workers, InsertEvent(w)
  PROVE  Contract!Next
<1> DEFINE m == Msg(w)
<1>1. /\ pc[w] = "insert"
      /\ m.id \in EventIds /\ m \in Message
      /\ UNCHANGED <<log, committed, cur, abandoned>>
      /\ rows' \in {rows, rows \union {m}}
  BY MsgType DEF InsertEvent, InsertAnswers, InsertFails, Inserted, kafkaVars
<1>2. \E p \in Partitions : \E i \in DOMAIN log[p] : log[p][i].id = m.id
  BY <1>1, HeldPublished
<1>3. /\ pc'[w] # "insert"
      /\ \A v \in Workers : v # w => pc'[v] = pc[v] /\ cur'[v] = cur[v]
  BY <1>1 DEF InsertEvent, InsertAnswers, InsertFails, Goto, Answer, TypeOK
<1>4. \A id \in EventIds : /\ id # m.id => (InFlight(id)' <=> InFlight(id))
                           /\ InFlight(id)' => InFlight(id)
  BY <1>1, <1>3, InFlightAfter
<1>5. \A id \in EventIds : /\ id # m.id => (HasRow(id)' <=> HasRow(id))
                           /\ HasRow(id) => HasRow(id)'
  BY <1>1 DEF HasRow
<1>6. CASE InsertAnswers(w)
  <2>1. \A id \in EventIds : Excused(id)' <=> Excused(id)
    BY <1>1, <1>6 DEF InsertAnswers, Goto, Excused, Failed
  <2>2. \A id \in EventIds : id = m.id => HasRow(id)'
    BY <1>6 DEF InsertAnswers, Inserted, HasRow
  <2>3. Contract!Settle(m.id)
    BY <1>1, <1>2, <1>4, <1>5, <2>1, <2>2, IsSettlement
  <2> QED
    BY <1>1, <2>3 DEF Contract!Next
<1>7. CASE InsertFails(w)
  <2>1. /\ "error" \in Outcomes
        /\ results' = results \union {<<cur[w].part, cur[w].off, "error">>}
    BY <1>7 DEF InsertFails, Answer, Outcomes
  <2>2. \A id \in EventIds : Failed(id)' <=> Failed(id) \/ id = m.id
    BY <1>1, <2>1, HeldMsg, FailedAfter
  <2>3. \A id \in EventIds : Excused(id)' <=> Excused(id) \/ id = m.id
    BY <1>1, <2>2 DEF Excused
  <2>4. Contract!Settle(m.id)
    BY <1>1, <1>2, <1>4, <1>5, <2>3, IsSettlement
  <2> QED
    BY <1>1, <2>4 DEF Contract!Next
<1> QED
  BY <1>6, <1>7 DEF InsertEvent

LEMMA RefUpdateCounter ==
  ASSUME TypeOK, TypeOK', NEW w \in Workers, NEW c \in Counters,
         UpdateCounter(w, c)
  PROVE  UNCHANGED Contract!vars
<1>1. /\ pc[w] = c /\ c \notin {"down", "fetch", "insert"}
      /\ UNCHANGED <<log, committed, cur, rows, abandoned>>
  BY DEF UpdateCounter, Counters, kafkaVars
<1>2. \/ results' = results
      \/ results' = results \union {<<cur[w].part, cur[w].off, "ok">>}
  BY DEF UpdateCounter, CounterAnswers, CounterFails, Answer, Goto
<1>3. /\ pc'[w] # "insert"
      /\ \A v \in Workers : v # w => pc'[v] = pc[v] /\ cur'[v] = cur[v]
  BY <1>1 DEF UpdateCounter, CounterAnswers, CounterFails, Goto, Answer,
              NextStage, Counters, TypeOK
<1>4. \A id \in EventIds : /\ InFlight(id)' <=> InFlight(id)
                           /\ HasRow(id)' <=> HasRow(id)
  BY <1>1, <1>3, InFlightAfter DEF HasRow
<1>5. \A id \in EventIds : Failed(id)' <=> Failed(id)
  <2>1. CASE results' = results
    BY <1>1, <2>1 DEF Failed
  <2>2. CASE results' = results \union {<<cur[w].part, cur[w].off, "ok">>}
    <3>1. "ok" \in {"ok", "duplicate"}
      OBVIOUS
    <3>2. /\ cur[w].part \in Partitions
          /\ cur[w].off \in 1 .. Len(log[cur[w].part])
      BY <1>1, HeldMsg
    <3> QED
      BY <1>1, <2>2, <3>1, <3>2, FailedKept
  <2> QED
    BY <1>2, <2>1, <2>2
<1>6. \A id \in EventIds : Excused(id)' <=> Excused(id)
  BY <1>1, <1>5 DEF Excused
<1> QED
  BY <1>1, <1>4, <1>6, SameView
     DEF Contract!vars, PendingSet, StoredSet, ExcusedSet

(* A worker that is not about to store anything stops, or drops its message *)
(* and goes on: only the committed offsets can change.                      *)
LEMMA RefQuiet ==
  ASSUME TypeOK, TypeOK', AccountInv, NEW w \in Workers,
         pc[w] # "insert", pc'[w] # "insert",
         \A v \in Workers : v # w => pc'[v] = pc[v] /\ cur'[v] = cur[v],
         UNCHANGED <<log, rows, results, abandoned>>,
         \A p \in Partitions : \A i \in 1 .. committed'[p] : Handled(p, i)
  PROVE  Contract!Next
<1>1. \A id \in EventIds : /\ InFlight(id)' <=> InFlight(id)
                           /\ HasRow(id)' <=> HasRow(id)
                           /\ Excused(id)' <=> Excused(id)
  BY InFlightAfter DEF HasRow, Excused, Failed
<1> QED
  BY <1>1, IsAcknowledgement DEF Contract!Next

LEMMA RefLeave ==
  ASSUME TypeOK, TypeOK', OffsetInv, AccountInv, NEW w \in Workers, Leave(w),
         pc[w] # "insert"
  PROVE  Contract!Next
<1>1. \A p \in Partitions : \A i \in 1 .. committed'[p] : Handled(p, i)
  BY FlushedHandled DEF Leave, OffsetInv, NoOffsetSkipped
<1>2. /\ pc'[w] = "down"
      /\ \A v \in Workers : v # w => pc'[v] = pc[v] /\ cur'[v] = cur[v]
      /\ UNCHANGED <<log, rows, results, abandoned>>
  BY DEF Leave, Gone, TypeOK
<1> QED
  BY <1>1, <1>2, RefQuiet

LEMMA RefCommitMessages ==
  ASSUME TypeOK, TypeOK', OffsetInv, AccountInv, NEW w \in Workers,
         pc[w] \in {"commit", "commitErr"},
         pc' = [pc EXCEPT ![w] = "fetch"],
         cur' = [cur EXCEPT ![w] = Idle],
         UNCHANGED <<log, committed, rows, results, abandoned>>
  PROVE  Contract!Next
<1>1. /\ pc'[w] = "fetch"
      /\ \A v \in Workers : v # w => pc'[v] = pc[v] /\ cur'[v] = cur[v]
  BY DEF TypeOK
<1>2. \A p \in Partitions : \A i \in 1 .. committed'[p] : Handled(p, i)
  BY DEF OffsetInv, NoOffsetSkipped
<1> QED
  BY <1>1, <1>2, RefQuiet

(* A crash gives up the event that was about to be stored, and only that.   *)
LEMMA RefCrash ==
  ASSUME TypeOK, TypeOK', NEW w \in Workers, Crash(w)
  PROVE  Contract!Next \/ UNCHANGED Contract!vars
<1> DEFINE m == Msg(w)
<1>1. /\ pc'[w] = "down" /\ pc[w] # "down"
      /\ \A v \in Workers : v # w => pc'[v] = pc[v] /\ cur'[v] = cur[v]
      /\ UNCHANGED <<log, committed, rows, results>>
  BY DEF Crash, Gone, Running, TypeOK
<1>2. \A id \in EventIds : /\ HasRow(id)' <=> HasRow(id)
                           /\ Failed(id)' <=> Failed(id)
  BY <1>1 DEF HasRow, Failed
<1>3. CASE pc[w] = "insert"
  <2>1. /\ m.id \in EventIds
        /\ \E p \in Partitions : \E i \in DOMAIN log[p] : log[p][i].id = m.id
    BY <1>3, MsgType, HeldPublished
  <2>2. abandoned' = abandoned \union {m.id}
    BY <1>3 DEF Crash
  <2>3. \A id \in EventIds : Excused(id)' <=> Excused(id) \/ id = m.id
    BY <1>2, <2>2 DEF Excused
  <2>4. \A id \in EventIds : /\ id # m.id => (InFlight(id)' <=> InFlight(id))
                             /\ InFlight(id)' => InFlight(id)
    BY <1>1, <1>3, InFlightAfter
  <2>5. Contract!Settle(m.id)
    BY <1>1, <1>2, <2>1, <2>3, <2>4, IsSettlement
  <2> QED
    BY <2>1, <2>5 DEF Contract!Next
<1>4. CASE pc[w] # "insert"
  <2>1. abandoned' = abandoned
    BY <1>4 DEF Crash
  <2>2. \A id \in EventIds : /\ InFlight(id)' <=> InFlight(id)
                             /\ Excused(id)' <=> Excused(id)
    BY <1>1, <1>2, <1>4, <2>1, InFlightAfter DEF Excused
  <2> QED
    BY <1>1, <1>2, <2>2, SameView
       DEF Contract!vars, PendingSet, StoredSet, ExcusedSet
<1> QED
  BY <1>3, <1>4

(* Steps in which no worker begins or ends an attempt. *)
LEMMA RefElsewhere ==
  ASSUME TypeOK, TypeOK', OffsetInv, AccountInv,
         \A v \in Workers : pc'[v] = pc[v] \/ {pc[v], pc'[v]} = {"down", "fetch"},
         UNCHANGED <<log, cur, rows, results, abandoned>>,
         \A p \in Partitions : \A i \in 1 .. committed'[p] : Handled(p, i)
  PROVE  Contract!Next
<1>1. \A v \in Workers : pc'[v] = "insert" <=> pc[v] = "insert"
  OBVIOUS
<1>2. \A id \in EventIds : InFlight(id)' <=> InFlight(id)
  BY <1>1 DEF InFlight, Msg
<1>3. \A id \in EventIds : /\ HasRow(id)' <=> HasRow(id)
                           /\ Excused(id)' <=> Excused(id)
  BY DEF HasRow, Excused, Failed
<1> QED
  BY <1>2, <1>3, IsAcknowledgement DEF Contract!Next

LEMMA RefNext ==
  TypeOK /\ TypeOK' /\ OffsetInv /\ AccountInv /\ [Next]_vars
    => [Contract!Next]_(Contract!vars)
<1> SUFFICES ASSUME TypeOK, TypeOK', OffsetInv, AccountInv, [Next]_vars
             PROVE  Contract!Next \/ UNCHANGED Contract!vars
  OBVIOUS
<1>1. ASSUME NEW id \in EventIds, NEW ts \in Stamps, Publish(id, ts)
      PROVE  Contract!Next
  BY <1>1, RefPublish DEF Contract!Next
<1>2. ASSUME NEW w \in Workers, FetchMessage(w) \/ Process(w)
      PROVE  Contract!Next \/ UNCHANGED Contract!vars
  BY <1>2, RefFetchMessage, RefIsDuplicate, RefInsertEvent, RefUpdateCounter
     DEF Process
<1>3. ASSUME NEW w \in Workers, CommitMessages(w)
      PROVE  Contract!Next
  BY <1>3, RefCommitMessages DEF CommitMessages, historyVars
<1>4. ASSUME NEW w \in Workers, CommitRefused(w)
      PROVE  Contract!Next
  <2>1. CASE pc[w] = "commit" /\ Leave(w)
    BY <2>1, RefLeave
  <2>2. CASE ~(pc[w] = "commit" /\ Leave(w))
    BY <1>4, <2>2, RefCommitMessages
       DEF CommitRefused, kafkaVars, historyVars
  <2> QED
    BY <2>1, <2>2
<1>5. ASSUME NEW w \in Workers, FetchFails(w)
      PROVE  Contract!Next
  BY <1>5, RefLeave DEF FetchFails
<1>6. ASSUME NEW w \in Workers, Crash(w)
      PROVE  Contract!Next \/ UNCHANGED Contract!vars
  BY <1>6, RefCrash
<1>7. ASSUME NEW w \in Workers, FlushCommits(w)
      PROVE  Contract!Next
  BY <1>7, RefElsewhere, FlushedHandled DEF FlushCommits, historyVars
<1>8. ASSUME NEW w \in Workers, Shutdown(w) \/ Start(w)
      PROVE  Contract!Next
  <2>1. /\ UNCHANGED <<log, cur, committed, rows, results, abandoned>>
        /\ \A v \in Workers :
             pc'[v] = pc[v] \/ {pc[v], pc'[v]} = {"down", "fetch"}
    BY <1>8 DEF Shutdown, Start, kafkaVars, historyVars, TypeOK
  <2> QED
    BY <2>1, RefElsewhere DEF OffsetInv, NoOffsetSkipped
<1>9. CASE TakeOver \/ Rebalance
  <2>1. /\ UNCHANGED <<log, pc, cur, rows, results, abandoned>>
        /\ \A p \in Partitions :
             \/ committed'[p] = committed[p]
             \/ \E w \in Workers : committed'[p] = stash[w][p]
    BY <1>9 DEF TakeOver, Rebalance, Reassign, historyVars
  <2>2. \A p \in Partitions : \A i \in 1 .. committed'[p] : Handled(p, i)
    BY <2>1 DEF OffsetInv, NoOffsetSkipped, StashHandled
  <2> QED
    BY <2>1, <2>2, RefElsewhere
<1>10. ASSUME NEW id \in EventIds, EvictKey(id)
       PROVE  Contract!Next
  BY <1>10, RefElsewhere DEF EvictKey, kafkaVars, OffsetInv, NoOffsetSkipped
<1>11. CASE UNCHANGED vars
  BY <1>11, RefElsewhere DEF vars, OffsetInv, NoOffsetSkipped
<1> QED
  BY <1>1, <1>2, <1>3, <1>4, <1>5, <1>6, <1>7, <1>8, <1>9, <1>10, <1>11
     DEF Next, Consume

(* The consumers keep the contract: every claim is settled by a row or by   *)
(* an excuse on record, and nothing else is ever acknowledged.              *)
THEOREM ConsumerKeepsContract == Spec => ContractSpec
<1>1. Init => TypeOK /\ OffsetInv /\ AccountInv
  BY TypeInit, OffsetInit, AccountInit
<1>2. TypeOK /\ OffsetInv /\ AccountInv /\ [Next]_vars
        => (TypeOK /\ OffsetInv /\ AccountInv)'
  BY TypeNext, OffsetNext, AccountNext
<1> QED
  BY <1>1, <1>2, RefInit, RefNext, PTL DEF Spec, ContractSpec, Contract!Spec

-----------------------------------------------------------------------------
(* What the contract is worth, shown of the contract alone.                 *)

LEMMA AccountedStays ==
  ASSUME [Contract!Next]_(Contract!vars), NEW id, Contract!Accounted(id)
  PROVE  Contract!Accounted(id)'
<1>1. CASE UNCHANGED Contract!vars
  BY <1>1 DEF Contract!vars, Contract!Accounted
<1>2. ASSUME NEW p \in Partitions, NEW e \in EventIds, Contract!Publish(p, e)
      PROVE  Contract!Accounted(id)'
  BY <1>2 DEF Contract!Publish, Contract!Accounted
<1>3. ASSUME NEW e \in EventIds, Contract!Claim(e)
      PROVE  Contract!Accounted(id)'
  BY <1>3 DEF Contract!Claim, Contract!Accounted
<1>4. ASSUME NEW e \in EventIds, Contract!Settle(e)
      PROVE  Contract!Accounted(id)'
  BY <1>4 DEF Contract!Settle, Contract!Accounted
<1>5. CASE Contract!Acknowledge
  BY <1>5 DEF Contract!Acknowledge, Contract!Accounted
<1> QED
  BY <1>1, <1>2, <1>3, <1>4, <1>5 DEF Contract!Next

(* Carried over to the consumers by the refinement: once an event has been  *)
(* taken up, crashes, rebalances and redeliveries included, there is an     *)
(* attempt at it, a row of it or an excuse for it ever after.               *)
THEOREM ConsumerForgetsNothing == Spec => Contract!NothingForgotten
<1>1. [Contract!Next]_(Contract!vars) =>
        \A id \in EventIds : Contract!Accounted(id) => Contract!Accounted(id)'
  BY AccountedStays
<1> QED
  BY <1>1, ConsumerKeepsContract, PTL
     DEF ContractSpec, Contract!Spec, Contract!NothingForgotten

(* Sequences of events, which Publish extends and nothing else changes.     *)
TopicType == TopicIds \in [Partitions -> Seq(EventIds)]

LEMMA TopicStays ==
  ASSUME TopicType, [Contract!Next]_(Contract!vars)
  PROVE  TopicType'
<1>1. CASE TopicIds' = TopicIds
  BY <1>1 DEF TopicType
<1>2. ASSUME NEW q \in Partitions, NEW e \in EventIds, Contract!Publish(q, e)
      PROVE  TopicType'
  BY <1>2 DEF Contract!Publish, TopicType
<1> QED
  BY <1>1, <1>2 DEF Contract!Next, Contract!Claim, Contract!Settle,
                    Contract!Acknowledge, Contract!vars

LEMMA CoversStays ==
  ASSUME TopicType, [Contract!Next]_(Contract!vars), NEW p \in Partitions, NEW n,
         Contract!Covers(p, n)
  PROVE  Contract!Covers(p, n)'
<1>1. /\ n \in 0 .. Len(TopicIds[p])
      /\ \A i \in 1 .. n : Contract!Accounted(TopicIds[p][i])
  BY DEF Contract!Covers
<1>2. \A id : Contract!Accounted(id) => Contract!Accounted(id)'
  BY AccountedStays
<1>3. CASE TopicIds' = TopicIds
  BY <1>1, <1>2, <1>3 DEF Contract!Covers, TopicType
<1>4. ASSUME NEW q \in Partitions, NEW e \in EventIds, Contract!Publish(q, e)
      PROVE  Contract!Covers(p, n)'
  <2>1. TopicIds' = [TopicIds EXCEPT ![q] = Append(@, e)]
    BY <1>4 DEF Contract!Publish
  <2>2. TopicIds \in [Partitions -> Seq(EventIds)]
    BY DEF TopicType
  <2> DEFINE old == TopicIds  new == TopicIds'
  <2>3. old \in [Partitions -> Seq(EventIds)] /\ new = [old EXCEPT ![q] = Append(@, e)]
    BY <2>1, <2>2
  <2>4. n \in 0 .. Len(old[p])
    BY <1>1
  <2> HIDE DEF old, new
  <2>5. new \in [Partitions -> Seq(EventIds)]
    BY <2>3
  <2>6. Len(old[p]) \in Nat /\ Len(new[p]) \in Nat /\ Len(old[p]) <= Len(new[p])
    BY <2>3
  <2>7. \A i \in 1 .. n : new[p][i] = old[p][i]
    BY <2>3, <2>4
  <2>8. n \in 0 .. Len(new[p])
    BY <2>4, <2>6
  <2> QED
    BY <1>1, <1>2, <2>5, <2>7, <2>8 DEF Contract!Covers, TopicType, old, new
<1> QED
  BY <1>3, <1>4 DEF Contract!Next, Contract!Claim, Contract!Settle,
                    Contract!Acknowledge, Contract!vars

(* Whatever keeps the contract acknowledges no message, now or later, that  *)
(* has no attempt at it, no row of it and no excuse for it: the contract    *)
(* alone rules out silent loss.                                             *)
THEOREM ContractAccounts ==
  Contract!Spec => [](TopicType /\ Contract!AckedIsAccounted)
<1>1. Contract!Init => TopicType /\ Contract!AckedIsAccounted
  BY DEF Contract!Init, TopicType, Contract!AckedIsAccounted, Contract!Covers
<1>2. TopicType /\ Contract!AckedIsAccounted /\ [Contract!Next]_(Contract!vars)
        => (TopicType /\ Contract!AckedIsAccounted)'
  <2> SUFFICES ASSUME TopicType, Contract!AckedIsAccounted,
                      [Contract!Next]_(Contract!vars)
               PROVE  (TopicType /\ Contract!AckedIsAccounted)'
    OBVIOUS
  <2>0. TopicType'
    BY TopicStays
  <2>1. CASE committed' = committed
    BY <2>0, <2>1, CoversStays DEF Contract!AckedIsAccounted
  <2>2. CASE Contract!Acknowledge
    BY <2>2 DEF Contract!Acknowledge, Contract!AckedIsAccounted,
                Contract!Covers, Contract!Accounted, TopicType
  <2> QED
    BY <2>1, <2>2 DEF Contract!Next, Contract!Publish, Contract!Claim,
                      Contract!Settle, Contract!vars
<1> QED
  BY <1>1, <1>2, PTL DEF Contract!Spec
=============================================================================
