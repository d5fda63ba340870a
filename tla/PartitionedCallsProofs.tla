------------------------ MODULE PartitionedCallsProofs ------------------------
(***************************************************************************)
(* Theorems about PartitionedCalls, for any consumers, number of days and  *)
(* number of faults.                                                       *)
(***************************************************************************)
EXTENDS PartitionedCalls, TLAPS

(* The table is there once the API server is past its migrations, and so    *)
(* before the first event; an insert comes after the attempt to create the  *)
(* partition, which succeeded or is on record as failed.                    *)
TableInv ==
  /\ KnownExist
  /\ DefaultOnlyAfterFault
  /\ api.stage # "migrate" => migrated
  /\ published # {} => migrated
  /\ \A w \in Consumers : task[w].stage # "idle" => migrated
  /\ \A w \in Consumers : task[w].stage = "insert" => task[w].day \in parts \union failed

PartitionsInv == TypeOK /\ TableInv

-----------------------------------------------------------------------------
LEMMA DayFacts ==
  /\ 0 \in Days
  /\ \A d \in 0 .. LastDay : d \in Days /\ d + 1 \in Days /\ d + 2 \in Days
  /\ \A d \in 0 .. LastDay : \A n \in 0 .. DaysAhead - 1 : d + n \in Days
  /\ Days \subseteq Nat
BY DaysAssumption, SMT DEF Days, DaysAhead

(* What EnsurePartition leaves behind: partitions and the history only      *)
(* grow, and the day has its partition or is on record, once there is a     *)
(* table.                                                                   *)
Ensured(d) ==
  /\ parts \subseteq parts' /\ parts' \subseteq Days
  /\ failed \subseteq failed' /\ failed' \subseteq Days
  /\ known' \in [Processes -> SUBSET Days]
  /\ \A p \in Processes : known'[p] \subseteq parts'
  /\ faults' \in 0 .. MaxFaults
  /\ migrated => d \in parts' \union failed'
  /\ UNCHANGED <<today, migrated, inDefault, published>>

LEMMA EnsurePartitionEnsures ==
  ASSUME PartitionsInv, NEW p \in Processes, NEW d \in Days, EnsurePartition(p, d)
  PROVE  Ensured(d)
<1> USE DEF PartitionsInv, TypeOK, TableInv, KnownExist, DefaultOnlyAfterFault
<1>1. CASE Created(p, d)
  BY <1>1 DEF Created, Creatable, EnsurePartition, Ensured
<1>2. CASE NotEnsured(p, d)
  <2>1. CASE ~Creatable(d) /\ UNCHANGED <<parts, failed, faults, known>>
    BY <2>1 DEF Creatable, EnsurePartition, Ensured
  <2>2. CASE Fault /\ UNCHANGED known
    <3>1. faults' \in 0 .. MaxFaults
      BY <2>2, DaysAssumption DEF Fault
    <3>2. CASE UNCHANGED <<parts, failed, faults>>
      BY <3>1, <3>2, <1>2, <2>2, <2>1 DEF NotEnsured, Fault
    <3>3. CASE failed' = failed \union {d} /\ parts' \in {parts, parts \union {d}}
      BY <3>1, <3>3, <2>2 DEF EnsurePartition, Ensured
    <3> QED
      BY <3>2, <3>3, <1>2, <2>2, <2>1 DEF NotEnsured
  <2> QED
    BY <1>2, <2>1, <2>2 DEF NotEnsured
<1> QED
  BY <1>1, <1>2 DEF EnsurePartition

-----------------------------------------------------------------------------
LEMMA PartitionsInit == Init => PartitionsInv
<1> SUFFICES ASSUME Init PROVE PartitionsInv
  OBVIOUS
<1>1. TypeOK
  <2>1. 0 \in Days /\ 0 \in 0 .. LastDay /\ 0 \in 0 .. MaxFaults /\ 0 \in 0 .. DaysAhead
    BY DayFacts, DaysAssumption DEF DaysAhead
  <2>2. task \in [Consumers -> [stage : {"idle", "ensure", "insert"}, day : Days]]
    BY <2>1 DEF Init, NoTask
  <2>3. sweep \in [Consumers -> [day : 0 .. LastDay, at : 0 .. DaysAhead]]
    BY <2>1 DEF Init
  <2> QED
    BY <2>1, <2>2, <2>3 DEF Init, TypeOK
<1>2. TableInv
  BY DEF Init, TableInv, NoTask, KnownExist, DefaultOnlyAfterFault
<1> QED
  BY <1>1, <1>2 DEF PartitionsInv

LEMMA StartInv == ASSUME PartitionsInv, Start PROVE PartitionsInv'
<1> USE DEF PartitionsInv, TypeOK, TableInv, KnownExist, DefaultOnlyAfterFault
<1>1. CASE RunMigrations
  BY <1>1 DEF RunMigrations
<1>2. CASE EnsureToday
  <2>1. Ensured(api.day)
    BY <1>2, DayFacts, EnsurePartitionEnsures DEF EnsureToday, Processes
  <2> QED
    BY <1>2, <2>1 DEF EnsureToday, ApiAt, Ensured
<1>3. CASE EnsureTomorrow
  <2>1. Ensured(api.day + 1)
    BY <1>3, DayFacts, EnsurePartitionEnsures DEF EnsureTomorrow, Processes
  <2> QED
    BY <1>3, <2>1 DEF EnsureTomorrow, ApiAt, Ensured
<1> QED
  BY <1>1, <1>2, <1>3 DEF Start

LEMMA ProcessInv ==
  ASSUME PartitionsInv, NEW w \in Consumers,
         Process(w) \/ \E d \in EventDays : Take(w, d)
  PROVE  PartitionsInv'
<1> USE DEF PartitionsInv, TypeOK, TableInv, KnownExist, DefaultOnlyAfterFault
<1>1. CASE \E d \in EventDays : Take(w, d)
  BY <1>1, EventDaysAssumption DEF Take, tableVars, Processes
<1>2. CASE EnsureRow(w)
  <2>1. Ensured(task[w].day)
    BY <1>2, EnsurePartitionEnsures DEF EnsureRow, Processes
  <2> QED
    BY <1>2, <2>1 DEF EnsureRow, Ensured
<1>3. CASE InsertEvent(w)
  <2>1. faults' \in 0 .. MaxFaults
    BY <1>3, DaysAssumption DEF InsertEvent, Fault
  <2>2. inDefault' \subseteq failed
    BY <1>3 DEF InsertEvent, Routed
  <2> QED
    BY <1>3, <2>1, <2>2, DayFacts DEF InsertEvent, NoTask
<1> QED
  BY <1>1, <1>2, <1>3 DEF Process

LEMMA MaintainInv ==
  ASSUME PartitionsInv, NEW w \in Consumers, Maintain(w)
  PROVE  PartitionsInv'
<1> USE DEF PartitionsInv, TypeOK, TableInv, KnownExist, DefaultOnlyAfterFault
<1>1. CASE SweepDay(w)
  <2> DEFINE d == sweep[w].day + sweep[w].at
  <2>1. sweep' \in [Consumers -> [day : 0 .. LastDay, at : 0 .. DaysAhead]]
    BY <1>1, DaysAssumption DEF SweepDay, DaysAhead
  <2>2. d \in Days
    BY <1>1, DayFacts DEF SweepDay, DaysAhead
  <2>3. CASE d \in known[w]
    BY <1>1, <2>1, <2>3 DEF SweepDay, tableVars
  <2>4. CASE d \notin known[w]
    <3>1. Ensured(d)
      BY <1>1, <2>2, <2>4, EnsurePartitionEnsures DEF SweepDay, Processes
    <3> QED
      BY <1>1, <2>1, <3>1 DEF SweepDay, Ensured
  <2> QED
    BY <2>3, <2>4
<1>2. CASE BeginSweep(w)
  BY <1>2 DEF BeginSweep, tableVars, DaysAhead
<1> QED
  BY <1>1, <1>2 DEF Maintain

LEMMA OtherInv ==
  ASSUME PartitionsInv,
         \/ RestartApi \/ NextDay
         \/ \E d \in EventDays : Publish(d)
         \/ \E w \in Consumers : RestartConsumer(w)
  PROVE  PartitionsInv'
<1> USE DEF PartitionsInv, TypeOK, TableInv, KnownExist, DefaultOnlyAfterFault
<1>1. CASE RestartApi
  <2>1. faults' \in 0 .. MaxFaults
    BY <1>1, DaysAssumption DEF RestartApi, Fault
  <2> QED
    BY <1>1, <2>1 DEF RestartApi, tableVars
<1>2. CASE NextDay
  BY <1>2, DaysAssumption DEF NextDay, tableVars
<1>3. CASE \E d \in EventDays : Publish(d)
  BY <1>3 DEF Publish, tableVars
<1>4. ASSUME NEW w \in Consumers, RestartConsumer(w) PROVE PartitionsInv'
  <2>1. faults' \in 0 .. MaxFaults
    BY <1>4, DaysAssumption DEF RestartConsumer, Fault
  <2>2. 0 \in Days /\ 0 \in 0 .. DaysAhead
    BY DayFacts DEF DaysAhead
  <2>3. sweep' \in [Consumers -> [day : 0 .. LastDay, at : 0 .. DaysAhead]]
    BY <1>4, <2>2 DEF RestartConsumer
  <2>4. known' \in [Processes -> SUBSET Days] /\ \A p \in Processes : known'[p] \subseteq parts
    BY <1>4 DEF RestartConsumer
  <2> QED
    BY <1>4, <2>1, <2>2, <2>3, <2>4 DEF RestartConsumer, tableVars, NoTask
<1> QED
  BY <1>1, <1>2, <1>3, <1>4

LEMMA PartitionsNext == PartitionsInv /\ [Next]_vars => PartitionsInv'
<1> SUFFICES ASSUME PartitionsInv, [Next]_vars PROVE PartitionsInv'
  OBVIOUS
<1>1. CASE UNCHANGED vars
  BY <1>1 DEF PartitionsInv, TypeOK, TableInv, KnownExist, DefaultOnlyAfterFault,
              vars, tableVars
<1>2. CASE Next
  BY <1>2, StartInv, ProcessInv, MaintainInv, OtherInv DEF Next
<1> QED
  BY <1>1, <1>2

LEMMA AlwaysPartitionsInv == Spec => []PartitionsInv
BY PartitionsInit, PartitionsNext, PTL DEF Spec

-----------------------------------------------------------------------------
(* The state keeps its types, and a maintenance pass its three days. *)
THEOREM TypeCorrect == Spec => []TypeOK
<1>1. PartitionsInv => TypeOK
  BY DEF PartitionsInv
<1> QED
  BY <1>1, AlwaysPartitionsInv, PTL

(* No process ever takes a partition for created that does not exist. *)
THEOREM CacheIsRight == Spec => []KnownExist
<1>1. PartitionsInv => KnownExist
  BY DEF PartitionsInv, TableInv
<1> QED
  BY <1>1, AlwaysPartitionsInv, PTL

(* Without a failed statement for its day, no row is in the default         *)
(* partition, whatever stamps the clients choose.                           *)
THEOREM DefaultIsExcused == Spec => []DefaultOnlyAfterFault
<1>1. PartitionsInv => DefaultOnlyAfterFault
  BY DEF PartitionsInv, TableInv
<1> QED
  BY <1>1, AlwaysPartitionsInv, PTL

(* A consumer that inserts finds the table, though it never waits for the   *)
(* migrations.                                                              *)
THEOREM TableIsThere == Spec => []InsertFindsTable
<1>1. PartitionsInv => InsertFindsTable
  BY DEF PartitionsInv, TableInv, InsertFindsTable
<1> QED
  BY <1>1, AlwaysPartitionsInv, PTL

-----------------------------------------------------------------------------
(* What a step may do to the table: a day is given a partition when none of *)
(* its rows is in the default one, and a row gets there when its day has    *)
(* none.                                                                    *)
TableStep ==
  /\ parts \subseteq parts' /\ inDefault \subseteq inDefault'
  /\ parts = parts' \/ inDefault = inDefault'
  /\ (parts' \ parts) \intersect inDefault = {}
  /\ (inDefault' \ inDefault) \intersect parts = {}

LEMMA EnsureTable ==
  ASSUME NEW p, NEW d, EnsurePartition(p, d)
  PROVE  TableStep
BY DEF EnsurePartition, Created, NotEnsured, Creatable, TableStep

LEMMA TableNext == [Next]_vars => TableStep
<1> SUFFICES ASSUME [Next]_vars PROVE TableStep
  OBVIOUS
<1>1. CASE UNCHANGED vars
  BY <1>1 DEF vars, tableVars, TableStep
<1>2. CASE Start
  BY <1>2, EnsureTable
     DEF Start, RunMigrations, EnsureToday, EnsureTomorrow, TableStep
<1>3. CASE RestartApi \/ NextDay \/ \E d \in EventDays : Publish(d)
  BY <1>3 DEF RestartApi, NextDay, Publish, tableVars, TableStep
<1>4. ASSUME NEW w \in Consumers,
             \/ \E d \in EventDays : Take(w, d)
             \/ BeginSweep(w) \/ RestartConsumer(w)
      PROVE  TableStep
  BY <1>4 DEF Take, BeginSweep, RestartConsumer, tableVars, TableStep
<1>5. ASSUME NEW w \in Consumers, EnsureRow(w)
      PROVE  TableStep
  BY <1>5, EnsureTable DEF EnsureRow
<1>6. ASSUME NEW w \in Consumers, InsertEvent(w)
      PROVE  TableStep
  BY <1>6 DEF InsertEvent, Routed, TableStep
<1>7. ASSUME NEW w \in Consumers, SweepDay(w)
      PROVE  TableStep
  BY <1>7, EnsureTable DEF SweepDay, tableVars, TableStep
<1> QED
  BY <1>1, <1>2, <1>3, <1>4, <1>5, <1>6, <1>7 DEF Next, Process, Maintain

(* A day's rows are never split between its partition and the default one.  *)
THEOREM DaysStayApart == Spec => []DaysApart
<1>1. Init => DaysApart
  BY DEF Init, DaysApart
<1>2. DaysApart /\ TableStep => DaysApart'
  BY DEF DaysApart, TableStep
<1> QED
  BY <1>1, <1>2, TableNext, PTL DEF Spec

(* One row in the default partition keeps its day there for ever: no later  *)
(* pass of the maintenance, restart or other process makes up for it.       *)
THEOREM DefaultBlocksItsDay == Spec => BlockedForGood
<1>1. TableStep => inDefault \ parts \subseteq (inDefault \ parts)'
  BY DEF TableStep
<1> QED
  BY <1>1, TableNext, PTL DEF Spec, BlockedForGood
=============================================================================
