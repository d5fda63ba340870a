------------------------ MODULE RealtimeMetricsProofs ------------------------
(***************************************************************************)
(* Theorems about RealtimeMetrics: the types, the exact answers within the *)
(* window, and what a latency list holds.                                  *)
(***************************************************************************)
EXTENDS RealtimeMetrics, FiniteSetTheorems, TLAPS

USE DEF Stages

(* The minute of a time stamp begins at most a minute before it.            *)
LEMMA BucketType ==
  ASSUME NEW t \in Nat
  PROVE  /\ Bucket(t) \in Nat
         /\ Bucket(t) * Minute <= t
         /\ t < Bucket(t) * Minute + Minute
  BY TimesAssumption, SMTT(20) DEF Bucket

(* A later tick is not in an earlier minute.                                *)
LEMMA BucketMonotonic ==
  ASSUME NEW t \in Nat, NEW u \in Nat, t <= u
  PROVE  Bucket(t) <= Bucket(u)
  BY TimesAssumption, SMTT(20) DEF Bucket

LEMMA LifeType == Life \in Nat
  <1>1. Window + Grace \in Nat /\ Minute \in Nat
    BY TimesAssumption
  <1> QED
    BY <1>1, SMT DEF Life

LEMMA CallFields ==
  ASSUME NEW c \in Calls
  PROVE  /\ Call[c].ts \in Nat
         /\ Call[c].cost \in Int
         /\ Call[c].provider \in Providers
         /\ KeyOf(c) \in Keys
  BY CallAssumption DEF CallType, Providers, Keys

(* What the proofs below rest on besides the types: an update under way is  *)
(* one of a stored call whose stamp the clock has nearly reached.           *)
Underway ==
  /\ clock <= LastTick
  /\ \A w \in Workers : pc[w] # "idle" =>
       /\ task[w] \in rows
       /\ Call[task[w]].ts <= clock + Ahead

(* Hence the minute of the call has a bucket.                               *)
LEMMA TaskMinuteType ==
  ASSUME TypeOK, Underway, NEW w \in Workers, pc[w] # "idle"
  PROVE  /\ TaskMinute(w) \in Minutes
         /\ TaskMinute(w) * Minute <= clock + Ahead
         /\ TaskKey(w) \in Keys
         /\ task[w] \in Calls
  <1>1. task[w] \in Calls
    BY DEF TypeOK
  <1>2. Call[task[w]].ts \in Nat /\ KeyOf(task[w]) \in Keys
    BY <1>1, CallFields
  <1>3. /\ Call[task[w]].ts <= clock + Ahead
        /\ clock + Ahead <= LastTick + Ahead
        /\ clock + Ahead \in Nat /\ LastTick + Ahead \in Nat
    BY TimesAssumption, BoundsAssumption DEF Underway, TypeOK
  <1>4. Bucket(Call[task[w]].ts) <= Bucket(LastTick + Ahead)
    <2>1. Call[task[w]].ts <= LastTick + Ahead
      BY <1>2, <1>3
    <2> QED
      BY <2>1, <1>2, <1>3, BucketMonotonic
  <1>5. Bucket(Call[task[w]].ts) \in Nat /\ Bucket(LastTick + Ahead) \in Nat
    BY <1>2, <1>3, BucketType
  <1>6. TaskMinute(w) \in Minutes
    BY <1>4, <1>5 DEF TaskMinute, Minutes
  <1>7. TaskMinute(w) * Minute <= Call[task[w]].ts
    BY <1>2, BucketType DEF TaskMinute
  <1>8. TaskMinute(w) * Minute \in Nat
    BY <1>5, TimesAssumption, SMT DEF TaskMinute
  <1> QED
    BY <1>1, <1>2, <1>3, <1>6, <1>7, <1>8 DEF TaskKey

LEMMA TrimType ==
  ASSUME NEW list \in Seq(Calls)
  PROVE  KeepLast(list) \in Seq(Calls)
  BY BoundsAssumption DEF KeepLast

-----------------------------------------------------------------------------
(* Types and what is under way, step by step.                               *)

LEMMA TypeInit == Init => TypeOK /\ Underway
  <1> SUFFICES ASSUME Init PROVE TypeOK /\ Underway
    OBVIOUS
  <1>1. (CHOOSE c \in Calls : TRUE) \in Calls
    BY CallAssumption
  <1>2. TypeOK
    BY <1>1 DEF Init, TypeOK
  <1>3. Underway
    BY BoundsAssumption DEF Init, Underway
  <1> QED
    BY <1>2, <1>3

TypeInv == TypeOK /\ Underway

LEMMA TypeStore ==
  ASSUME TypeInv, NEW w \in Workers, NEW c \in Calls, Store(w, c)
  PROVE  TypeInv'
  <1> USE DEF TypeInv, Store, bucketVars, listVars
  <1>1. TypeOK'
    BY DEF TypeOK
  <1>2. Underway'
    BY DEF TypeOK, Underway
  <1> QED
    BY <1>1, <1>2

(* A step of an update keeps what is under way.                             *)
LEMMA UnderwayStep ==
  ASSUME TypeInv, NEW w \in Workers, NEW from, NEW to, from # "idle",
         Step(w, from, to)
  PROVE  Underway'
  BY DEF TypeInv, TypeOK, Underway, Step

LEMMA TypeIncr ==
  ASSUME TypeInv, NEW w \in Workers, Incr(w) PROVE TypeInv'
  <1>1. TaskMinute(w) \in Minutes
    BY TaskMinuteType DEF Incr, Step, TypeInv
  <1>2. TypeOK'
    BY <1>1 DEF TypeInv, TypeOK, Incr, Step, listVars
  <1>3. Underway'
    BY UnderwayStep DEF Incr
  <1> QED
    BY <1>2, <1>3 DEF TypeInv

LEMMA TypeExpireCalls ==
  ASSUME TypeInv, NEW w \in Workers, ExpireCalls(w) PROVE TypeInv'
  <1>1. clock + Life \in Nat
    BY LifeType DEF TypeInv, TypeOK
  <1>2. TypeOK'
    BY <1>1 DEF TypeInv, TypeOK, ExpireCalls, Step, listVars
  <1>3. Underway'
    BY UnderwayStep DEF ExpireCalls
  <1> QED
    BY <1>2, <1>3 DEF TypeInv

LEMMA TypePush ==
  ASSUME TypeInv, NEW w \in Workers, Push(w) PROVE TypeInv'
  <1>1. task[w] \in Calls /\ TaskKey(w) \in Keys
    BY CallFields DEF TypeInv, TypeOK, TaskKey
  <1>2. samples' \in [Keys -> Seq(Calls)] /\ pushed' \in [Keys -> Seq(Calls)]
    <2>1. /\ Append(samples[TaskKey(w)], task[w]) \in Seq(Calls)
          /\ Append(pushed[TaskKey(w)], task[w]) \in Seq(Calls)
      BY <1>1 DEF TypeInv, TypeOK
    <2> QED
      BY <2>1 DEF TypeInv, TypeOK, Push
  <1>3. TypeOK'
    BY <1>2 DEF TypeInv, TypeOK, Push, Step, bucketVars
  <1>4. Underway'
    BY UnderwayStep DEF Push
  <1> QED
    BY <1>3, <1>4 DEF TypeInv

LEMMA TypeTrim ==
  ASSUME TypeInv, NEW w \in Workers, Trim(w) PROVE TypeInv'
  <1>1. samples' \in [Keys -> Seq(Calls)]
    BY TrimType DEF TypeInv, TypeOK, Trim
  <1>2. TypeOK'
    BY <1>1 DEF TypeInv, TypeOK, Trim, Step, bucketVars
  <1>3. Underway'
    BY UnderwayStep DEF Trim
  <1> QED
    BY <1>2, <1>3 DEF TypeInv

LEMMA TypeExpireList ==
  ASSUME TypeInv, NEW w \in Workers, ExpireList(w) PROVE TypeInv'
  <1>1. LatencyLife \in Nat
    BY TimesAssumption, SMT DEF LatencyLife
  <1>2. clock + LatencyLife \in Nat
    BY <1>1 DEF TypeInv, TypeOK
  <1>3. TypeOK'
    BY <1>2 DEF TypeInv, TypeOK, ExpireList, Step, bucketVars
  <1>4. Underway'
    BY UnderwayStep DEF ExpireList
  <1> QED
    BY <1>3, <1>4 DEF TypeInv

LEMMA AddCostType ==
  ASSUME TypeInv, NEW w \in Workers
  PROVE  AddCost(w) \in [Providers -> Int]
  <1>1. task[w] \in Calls
    BY DEF TypeInv, TypeOK
  <1>2. Call[task[w]].cost \in Int /\ Call[task[w]].provider \in Providers
    BY <1>1, CallFields
  <1> QED
    BY <1>2 DEF TypeInv, TypeOK, AddCost

LEMMA TypeIncrCost ==
  ASSUME TypeInv, NEW w \in Workers, IncrCost(w) PROVE TypeInv'
  <1>1. TypeOK'
    BY AddCostType DEF TypeInv, TypeOK, IncrCost, Step, bucketVars, listVars
  <1>2. Underway'
    BY UnderwayStep DEF IncrCost
  <1> QED
    BY <1>1, <1>2 DEF TypeInv

LEMMA TypeAbandon ==
  ASSUME TypeInv, NEW w \in Workers, Abandon(w) PROVE TypeInv'
  <1> USE DEF TypeInv, Abandon, Fault, bucketVars, listVars
  <1>1. task[w] \in rows /\ faults' \in Nat /\ pc' \in [Workers -> Stages]
    BY DEF TypeOK, Underway
  <1>2. TypeOK'
    BY <1>1 DEF TypeOK
  <1>3. Underway'
    BY DEF TypeOK, Underway
  <1> QED
    BY <1>2, <1>3

LEMMA TypeResend ==
  ASSUME TypeInv, NEW w \in Workers, Resend(w) PROVE TypeInv'
  <1>1. /\ pc' \in [Workers -> Stages]
        /\ costs' \in [Providers -> Int]
        /\ \A v \in Workers : pc'[v] # "idle" => pc[v] # "idle"
        /\ pc[w] # "idle"
    <2>1. costs' \in [Providers -> Int]
      <3>1. costs' = costs \/ costs' = AddCost(w)
        BY DEF Resend
      <3>2. AddCost(w) \in [Providers -> Int]
        BY AddCostType
      <3> QED
        BY <3>1, <3>2 DEF TypeInv, TypeOK
    <2>2. pc[w] # "idle"
      BY DEF Resend
    <2>3. /\ pc' \in [Workers -> Stages]
          /\ \A v \in Workers : pc'[v] # "idle" => pc[v] # "idle"
      BY <2>2 DEF TypeInv, TypeOK, Resend, Stages
    <2> QED
      BY <2>1, <2>2, <2>3
  <1>2. /\ disturbed' = disturbed \union {task[w]} /\ faults' = faults + 1
        /\ UNCHANGED <<clock, rows, task, bucketVars, listVars, evicted>>
    BY DEF Resend, Fault
  <1>3. TypeOK'
    BY <1>1, <1>2 DEF TypeInv, TypeOK, Underway, bucketVars, listVars
  <1>4. Underway'
    BY <1>1, <1>2 DEF TypeInv, TypeOK, Underway
  <1> QED
    BY <1>3, <1>4 DEF TypeInv

LEMMA TypeTick ==
  ASSUME TypeInv, Tick PROVE TypeInv'
  <1>1. disturbed' \subseteq rows
    BY DEF TypeInv, TypeOK, Underway, Tick
  <1>2. TypeOK'
    BY <1>1 DEF TypeInv, TypeOK, Tick
  <1>3. Underway'
    <2>1. clock' = clock + 1 /\ clock' <= LastTick
      BY BoundsAssumption DEF Tick, TypeInv, TypeOK
    <2>2. \A w \in Workers : pc[w] # "idle" => Call[task[w]].ts \in Nat
      BY CallFields DEF TypeInv, TypeOK
    <2> QED
      BY <2>1, <2>2, TimesAssumption DEF TypeInv, TypeOK, Underway, Tick
  <1> QED
    BY <1>2, <1>3 DEF TypeInv

LEMMA TypeEvict ==
  ASSUME TypeInv,
         \/ \E m \in Minutes : EvictBucket(m)
         \/ \E k \in Keys : EvictList(k)
         \/ EvictCosts
  PROVE  TypeInv'
  <1> USE DEF TypeInv
  <1>1. Underway'
    BY DEF TypeOK, Underway, EvictBucket, EvictList, EvictCosts
  <1> DEFINE Evictions == [minutes : SUBSET Minutes, keys : SUBSET Keys,
                           costs : BOOLEAN]
  <1>2. ASSUME NEW m \in Minutes, EvictBucket(m) PROVE TypeOK'
    <2>1. evicted' \in Evictions
      BY <1>2 DEF TypeOK, EvictBucket
    <2>2. counts' \in [Minutes -> Nat] /\ dies' \in [Minutes -> Nat]
      BY <1>2 DEF TypeOK, EvictBucket
    <2>3. faults' \in Nat
      BY <1>2 DEF TypeOK, EvictBucket, Fault
    <2> QED
      BY <1>2, <2>1, <2>2, <2>3, Zenon DEF TypeOK, EvictBucket, listVars
  <1>3. ASSUME NEW k \in Keys, EvictList(k) PROVE TypeOK'
    <2>1. evicted' \in Evictions
      BY <1>3 DEF TypeOK, EvictList
    <2>2. /\ samples' \in [Keys -> Seq(Calls)]
          /\ pushed' \in [Keys -> Seq(Calls)]
          /\ fades' \in [Keys -> Nat]
      BY <1>3 DEF TypeOK, EvictList
    <2>3. faults' \in Nat
      BY <1>3 DEF TypeOK, EvictList, Fault
    <2> QED
      BY <1>3, <2>1, <2>2, <2>3, Zenon DEF TypeOK, EvictList, bucketVars
  <1>4. ASSUME EvictCosts PROVE TypeOK'
    <2>1. evicted' \in Evictions
      BY <1>4 DEF TypeOK, EvictCosts
    <2>2. costs' \in [Providers -> Int]
      BY <1>4 DEF TypeOK, EvictCosts
    <2>3. faults' \in Nat
      BY <1>4 DEF TypeOK, EvictCosts, Fault
    <2> QED
      BY <1>4, <2>1, <2>2, <2>3, Zenon DEF TypeOK, EvictCosts, bucketVars,
                                           listVars
  <1> QED
    BY <1>1, <1>2, <1>3, <1>4

LEMMA TypeNext == TypeInv /\ [Next]_vars => TypeInv'
  <1> SUFFICES ASSUME TypeInv, [Next]_vars PROVE TypeInv'
    OBVIOUS
  <1>1. ASSUME NEW w \in Workers, NEW c \in Calls, Store(w, c) PROVE TypeInv'
    BY <1>1, TypeStore
  <1>2. ASSUME NEW w \in Workers,
               Incr(w) \/ ExpireCalls(w) \/ Push(w) \/ Trim(w)
        PROVE  TypeInv'
    BY <1>2, TypeIncr, TypeExpireCalls, TypePush, TypeTrim
  <1>3. ASSUME NEW w \in Workers,
               ExpireList(w) \/ IncrCost(w) \/ Abandon(w) \/ Resend(w)
        PROVE  TypeInv'
    BY <1>3, TypeExpireList, TypeIncrCost, TypeAbandon, TypeResend
  <1>4. CASE Tick
    BY <1>4, TypeTick
  <1>5. CASE \/ \E m \in Minutes : EvictBucket(m)
             \/ \E k \in Keys : EvictList(k)
             \/ EvictCosts
    BY <1>5, TypeEvict
  <1>6. CASE UNCHANGED vars
    BY <1>6 DEF vars, TypeInv, TypeOK, Underway
  <1> QED
    BY <1>1, <1>2, <1>3, <1>4, <1>5, <1>6 DEF Next

(* The state keeps its types, whatever interleaves and fails.               *)
THEOREM TypeCorrect == Spec => []TypeOK
  <1>1. Init => TypeInv
    BY TypeInit DEF TypeInv
  <1>2. TypeInv => TypeOK
    BY DEF TypeInv
  <1> QED
    BY <1>1, <1>2, TypeNext, PTL DEF Spec

-----------------------------------------------------------------------------
(* Exact answers within the window.                                         *)

(* The last tick at which a bucket is sure to be there, plus Ahead.         *)
Due(m) == m * Minute + Life

(* A deadline is never before the minute is due; what a bucket has lost, it *)
(* lost by then.                                                            *)
WindowInv ==
  /\ \A m \in Minutes : dies[m] # 0 => Due(m) <= dies[m] + Ahead
  /\ \A m \in Minutes : counts[m] <= applied[m]
  /\ \A m \in Minutes \ evicted.minutes :
       counts[m] = applied[m] \/ Due(m) <= clock + Ahead

LEMMA DueType == \A m \in Minutes : m \in Nat /\ m * Minute \in Nat /\ Due(m) \in Nat
  <1> SUFFICES ASSUME NEW m \in Minutes
               PROVE  m \in Nat /\ m * Minute \in Nat /\ Due(m) \in Nat
    OBVIOUS
  <1>1. m \in Nat
    BY BoundsAssumption, TimesAssumption, BucketType DEF Minutes
  <1>2. m * Minute \in Nat
    BY <1>1, TimesAssumption, SMT
  <1> QED
    BY <1>1, <1>2, LifeType DEF Due

LEMMA WindowInit == Init => WindowInv
  BY DEF Init, WindowInv

LEMMA WindowIncr ==
  ASSUME TypeInv, WindowInv, NEW w \in Workers, Incr(w)
  PROVE  WindowInv'
  <1>1. TaskMinute(w) \in Minutes
    BY TaskMinuteType DEF Incr, Step, TypeInv
  <1> QED
    BY <1>1 DEF TypeInv, TypeOK, WindowInv, Incr, Step

LEMMA WindowExpireCalls ==
  ASSUME TypeInv, WindowInv, NEW w \in Workers, ExpireCalls(w)
  PROVE  WindowInv'
  <1>1. /\ TaskMinute(w) \in Minutes
        /\ TaskMinute(w) * Minute <= clock + Ahead
    BY TaskMinuteType DEF ExpireCalls, Step, TypeInv
  <1>2. Due(TaskMinute(w)) <= clock + Life + Ahead
    BY <1>1, DueType, LifeType, TimesAssumption DEF Due, TypeInv, TypeOK
  <1>3. UNCHANGED <<clock, counts, applied, evicted>>
    BY DEF ExpireCalls, Step
  <1>4. \A m \in Minutes :
          dies'[m] = dies[m] \/ (m = TaskMinute(w) /\ dies'[m] = clock + Life)
    BY <1>1 DEF ExpireCalls, TypeInv, TypeOK
  <1> QED
    BY <1>2, <1>3, <1>4 DEF WindowInv

(* A bucket that reaches its deadline is due.                               *)
LEMMA WindowTick ==
  ASSUME TypeInv, WindowInv, Tick
  PROVE  WindowInv'
  <1>1. /\ clock' = clock + 1 /\ clock \in Nat /\ Ahead \in Nat
        /\ UNCHANGED <<applied, evicted>>
    BY TimesAssumption DEF Tick, TypeInv, TypeOK
  <1>2. ASSUME NEW m \in Minutes
        PROVE  \/ dies[m] = clock + 1 /\ dies'[m] = 0 /\ counts'[m] = 0
               \/ dies[m] # clock + 1 /\ dies'[m] = dies[m] /\ counts'[m] = counts[m]
    BY DEF Tick
  <1>3. \A m \in Minutes : counts[m] \in Nat /\ applied[m] \in Nat /\ dies[m] \in Nat
    BY DEF TypeInv, TypeOK
  <1>4. \A m \in Minutes : dies'[m] # 0 => Due(m) <= dies'[m] + Ahead
    BY <1>2 DEF WindowInv
  <1>5. \A m \in Minutes : counts'[m] <= applied'[m]
    BY <1>1, <1>2, <1>3 DEF WindowInv
  <1>6. ASSUME NEW m \in Minutes \ evicted'.minutes
        PROVE  counts'[m] = applied'[m] \/ Due(m) <= clock' + Ahead
    <2>1. Due(m) \in Nat
      BY DueType
    <2>2. CASE dies[m] = clock + 1
      <3>1. Due(m) <= clock + 1 + Ahead
        BY <1>1, <2>2 DEF WindowInv
      <3> QED
        BY <1>1, <3>1
    <2>3. CASE dies[m] # clock + 1
      BY <1>1, <1>2, <2>1, <2>3 DEF WindowInv
    <2> QED
      BY <2>2, <2>3
  <1> QED
    BY <1>4, <1>5, <1>6 DEF WindowInv

LEMMA WindowEvict ==
  ASSUME TypeInv, WindowInv, NEW n \in Minutes, EvictBucket(n)
  PROVE  WindowInv'
  <1>1. /\ UNCHANGED <<clock, applied>>
        /\ evicted'.minutes = evicted.minutes \union {n}
    BY DEF EvictBucket, TypeInv, TypeOK, bucketVars
  <1>2. \A m \in Minutes :
          IF m = n THEN counts'[m] = 0 /\ dies'[m] = 0
                   ELSE counts'[m] = counts[m] /\ dies'[m] = dies[m]
    BY DEF EvictBucket, TypeInv, TypeOK
  <1>3. \A m \in Minutes : applied[m] \in Nat
    BY DEF TypeInv, TypeOK
  <1> QED
    BY <1>1, <1>2, <1>3 DEF WindowInv

(* The other steps do not touch a bucket.                                   *)
LEMMA WindowOther ==
  ASSUME WindowInv, UNCHANGED <<clock, bucketVars>>,
         evicted'.minutes = evicted.minutes
  PROVE  WindowInv'
  BY DEF WindowInv, bucketVars

LEMMA WindowNext == TypeInv /\ WindowInv /\ [Next]_vars => WindowInv'
  <1> SUFFICES ASSUME TypeInv, WindowInv, [Next]_vars PROVE WindowInv'
    OBVIOUS
  <1>1. ASSUME NEW w \in Workers, NEW c \in Calls,
               Store(w, c) \/ Push(w) \/ Trim(w) \/ ExpireList(w)
               \/ IncrCost(w) \/ Abandon(w) \/ Resend(w)
        PROVE  WindowInv'
    <2>1. UNCHANGED <<clock, bucketVars, evicted>>
      BY <1>1 DEF Store, Push, Trim, ExpireList, IncrCost, Abandon, Resend, Step
    <2> QED
      BY <2>1, WindowOther
  <1>2. ASSUME NEW w \in Workers, Incr(w) \/ ExpireCalls(w) PROVE WindowInv'
    BY <1>2, WindowIncr, WindowExpireCalls
  <1>3. CASE Tick
    BY <1>3, WindowTick
  <1>4. ASSUME NEW m \in Minutes, EvictBucket(m) PROVE WindowInv'
    BY <1>4, WindowEvict
  <1>5. ASSUME NEW k \in Keys, EvictList(k) PROVE WindowInv'
    <2>1. UNCHANGED <<clock, bucketVars>> /\ evicted'.minutes = evicted.minutes
      BY <1>5 DEF EvictList, TypeInv, TypeOK
    <2> QED
      BY <2>1, WindowOther
  <1>6. CASE EvictCosts
    <2>1. UNCHANGED <<clock, bucketVars>> /\ evicted'.minutes = evicted.minutes
      BY <1>6 DEF EvictCosts, TypeInv, TypeOK
    <2> QED
      BY <2>1, WindowOther
  <1>7. CASE UNCHANGED vars
    BY <1>7, WindowOther DEF vars, bucketVars
  <1>8. PICK c \in Calls : TRUE
    BY CallAssumption
  <1> QED
    BY <1>1, <1>2, <1>3, <1>4, <1>5, <1>6, <1>7, <1>8 DEF Next

(* The arithmetic of the window: a minute a read may name is not due.       *)
LEMMA NamedNotDue ==
  ASSUME TypeInv, NEW start \in Starts, NEW m \in Minutes,
         Bucket(start) <= m + Window
  PROVE  clock + Ahead < Due(m)
  <1> DEFINE b == Bucket(start)
  <1>1. start \in Nat /\ clock \in Nat /\ clock <= start + Skew
    BY DEF Starts, TypeInv, TypeOK
  <1>2. b \in Nat /\ start < b * Minute + Minute
    BY <1>1, BucketType
  <1>3. /\ Minute \in Nat \ {0} /\ Window \in Nat /\ Grace \in Nat
        /\ Ahead \in Nat /\ Skew \in Nat /\ m \in Nat
    BY TimesAssumption, DueType
  <1>4. b * Minute <= m * Minute + Window * Minute
    <2> HIDE DEF b
    <2>1. \A x, y, z \in Nat : x <= y => x * z <= y * z
      BY SMT
    <2>2. b * Minute <= (m + Window) * Minute
      BY <2>1, <1>2, <1>3 DEF b
    <2> QED
      BY <2>2, <1>2, <1>3, SMT
  <1>5. Due(m) = m * Minute + Window * Minute + Grace * Minute
    BY <1>3, SMT DEF Due, Life
  <1>6. Ahead + Skew + Minute <= Grace * Minute
    BY <1>3, GraceAssumption, SMT
  <1>7. /\ m * Minute \in Nat /\ Window * Minute \in Nat
        /\ Grace * Minute \in Nat /\ b * Minute \in Nat
    BY <1>2, <1>3, SMT
  <1> HIDE DEF b
  <1> QED
    BY <1>1, <1>2, <1>3, <1>4, <1>5, <1>6, <1>7

LEMMA WindowInvExact == TypeInv /\ WindowInv => WindowExact
  <1> SUFFICES ASSUME TypeInv, WindowInv, NEW start \in Starts,
                      NEW n \in 0 .. Window, NEW i \in 1 .. n,
                      Oldest(start, n) + i - 1 \in Minutes
               PROVE  LET m == Oldest(start, n) + i - 1 IN
                      /\ counts[m] <= applied[m]
                      /\ m \notin evicted.minutes => counts[m] = applied[m]
    BY DEF WindowExact, CallsPerMinute
  <1> DEFINE m == Oldest(start, n) + i - 1
  <1>1. start \in Nat /\ Window \in Nat
    BY TimesAssumption DEF Starts
  <1>2. Bucket(start) <= m + Window
    BY <1>1, BucketType DEF Oldest
  <1>3. m \in Minutes
    OBVIOUS
  <1>4. clock + Ahead < Due(m)
    <2> HIDE DEF m
    <2> QED
      BY <1>2, <1>3, NamedNotDue
  <1>5. Due(m) \in Nat /\ clock + Ahead \in Nat
    <2> HIDE DEF m
    <2> QED
      BY <1>3, DueType, TimesAssumption DEF TypeInv, TypeOK
  <1> HIDE DEF m
  <1>6. counts[m] <= applied[m] /\ (m \notin evicted.minutes => counts[m] = applied[m])
    BY <1>3, <1>4, <1>5 DEF WindowInv
  <1> QED
    BY <1>6 DEF m

(* For every window, grace, skew and number of workers: as long as stamps   *)
(* and reads stay within the grace, the answer for a full minute counts     *)
(* each increment and nothing else.                                         *)
THEOREM WindowIsExact == Spec => []WindowExact
  <1>1. Init => TypeInv /\ WindowInv
    BY TypeInit, WindowInit DEF TypeInv
  <1> QED
    BY <1>1, TypeNext, WindowNext, WindowInvExact, PTL DEF Spec

-----------------------------------------------------------------------------
(* What a latency list holds.                                               *)

(* The list s is the end of the history t.                                  *)
EndOf(s, t) ==
  /\ Len(s) <= Len(t)
  /\ \A i \in 1 .. Len(s) : s[i] = t[Len(t) - Len(s) + i]

LEMMA EndOfAppend ==
  ASSUME NEW s \in Seq(Calls), NEW t \in Seq(Calls), NEW c \in Calls, EndOf(s, t)
  PROVE  EndOf(Append(s, c), Append(t, c))
  <1> DEFINE u == Append(s, c)
             v == Append(t, c)
  <1>1. Len(u) = Len(s) + 1 /\ Len(v) = Len(t) + 1
    OBVIOUS
  <1>2. ASSUME NEW i \in 1 .. Len(u) PROVE u[i] = v[Len(v) - Len(u) + i]
    <2>1. CASE i = Len(u)
      BY <2>1, <1>1
    <2>2. CASE i \in 1 .. Len(s)
      <3>1. u[i] = s[i]
        BY <2>2
      <3>2. v[Len(t) - Len(s) + i] = t[Len(t) - Len(s) + i]
        BY <2>2 DEF EndOf
      <3> QED
        BY <3>1, <3>2, <2>2, <1>1 DEF EndOf
    <2>3. i = Len(u) \/ i \in 1 .. Len(s)
      <3>1. i \in Int /\ 1 <= i /\ i <= Len(s) + 1 /\ Len(s) \in Nat
        BY <1>1
      <3> QED
        BY <3>1, <1>1
    <2> QED
      BY <2>1, <2>2, <2>3
  <1>3. Len(u) <= Len(v)
    BY <1>1 DEF EndOf
  <1> HIDE DEF u, v
  <1>4. EndOf(u, v)
    BY <1>2, <1>3 DEF EndOf
  <1> QED
    BY <1>4 DEF u, v

LEMMA EndOfTrim ==
  ASSUME NEW s \in Seq(Calls), NEW t \in Seq(Calls), EndOf(s, t)
  PROVE  /\ EndOf(KeepLast(s), t)
         /\ Len(KeepLast(s)) = IF Len(s) <= MaxSamples THEN Len(s) ELSE MaxSamples
  <1> MaxSamples \in Nat \ {0}
    BY BoundsAssumption
  <1>1. CASE Len(s) <= MaxSamples
    BY <1>1 DEF KeepLast
  <1>2. CASE Len(s) > MaxSamples
    <2> DEFINE u == SubSeq(s, Len(s) - MaxSamples + 1, Len(s))
    <2>1. KeepLast(s) = u
      BY <1>2 DEF KeepLast
    <2>2. Len(u) = MaxSamples
      BY <1>2
    <2>3. ASSUME NEW i \in 1 .. MaxSamples PROVE u[i] = s[Len(s) - MaxSamples + i]
      BY <1>2
    <2>4. EndOf(u, t)
      BY <1>2, <2>2, <2>3 DEF EndOf
    <2> QED
      BY <1>2, <2>1, <2>2, <2>4
  <1> QED
    BY <1>1, <1>2

LEMMA EndOfSubSeq ==
  ASSUME NEW s \in Seq(Calls), NEW t \in Seq(Calls), EndOf(s, t)
  PROVE  s = SubSeq(t, Len(t) - Len(s) + 1, Len(t))
  <1> DEFINE u == SubSeq(t, Len(t) - Len(s) + 1, Len(t))
  <1>1. u \in Seq(Calls) /\ Len(u) = Len(s)
    BY DEF EndOf
  <1>2. \A i \in 1 .. Len(s) : u[i] = t[Len(t) - Len(s) + i]
    BY DEF EndOf
  <1>3. \A i \in 1 .. Len(s) : u[i] = s[i]
    BY <1>2 DEF EndOf
  <1> QED
    BY <1>1, <1>3

ListInv ==
  \A k \in Keys :
    /\ EndOf(samples[k], pushed[k])
    /\ Len(samples[k]) >= MaxSamples \/ Len(samples[k]) = Len(pushed[k])

LEMMA ListInit == Init => ListInv
  BY DEF Init, ListInv, EndOf

LEMMA ListPush ==
  ASSUME TypeInv, ListInv, NEW w \in Workers, Push(w)
  PROVE  ListInv'
  <1> DEFINE key == TaskKey(w)
  <1>1. task[w] \in Calls /\ key \in Keys
    BY CallFields DEF TypeInv, TypeOK, TaskKey
  <1>2. /\ samples' = [samples EXCEPT ![key] = Append(@, task[w])]
        /\ pushed' = [pushed EXCEPT ![key] = Append(@, task[w])]
    BY DEF Push
  <1> HIDE DEF key
  <1>3. \A k \in Keys : samples[k] \in Seq(Calls) /\ pushed[k] \in Seq(Calls)
    BY DEF TypeInv, TypeOK
  <1>4. ASSUME NEW k \in Keys
        PROVE  /\ EndOf(samples'[k], pushed'[k])
               /\ \/ Len(samples'[k]) >= MaxSamples
                  \/ Len(samples'[k]) = Len(pushed'[k])
    <2>1. CASE k = key
      <3>1. /\ samples'[k] = Append(samples[k], task[w])
            /\ pushed'[k] = Append(pushed[k], task[w])
        BY <1>1, <1>2, <2>1 DEF TypeInv, TypeOK
      <3>2. /\ Len(samples'[k]) = Len(samples[k]) + 1
            /\ Len(pushed'[k]) = Len(pushed[k]) + 1
            /\ Len(samples[k]) \in Nat
        BY <3>1, <1>1, <1>3
      <3>3. EndOf(samples'[k], pushed'[k])
        BY <3>1, <1>1, <1>3, EndOfAppend DEF ListInv
      <3> QED
        BY <3>2, <3>3, BoundsAssumption DEF ListInv
    <2>2. CASE k # key
      <3>1. samples'[k] = samples[k] /\ pushed'[k] = pushed[k]
        BY <1>2, <2>2 DEF TypeInv, TypeOK
      <3> QED
        BY <3>1 DEF ListInv
    <2> QED
      BY <2>1, <2>2
  <1> QED
    BY <1>4 DEF ListInv

LEMMA ListTrim ==
  ASSUME TypeInv, ListInv, NEW w \in Workers, Trim(w)
  PROVE  ListInv'
  <1> DEFINE key == TaskKey(w)
  <1>1. key \in Keys
    BY CallFields DEF TypeInv, TypeOK, TaskKey
  <1>2. samples' = [samples EXCEPT ![key] = KeepLast(@)] /\ pushed' = pushed
    BY DEF Trim
  <1> HIDE DEF key
  <1>3. \A k \in Keys : samples[k] \in Seq(Calls) /\ pushed[k] \in Seq(Calls)
    BY DEF TypeInv, TypeOK
  <1>4. ASSUME NEW k \in Keys
        PROVE  /\ EndOf(samples'[k], pushed'[k])
               /\ \/ Len(samples'[k]) >= MaxSamples
                  \/ Len(samples'[k]) = Len(pushed'[k])
    <2>1. CASE k = key
      <3>1. samples'[k] = KeepLast(samples[k]) /\ pushed'[k] = pushed[k]
        BY <1>1, <1>2, <2>1 DEF TypeInv, TypeOK
      <3>2. /\ EndOf(KeepLast(samples[k]), pushed[k])
            /\ Len(KeepLast(samples[k])) = IF Len(samples[k]) <= MaxSamples
                                           THEN Len(samples[k]) ELSE MaxSamples
        BY <1>3, EndOfTrim DEF ListInv
      <3> QED
        BY <3>1, <3>2, <1>3, BoundsAssumption DEF ListInv
    <2>2. CASE k # key
      <3>1. samples'[k] = samples[k] /\ pushed'[k] = pushed[k]
        BY <1>2, <2>2 DEF TypeInv, TypeOK
      <3> QED
        BY <3>1 DEF ListInv
    <2> QED
      BY <2>1, <2>2
  <1> QED
    BY <1>4 DEF ListInv

(* Any other step leaves a list alone or empties it with its history.       *)
LEMMA ListOther ==
  ASSUME ListInv,
         \A k \in Keys : \/ samples'[k] = samples[k] /\ pushed'[k] = pushed[k]
                         \/ samples'[k] = << >> /\ pushed'[k] = << >>
  PROVE  ListInv'
  <1>1. EndOf(<< >>, << >>)
    BY DEF EndOf
  <1> QED
    BY <1>1 DEF ListInv

LEMMA ListNext == TypeInv /\ ListInv /\ [Next]_vars => ListInv'
  <1> SUFFICES ASSUME TypeInv, ListInv, [Next]_vars PROVE ListInv'
    OBVIOUS
  <1>1. ASSUME NEW w \in Workers, NEW c \in Calls,
               Store(w, c) \/ Incr(w) \/ ExpireCalls(w) \/ ExpireList(w)
               \/ IncrCost(w) \/ Abandon(w) \/ Resend(w)
        PROVE  ListInv'
    <2>1. UNCHANGED <<samples, pushed>>
      BY <1>1 DEF Store, Incr, ExpireCalls, ExpireList, IncrCost, Abandon,
                  Resend, listVars
    <2> QED
      BY <2>1, ListOther
  <1>2. ASSUME NEW w \in Workers, Push(w) \/ Trim(w) PROVE ListInv'
    BY <1>2, ListPush, ListTrim
  <1>3. CASE Tick
    BY <1>3, ListOther DEF Tick
  <1>4. ASSUME NEW m \in Minutes, EvictBucket(m) PROVE ListInv'
    BY <1>4, ListOther DEF EvictBucket, listVars
  <1>5. ASSUME NEW k \in Keys, EvictList(k) PROVE ListInv'
    BY <1>5, ListOther DEF EvictList, TypeInv, TypeOK
  <1>6. CASE EvictCosts
    BY <1>6, ListOther DEF EvictCosts, listVars
  <1>7. CASE UNCHANGED vars
    BY <1>7, ListOther DEF vars
  <1>8. PICK c \in Calls : TRUE
    BY CallAssumption
  <1> QED
    BY <1>1, <1>2, <1>3, <1>4, <1>5, <1>6, <1>7, <1>8 DEF Next

LEMMA ListInvLatest == TypeInv /\ ListInv => LatestSamples
  <1> SUFFICES ASSUME TypeInv, ListInv, NEW k \in Keys
               PROVE  LET n == Len(samples[k])
                          all == Len(pushed[k])
                      IN /\ n <= all
                         /\ n >= MaxSamples \/ n = all
                         /\ samples[k] = SubSeq(pushed[k], all - n + 1, all)
    BY DEF LatestSamples
  <1>1. samples[k] \in Seq(Calls) /\ pushed[k] \in Seq(Calls)
    BY DEF TypeInv, TypeOK
  <1>2. samples[k] = SubSeq(pushed[k], Len(pushed[k]) - Len(samples[k]) + 1,
                            Len(pushed[k]))
    BY <1>1, EndOfSubSeq DEF ListInv
  <1> QED
    BY <1>2 DEF ListInv, EndOf

(* For every limit and any interleaving of pipelines, a list is the end of  *)
(* its push history and never shorter than the limit while it may be longer.*)
THEOREM ListsAreLatest == Spec => []LatestSamples
  <1>1. Init => TypeInv /\ ListInv
    BY TypeInit, ListInit DEF TypeInv
  <1> QED
    BY <1>1, TypeNext, ListNext, ListInvLatest, PTL DEF Spec

-----------------------------------------------------------------------------
(* Keys have deadlines.                                                     *)

(* A key without a deadline, and what accounts for it.                      *)
OpenBucket(m) == counts[m] # 0 /\ dies[m] = 0
OpenList(k) == samples[k] # << >> /\ fades[k] = 0

BucketAccounted(m) ==
  \/ \E w \in Workers : pc[w] = "expireCalls" /\ TaskMinute(w) = m
  \/ \E c \in disturbed : Bucket(Call[c].ts) = m

ListAccounted(k) ==
  \/ \E w \in Workers : pc[w] \in {"trim", "expireList"} /\ TaskKey(w) = k
  \/ \E c \in disturbed : KeyOf(c) = k

BucketsClosed == \A m \in Minutes : OpenBucket(m) => BucketAccounted(m)
ListsClosed == \A k \in Keys : OpenList(k) => ListAccounted(k)

(* A step that opens no bucket, and from which no worker walks away without *)
(* a deadline or a trace.                                                   *)
LEMMA BucketsKept ==
  ASSUME BucketsClosed, disturbed \subseteq disturbed',
         \A m \in Minutes : OpenBucket(m)' => OpenBucket(m),
         \A w \in Workers : pc[w] = "expireCalls" =>
            \/ pc'[w] = "expireCalls" /\ task'[w] = task[w]
            \/ task[w] \in disturbed'
            \/ counts'[TaskMinute(w)] = 0 \/ dies'[TaskMinute(w)] # 0
  PROVE  BucketsClosed'
  <1> SUFFICES ASSUME NEW m \in Minutes, OpenBucket(m)'
               PROVE  BucketAccounted(m)'
    BY DEF BucketsClosed
  <1>1. BucketAccounted(m)
    BY DEF BucketsClosed
  <1>2. ASSUME NEW w \in Workers, pc[w] = "expireCalls", TaskMinute(w) = m
        PROVE  BucketAccounted(m)'
    <2>1. \/ pc'[w] = "expireCalls" /\ task'[w] = task[w]
          \/ task[w] \in disturbed'
      BY <1>2 DEF OpenBucket, TaskMinute
    <2> QED
      BY <1>2, <2>1 DEF BucketAccounted, TaskMinute
  <1> QED
    BY <1>1, <1>2 DEF BucketAccounted

LEMMA ListsKept ==
  ASSUME ListsClosed, disturbed \subseteq disturbed',
         \A k \in Keys : OpenList(k)' => OpenList(k),
         \A w \in Workers : pc[w] \in {"trim", "expireList"} =>
            \/ pc'[w] \in {"trim", "expireList"} /\ task'[w] = task[w]
            \/ task[w] \in disturbed'
            \/ samples'[TaskKey(w)] = << >> \/ fades'[TaskKey(w)] # 0
  PROVE  ListsClosed'
  <1> SUFFICES ASSUME NEW k \in Keys, OpenList(k)'
               PROVE  ListAccounted(k)'
    BY DEF ListsClosed
  <1>1. ListAccounted(k)
    BY DEF ListsClosed
  <1>2. ASSUME NEW w \in Workers, pc[w] \in {"trim", "expireList"},
               TaskKey(w) = k
        PROVE  ListAccounted(k)'
    <2>1. \/ pc'[w] \in {"trim", "expireList"} /\ task'[w] = task[w]
          \/ task[w] \in disturbed'
      BY <1>2 DEF OpenList
    <2> QED
      BY <1>2, <2>1 DEF ListAccounted, TaskKey
  <1> QED
    BY <1>1, <1>2 DEF ListAccounted

ClosedInv == BucketsClosed /\ ListsClosed

LEMMA ClosedStore ==
  ASSUME TypeInv, ClosedInv, NEW w \in Workers, NEW c \in Calls, Store(w, c)
  PROVE  ClosedInv'
  <1>1. /\ UNCHANGED <<counts, dies, samples, fades, disturbed>>
        /\ pc[w] = "idle"
        /\ \A v \in Workers : v # w => pc'[v] = pc[v] /\ task'[v] = task[v]
    BY DEF Store, bucketVars, listVars, TypeInv, TypeOK
  <1>2. BucketsClosed'
    BY <1>1, BucketsKept DEF ClosedInv, OpenBucket
  <1>3. ListsClosed'
    BY <1>1, ListsKept DEF ClosedInv, OpenList
  <1> QED
    BY <1>2, <1>3 DEF ClosedInv

(* A step of w leaves the other workers where they are.                     *)
LEMMA OthersStay ==
  ASSUME TypeInv, NEW w \in Workers, NEW from, NEW to, Step(w, from, to)
  PROVE  /\ pc[w] = from /\ pc'[w] = to /\ task' = task
         /\ \A v \in Workers : v # w => pc'[v] = pc[v]
  BY DEF Step, TypeInv, TypeOK

LEMMA ClosedIncr ==
  ASSUME TypeInv, ClosedInv, NEW w \in Workers, Incr(w)
  PROVE  ClosedInv'
  <1>1. /\ pc[w] = "incr" /\ pc'[w] = "expireCalls" /\ task' = task
        /\ \A v \in Workers : v # w => pc'[v] = pc[v]
    BY OthersStay DEF Incr
  <1>2. UNCHANGED <<dies, samples, fades, disturbed>>
    BY DEF Incr, listVars
  <1>3. \A m \in Minutes : m # TaskMinute(w) => counts'[m] = counts[m]
    BY DEF Incr, TypeInv, TypeOK
  <1>4. ASSUME NEW m \in Minutes, OpenBucket(m)' PROVE BucketAccounted(m)'
    <2>1. CASE m = TaskMinute(w)
      BY <1>1, <2>1 DEF BucketAccounted, TaskMinute
    <2>2. CASE m # TaskMinute(w)
      <3>1. OpenBucket(m)
        BY <1>2, <1>3, <1>4, <2>2 DEF OpenBucket
      <3>2. BucketAccounted(m)
        BY <3>1 DEF ClosedInv, BucketsClosed
      <3> QED
        BY <1>1, <1>2, <3>2 DEF BucketAccounted, TaskMinute
    <2> QED
      BY <2>1, <2>2
  <1>5. BucketsClosed'
    BY <1>4 DEF BucketsClosed
  <1>6. ListsClosed'
    BY <1>1, <1>2, ListsKept DEF ClosedInv, OpenList
  <1> QED
    BY <1>5, <1>6 DEF ClosedInv

LEMMA LifePositive == Life \in Nat \ {0} /\ LatencyLife \in Nat \ {0}
  <1>1. /\ Minute \in Nat \ {0} /\ Window \in Nat /\ Grace \in Nat
        /\ Ahead \in Nat /\ Skew \in Nat
    BY TimesAssumption
  <1>2. Grace # 0
    BY <1>1, GraceAssumption
  <1>3. Life \in Nat \ {0}
    BY <1>1, <1>2, SMT DEF Life
  <1>4. LatencyLife \in Nat \ {0}
    BY TimesAssumption, SMT DEF LatencyLife
  <1> QED
    BY <1>3, <1>4

LEMMA ClosedExpireCalls ==
  ASSUME TypeInv, ClosedInv, NEW w \in Workers, ExpireCalls(w)
  PROVE  ClosedInv'
  <1>1. /\ pc[w] = "expireCalls" /\ pc'[w] = "push" /\ task' = task
        /\ \A v \in Workers : v # w => pc'[v] = pc[v]
    BY OthersStay DEF ExpireCalls
  <1>2. UNCHANGED <<counts, samples, fades, disturbed>>
    BY DEF ExpireCalls, listVars
  <1>3. clock + Life # 0
    BY LifePositive DEF TypeInv, TypeOK
  <1>4. TaskMinute(w) \in Minutes
    BY <1>1, TaskMinuteType DEF TypeInv
  <1>5. /\ \A m \in Minutes : dies'[m] = dies[m] \/ dies'[m] # 0
        /\ counts[TaskMinute(w)] = 0 \/ dies'[TaskMinute(w)] # 0
    BY <1>3, <1>4 DEF ExpireCalls, TypeInv, TypeOK
  <1>6. BucketsClosed'
    <2>1. \A m \in Minutes : OpenBucket(m)' => OpenBucket(m)
      BY <1>2, <1>5 DEF OpenBucket
    <2> QED
      BY <1>1, <1>2, <1>5, <2>1, BucketsKept DEF ClosedInv
  <1>7. ListsClosed'
    BY <1>1, <1>2, ListsKept DEF ClosedInv, OpenList
  <1> QED
    BY <1>6, <1>7 DEF ClosedInv

LEMMA ClosedPush ==
  ASSUME TypeInv, ClosedInv, NEW w \in Workers, Push(w)
  PROVE  ClosedInv'
  <1>1. /\ pc[w] = "push" /\ pc'[w] = "trim" /\ task' = task
        /\ \A v \in Workers : v # w => pc'[v] = pc[v]
    BY OthersStay DEF Push
  <1>2. UNCHANGED <<counts, dies, fades, disturbed>>
    BY DEF Push, bucketVars
  <1>3. \A k \in Keys : k # TaskKey(w) => samples'[k] = samples[k]
    BY DEF Push, TypeInv, TypeOK
  <1>4. ASSUME NEW k \in Keys, OpenList(k)' PROVE ListAccounted(k)'
    <2>1. CASE k = TaskKey(w)
      BY <1>1, <2>1 DEF ListAccounted, TaskKey
    <2>2. CASE k # TaskKey(w)
      <3>1. OpenList(k)
        BY <1>2, <1>3, <1>4, <2>2 DEF OpenList
      <3>2. ListAccounted(k)
        BY <3>1 DEF ClosedInv, ListsClosed
      <3> QED
        BY <1>1, <1>2, <3>2 DEF ListAccounted, TaskKey
    <2> QED
      BY <2>1, <2>2
  <1>5. ListsClosed'
    BY <1>4 DEF ListsClosed
  <1>6. BucketsClosed'
    BY <1>1, <1>2, BucketsKept DEF ClosedInv, OpenBucket
  <1> QED
    BY <1>5, <1>6 DEF ClosedInv

(* A trim leaves something of what was something.                           *)
LEMMA TrimEmpty ==
  ASSUME NEW list \in Seq(Calls), list = << >>
  PROVE  KeepLast(list) = << >>
  BY BoundsAssumption DEF KeepLast

LEMMA ClosedTrim ==
  ASSUME TypeInv, ClosedInv, NEW w \in Workers, Trim(w)
  PROVE  ClosedInv'
  <1>1. /\ pc[w] = "trim" /\ pc'[w] = "expireList" /\ task' = task
        /\ \A v \in Workers : v # w => pc'[v] = pc[v]
    BY OthersStay DEF Trim
  <1>2. UNCHANGED <<counts, dies, fades, disturbed>>
    BY DEF Trim, bucketVars
  <1>3. \A k \in Keys : samples[k] = << >> => samples'[k] = << >>
    BY TrimEmpty DEF Trim, TypeInv, TypeOK
  <1>4. ListsClosed'
    BY <1>1, <1>2, <1>3, ListsKept DEF ClosedInv, OpenList
  <1>5. BucketsClosed'
    BY <1>1, <1>2, BucketsKept DEF ClosedInv, OpenBucket
  <1> QED
    BY <1>4, <1>5 DEF ClosedInv

LEMMA ClosedExpireList ==
  ASSUME TypeInv, ClosedInv, NEW w \in Workers, ExpireList(w)
  PROVE  ClosedInv'
  <1>1. /\ pc[w] = "expireList" /\ pc'[w] = "cost" /\ task' = task
        /\ \A v \in Workers : v # w => pc'[v] = pc[v]
    BY OthersStay DEF ExpireList
  <1>2. UNCHANGED <<counts, dies, samples, disturbed>>
    BY DEF ExpireList, bucketVars
  <1>3. clock + LatencyLife # 0
    BY LifePositive DEF TypeInv, TypeOK
  <1>4. TaskKey(w) \in Keys
    BY CallFields DEF TypeInv, TypeOK, TaskKey
  <1>5. /\ \A k \in Keys : fades'[k] = fades[k] \/ fades'[k] # 0
        /\ samples[TaskKey(w)] = << >> \/ fades'[TaskKey(w)] # 0
    BY <1>3, <1>4 DEF ExpireList, TypeInv, TypeOK
  <1>6. ListsClosed'
    BY <1>1, <1>2, <1>5, ListsKept DEF ClosedInv, OpenList
  <1>7. BucketsClosed'
    BY <1>1, <1>2, BucketsKept DEF ClosedInv, OpenBucket
  <1> QED
    BY <1>6, <1>7 DEF ClosedInv

LEMMA ClosedRest ==
  ASSUME TypeInv, ClosedInv, NEW w \in Workers,
         IncrCost(w) \/ Abandon(w) \/ Resend(w)
  PROVE  ClosedInv'
  <1>1. /\ UNCHANGED <<counts, dies, samples, fades, task>>
        /\ disturbed \subseteq disturbed'
        /\ \A v \in Workers : v # w => pc'[v] = pc[v]
    BY DEF IncrCost, Abandon, Resend, Step, bucketVars, listVars, TypeInv, TypeOK
  <1>2. pc[w] \notin {"expireCalls", "trim", "expireList"} \/ task[w] \in disturbed'
    BY DEF IncrCost, Abandon, Resend, Step
  <1>3. BucketsClosed'
    BY <1>1, <1>2, BucketsKept DEF ClosedInv, OpenBucket
  <1>4. ListsClosed'
    BY <1>1, <1>2, ListsKept DEF ClosedInv, OpenList
  <1> QED
    BY <1>3, <1>4 DEF ClosedInv

(* What time, eviction and stuttering do to keys.                           *)
LEMMA ClosedKeys ==
  ASSUME ClosedInv, UNCHANGED <<pc, task>>, disturbed \subseteq disturbed',
         \A m \in Minutes : \/ counts'[m] = counts[m] /\ dies'[m] = dies[m]
                            \/ counts'[m] = 0,
         \A k \in Keys : \/ samples'[k] = samples[k] /\ fades'[k] = fades[k]
                         \/ samples'[k] = << >>
  PROVE  ClosedInv'
  <1>1. BucketsClosed'
    BY BucketsKept DEF ClosedInv, OpenBucket
  <1>2. ListsClosed'
    BY ListsKept DEF ClosedInv, OpenList
  <1> QED
    BY <1>1, <1>2 DEF ClosedInv

LEMMA ClosedNext == TypeInv /\ ClosedInv /\ [Next]_vars => ClosedInv'
  <1> SUFFICES ASSUME TypeInv, ClosedInv, [Next]_vars PROVE ClosedInv'
    OBVIOUS
  <1>1. ASSUME NEW w \in Workers, NEW c \in Calls, Store(w, c) PROVE ClosedInv'
    BY <1>1, ClosedStore
  <1>2. ASSUME NEW w \in Workers,
               Incr(w) \/ ExpireCalls(w) \/ Push(w) \/ Trim(w)
        PROVE  ClosedInv'
    BY <1>2, ClosedIncr, ClosedExpireCalls, ClosedPush, ClosedTrim
  <1>3. ASSUME NEW w \in Workers,
               ExpireList(w) \/ IncrCost(w) \/ Abandon(w) \/ Resend(w)
        PROVE  ClosedInv'
    BY <1>3, ClosedExpireList, ClosedRest
  <1>4. CASE Tick
    BY <1>4, ClosedKeys DEF Tick
  <1>5. ASSUME NEW m \in Minutes, EvictBucket(m) PROVE ClosedInv'
    BY <1>5, ClosedKeys DEF EvictBucket, listVars, TypeInv, TypeOK
  <1>6. ASSUME NEW k \in Keys, EvictList(k) PROVE ClosedInv'
    BY <1>6, ClosedKeys DEF EvictList, bucketVars, TypeInv, TypeOK
  <1>7. CASE EvictCosts
    BY <1>7, ClosedKeys DEF EvictCosts, bucketVars, listVars
  <1>8. CASE UNCHANGED vars
    BY <1>8, ClosedKeys DEF vars
  <1> QED
    BY <1>1, <1>2, <1>3, <1>4, <1>5, <1>6, <1>7, <1>8 DEF Next

LEMMA ClosedInvDeadline == ClosedInv => KeysHaveDeadline
  BY DEF ClosedInv, BucketsClosed, ListsClosed, OpenBucket, OpenList,
         BucketAccounted, ListAccounted, KeysHaveDeadline

(* No interleaving, expiry or eviction leaves a key in Redis for ever: only *)
(* a pipeline cut by a fault does.                                          *)
THEOREM NothingLeaks == Spec => []KeysHaveDeadline
  <1>1. Init => TypeInv /\ ClosedInv
    BY TypeInit DEF TypeInv, Init, ClosedInv, BucketsClosed, ListsClosed,
                    OpenBucket, OpenList
  <1> QED
    BY <1>1, TypeNext, ClosedNext, ClosedInvDeadline, PTL DEF Spec

-----------------------------------------------------------------------------
(* The length of a list.                                                    *)

Trimmers(k) == {w \in Workers : pc[w] = "trim" /\ TaskKey(w) = k}

LEMMA TrimmersType ==
  ASSUME NEW k
  PROVE  /\ IsFiniteSet(Trimmers(k)) /\ Cardinality(Trimmers(k)) \in Nat
         /\ IsFiniteSet(Trimmers(k)') /\ Cardinality(Trimmers(k)') \in Nat
  <1>1. Trimmers(k) \subseteq Workers /\ Trimmers(k)' \subseteq Workers
    BY DEF Trimmers
  <1> QED
    BY <1>1, WorkersAssumption, FS_Subset, FS_CardinalityType

(* ListBounded, key by key.                                                 *)
Bounded(k) ==
  Len(samples[k]) <= MaxSamples + faults + Cardinality(Trimmers(k))

LEMMA BoundedDef == ListBounded <=> \A k \in Keys : Bounded(k)
  BY DEF ListBounded, Bounded, Trimmers

(* A list that does not grow keeps its bound, unless somebody leaves before *)
(* the trim; a fault makes up for one worker who does.                      *)
LEMMA BoundedKept ==
  ASSUME TypeInv, NEW k \in Keys, Bounded(k), faults' \in Nat, faults <= faults',
         samples'[k] = samples[k] \/ samples'[k] = << >>,
         Trimmers(k)' = Trimmers(k)
  PROVE  Bounded(k)'
  <1>1. Len(samples[k]) \in Nat /\ faults \in Nat
    BY DEF TypeInv, TypeOK
  <1>2. Len(samples'[k]) <= Len(samples[k]) /\ Len(samples'[k]) \in Nat
    BY <1>1
  <1> QED
    BY <1>1, <1>2, TrimmersType, BoundsAssumption DEF Bounded

LEMMA BoundedLeft ==
  ASSUME TypeInv, NEW k \in Keys, Bounded(k), NEW w \in Workers,
         faults' = faults + 1, samples' = samples,
         Trimmers(k)' \in {Trimmers(k), Trimmers(k) \ {w}}
  PROVE  Bounded(k)'
  <1>1. Len(samples[k]) \in Nat /\ faults \in Nat
    BY DEF TypeInv, TypeOK
  <1>2. Cardinality(Trimmers(k)) <= Cardinality(Trimmers(k)') + 1
    BY TrimmersType, FS_RemoveElement
  <1> QED
    BY <1>1, <1>2, TrimmersType, BoundsAssumption DEF Bounded

LEMMA BoundedPush ==
  ASSUME TypeInv, NEW k \in Keys, Bounded(k), NEW w \in Workers, Push(w)
  PROVE  Bounded(k)'
  <1>1. /\ pc[w] = "push" /\ pc'[w] = "trim" /\ task' = task
        /\ \A v \in Workers : v # w => pc'[v] = pc[v]
    BY OthersStay DEF Push
  <1>2. faults' = faults /\ faults \in Nat
    BY DEF Push, TypeInv, TypeOK
  <1>3. CASE k = TaskKey(w)
    <2>1. samples'[k] = Append(samples[k], task[w])
      BY <1>3 DEF Push, TypeInv, TypeOK
    <2>2. Len(samples[k]) \in Nat /\ Len(samples'[k]) = Len(samples[k]) + 1
      BY <2>1 DEF TypeInv, TypeOK
    <2>3. Trimmers(k)' = Trimmers(k) \union {w} /\ w \notin Trimmers(k)
      BY <1>1, <1>3 DEF Trimmers, TaskKey
    <2>4. Cardinality(Trimmers(k)') = Cardinality(Trimmers(k)) + 1
      BY <2>3, TrimmersType, FS_AddElement
    <2> QED
      BY <1>2, <2>2, <2>4, TrimmersType, BoundsAssumption DEF Bounded
  <1>4. CASE k # TaskKey(w)
    <2>1. samples'[k] = samples[k]
      BY <1>4 DEF Push, TypeInv, TypeOK
    <2>2. Trimmers(k)' = Trimmers(k)
      BY <1>1, <1>4 DEF Trimmers, TaskKey
    <2> QED
      BY <1>2, <2>1, <2>2, BoundedKept
  <1> QED
    BY <1>3, <1>4

LEMMA TrimLength ==
  ASSUME NEW list \in Seq(Calls)
  PROVE  Len(KeepLast(list)) \in Nat /\ Len(KeepLast(list)) <= MaxSamples
  BY BoundsAssumption DEF KeepLast

LEMMA BoundedTrim ==
  ASSUME TypeInv, NEW k \in Keys, Bounded(k), NEW w \in Workers, Trim(w)
  PROVE  Bounded(k)'
  <1>1. /\ pc[w] = "trim" /\ pc'[w] = "expireList" /\ task' = task
        /\ \A v \in Workers : v # w => pc'[v] = pc[v]
    BY OthersStay DEF Trim
  <1>2. faults' = faults /\ faults \in Nat
    BY DEF Trim, TypeInv, TypeOK
  <1>3. CASE k = TaskKey(w)
    <2>1. samples'[k] = KeepLast(samples[k]) /\ samples[k] \in Seq(Calls)
      BY <1>3 DEF Trim, TypeInv, TypeOK
    <2>2. Len(samples'[k]) \in Nat /\ Len(samples'[k]) <= MaxSamples
      BY <2>1, TrimLength
    <2> QED
      BY <1>2, <2>2, TrimmersType, BoundsAssumption DEF Bounded
  <1>4. CASE k # TaskKey(w)
    <2>1. samples'[k] = samples[k]
      BY <1>4 DEF Trim, TypeInv, TypeOK
    <2>2. Trimmers(k)' = Trimmers(k)
      BY <1>1, <1>4 DEF Trimmers, TaskKey
    <2> QED
      BY <1>2, <2>1, <2>2, BoundedKept
  <1> QED
    BY <1>3, <1>4

LEMMA BoundedNext ==
  ASSUME TypeInv, ListBounded, [Next]_vars
  PROVE  ListBounded'
  <1> SUFFICES ASSUME NEW k \in Keys, Bounded(k) PROVE Bounded(k)'
    BY BoundedDef DEF ListBounded, Bounded, Trimmers
  <1>0. faults \in Nat
    BY DEF TypeInv, TypeOK
  <1>1. ASSUME NEW w \in Workers, NEW c \in Calls, Store(w, c)
        PROVE  Bounded(k)'
    <2>1. UNCHANGED <<samples, faults>> /\ pc[w] = "idle" /\ pc'[w] = "incr"
      BY <1>1 DEF Store, listVars, TypeInv, TypeOK
    <2>2. \A v \in Workers : v # w => pc'[v] = pc[v] /\ task'[v] = task[v]
      BY <1>1 DEF Store, TypeInv, TypeOK
    <2>3. Trimmers(k)' = Trimmers(k)
      BY <2>1, <2>2 DEF Trimmers, TaskKey
    <2> QED
      BY <1>0, <2>1, <2>3, BoundedKept
  <1>2. ASSUME NEW w \in Workers,
               Incr(w) \/ ExpireCalls(w) \/ ExpireList(w) \/ IncrCost(w)
        PROVE  Bounded(k)'
    <2>1. UNCHANGED <<samples, faults, task>>
      BY <1>2 DEF Incr, ExpireCalls, ExpireList, IncrCost, Step, listVars
    <2>2. /\ pc[w] # "trim" /\ pc'[w] # "trim"
          /\ \A v \in Workers : v # w => pc'[v] = pc[v]
      BY <1>2, OthersStay DEF Incr, ExpireCalls, ExpireList, IncrCost
    <2>3. Trimmers(k)' = Trimmers(k)
      BY <2>1, <2>2 DEF Trimmers, TaskKey
    <2> QED
      BY <1>0, <2>1, <2>3, BoundedKept
  <1>3. ASSUME NEW w \in Workers, Push(w) \/ Trim(w) PROVE Bounded(k)'
    BY <1>3, BoundedPush, BoundedTrim
  <1>4. ASSUME NEW w \in Workers, Abandon(w) \/ Resend(w) PROVE Bounded(k)'
    <2>1. samples' = samples /\ task' = task /\ faults' = faults + 1
      BY <1>4 DEF Abandon, Resend, Fault, listVars
    <2>2. pc'[w] # "trim" /\ \A v \in Workers : v # w => pc'[v] = pc[v]
      BY <1>4 DEF Abandon, Resend, TypeInv, TypeOK
    <2>3. Trimmers(k)' \in {Trimmers(k), Trimmers(k) \ {w}}
      BY <2>1, <2>2 DEF Trimmers, TaskKey
    <2> QED
      BY <2>1, <2>3, BoundedLeft
  <1>5. CASE \/ Tick \/ EvictCosts \/ UNCHANGED vars
             \/ \E m \in Minutes : EvictBucket(m)
             \/ \E n \in Keys : EvictList(n)
    <2>1. UNCHANGED <<pc, task>>
      BY <1>5 DEF Tick, EvictCosts, EvictBucket, EvictList, vars
    <2>2. samples'[k] = samples[k] \/ samples'[k] = << >>
      BY <1>5 DEF Tick, EvictCosts, EvictBucket, EvictList, vars, listVars,
                  TypeInv, TypeOK
    <2>3. faults' \in {faults, faults + 1}
      BY <1>5 DEF Tick, EvictCosts, EvictBucket, EvictList, Fault, vars
    <2>4. Trimmers(k)' = Trimmers(k)
      BY <2>1 DEF Trimmers, TaskKey
    <2> QED
      BY <1>0, <2>2, <2>3, <2>4, BoundedKept
  <1>6. PICK c \in Calls : TRUE
    BY CallAssumption
  <1> QED
    BY <1>1, <1>2, <1>3, <1>4, <1>5, <1>6 DEF Next

(* For any limit and number of workers, a list exceeds its limit by no more *)
(* than the pipelines caught between push and trim.                         *)
THEOREM ListsStayBounded == Spec => []ListBounded
  <1>1. Init => TypeInv /\ ListBounded
    <2> SUFFICES ASSUME Init PROVE ListBounded
      BY TypeInit DEF TypeInv
    <2>1. \A k \in Keys : Len(samples[k]) = 0 /\ faults = 0
      BY DEF Init
    <2>2. \A k \in Keys : Bounded(k)
      BY <2>1, TrimmersType, BoundsAssumption DEF Bounded
    <2> QED
      BY <2>2, BoundedDef
  <1> QED
    BY <1>1, TypeNext, BoundedNext, PTL DEF Spec
=============================================================================
