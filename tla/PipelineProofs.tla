---------------------------- MODULE PipelineProofs ----------------------------
(***************************************************************************)
(* Theorems about Pipeline: what an answer to a client is worth, what the  *)
(* simulator's counters are, that a clean stop cuts nobody off, and that   *)
(* nothing accepted is lost and nothing shown is made up.                  *)
(***************************************************************************)
EXTENDS Pipeline, FiniteSetTheorems, SequenceTheorems, TLAPS

USE DEF Outcomes, Stages, clientVars, apiVars, storeVars, simVars, pageVars

LEMMA SimulatedAttempt ==
  ASSUME NEW c \in Simulated
  PROVE  <<c, 1>> \in Attempts
  BY DEF Attempts

LEMMA ClientAttempt ==
  ASSUME NEW c \in Clients, NEW n \in 1 .. MaxTries
  PROVE  <<c, n>> \in Attempts
  BY DEF Attempts

LEMMA AttemptCall ==
  ASSUME NEW a \in Attempts
  PROVE  a[1] \in Clients \union Simulated
  BY DEF Attempts

LEMMA RowType ==
  ASSUME NEW a \in Attempts
  PROVE  Row(a) \in Rows
  <1>1. a \in Names /\ <<a[1], 0>> \in Names
    BY AttemptCall DEF Names
  <1> QED
    BY <1>1 DEF Row, Rows

LEMMA WithoutType ==
  ASSUME NEW S, NEW s \in Seq(S), NEW k \in DOMAIN s
  PROVE  /\ Without(s, k) \in Seq(S)
         /\ Len(Without(s, k)) <= Len(s)
  <1>1. Len(s) \in Nat /\ k \in 1 .. Len(s)
    BY LenProperties
  <1>2. /\ SubSeq(s, 1, k - 1) \in Seq(S)
        /\ Len(SubSeq(s, 1, k - 1)) = k - 1
    <2>1. CASE k = 1
      BY <2>1, <1>1, SubSeqProperties
    <2>2. CASE k # 1
      <3>1. 1 \in 1 .. Len(s) /\ k - 1 \in 1 .. Len(s)
        BY <2>2, <1>1
      <3> QED
        BY <3>1, <1>1, <2>2, SubSeqProperties
    <2> QED
      BY <2>1, <2>2
  <1>3. /\ SubSeq(s, k + 1, Len(s)) \in Seq(S)
        /\ Len(SubSeq(s, k + 1, Len(s))) = Len(s) - k
    <2>1. CASE k = Len(s)
      BY <2>1, <1>1, SubSeqProperties
    <2>2. CASE k # Len(s)
      <3>1. k + 1 \in 1 .. Len(s) /\ Len(s) \in 1 .. Len(s)
        BY <2>2, <1>1
      <3> QED
        BY <3>1, <1>1, <2>2, SubSeqProperties
    <2> QED
      BY <2>1, <2>2
  <1>4. /\ Without(s, k) \in Seq(S)
        /\ Len(Without(s, k)) = (k - 1) + (Len(s) - k)
    BY <1>2, <1>3, ConcatProperties DEF Without
  <1> QED
    BY <1>1, <1>4

-----------------------------------------------------------------------------
(* Types.                                                                   *)

LEMMA TypeInit ==
  ASSUME Init
  PROVE  TypeOK
  <1>1. answers \in Seq(SUBSET Rows) /\ Len(answers) = 0
    BY DEF Init
  <1>2. 0 <= MaxPolls /\ 0 \in 0 .. FaultBudget
    BY BoundsAssumption
  <1>3. /\ outcome \in [Attempts -> Outcomes]
        /\ stage \in [Attempts -> Stages]
        /\ rows \subseteq Rows /\ page \subseteq Rows
    BY DEF Init
  <1> QED
    BY <1>1, <1>2, <1>3 DEF Init, TypeOK

(* The end of the process, whatever its cause. *)
LEMMA TypeEnded ==
  ASSUME TypeOK, Ended, topic \subseteq topic', topic' \subseteq Attempts,
         faults' \in 0 .. FaultBudget
  PROVE  TypeOK'
  <1>1. /\ outcome' \in [Attempts -> Outcomes]
        /\ stage' \in [Attempts -> Stages]
    BY DEF TypeOK, Ended
  <1>2. handled' \subseteq topic'
    BY DEF TypeOK, Ended
  <1> QED
    BY <1>1, <1>2 DEF TypeOK, Ended

LEMMA TypeNext ==
  ASSUME TypeOK, Next
  PROVE  TypeOK'
  <1> USE DEF TypeOK
  <1>1. CASE \E c \in Clients : \E n \in 1 .. MaxTries : Post(c, n)
    BY <1>1, ClientAttempt DEF Post, Request
  <1>2. CASE \E c \in Simulated : Generate(c)
    BY <1>2, SimulatedAttempt DEF Generate, Request
  <1>3. CASE Tally
    BY <1>3 DEF Tally
  <1>4. CASE \E a \in Attempts : GiveUp(a) \/ WriteError(a) \/ ContextDone(a)
    <2>1. PICK a \in Attempts : GiveUp(a) \/ WriteError(a) \/ ContextDone(a)
      BY <1>4
    <2>2. CASE GiveUp(a)
      BY <2>2 DEF GiveUp
    <2>3. CASE WriteError(a)
      BY <2>3, BoundsAssumption DEF WriteError, BatchDone, Fault, Returns
    <2>4. CASE ContextDone(a)
      BY <2>4 DEF ContextDone, Returns
    <2> QED
      BY <2>1, <2>2, <2>3, <2>4
  <1>5. CASE Start
    BY <1>5 DEF Start
  <1>6. CASE Shutdown
    <2>1. CASE Drained
      BY <2>1 DEF Drained, Enter
    <2>2. CASE DrainDeadline
      BY <2>2 DEF DrainDeadline, Enter
    <2>3. CASE Exit
      BY <2>3, TypeEnded DEF Exit
    <2> QED
      BY <1>6, <2>1, <2>2, <2>3 DEF Shutdown
  <1>7. CASE \E a \in Attempts : Handle(a) \/ Consume(a)
    <2>1. PICK a \in Attempts : Handle(a) \/ Consume(a)
      BY <1>7
    <2>2. CASE Publish(a)
      BY <2>2 DEF Publish, Returns
    <2>3. CASE Written(a)
      BY <2>3 DEF Written, BatchDone, Returns
    <2>4. CASE Answer(a)
      BY <2>4 DEF Answer, Told
    <2>5. CASE Consume(a)
      <3>1. Row(a) \in Rows /\ Row(a).id \in Names
        BY RowType DEF Rows
      <3>2. rows' \subseteq Rows /\ excused' \subseteq Names
        BY <2>5, <3>1 DEF Consume
      <3>3. faults' \in 0 .. FaultBudget /\ handled' \subseteq topic
        BY <2>5, BoundsAssumption DEF Consume, Fault
      <3> QED
        BY <2>5, <3>2, <3>3 DEF Consume
    <2> QED
      BY <2>1, <2>2, <2>3, <2>4, <2>5 DEF Handle
  <1>8. CASE Terminate \/ ServeError
    BY <1>8, BoundsAssumption DEF Terminate, ServeError, Enter, Fault
  <1>9. CASE Crash
    <2>1. topic \subseteq topic' /\ topic' \subseteq Attempts
      BY <1>9 DEF Crash
    <2>2. faults' \in 0 .. FaultBudget
      BY <1>9, BoundsAssumption DEF Crash, Fault
    <2> QED
      BY <1>9, <2>1, <2>2, TypeEnded DEF Crash
  <1>10. CASE StreamOpens \/ StreamEnds
    BY <1>10 DEF StreamOpens, StreamEnds
  <1>11. CASE HandleGetCalls
    <2>1. /\ Append(answers, rows) \in Seq(SUBSET Rows)
          /\ Len(Append(answers, rows)) = Len(answers) + 1
      BY AppendProperties
    <2>2. Len(answers) \in Nat
      BY LenProperties
    <2> QED
      BY <1>11, <2>1, <2>2, BoundsAssumption DEF HandleGetCalls
  <1>12. CASE \E k \in DOMAIN answers : Show(k)
    <2>1. PICK k \in DOMAIN answers : Show(k)
      BY <1>12
    <2>2. /\ Without(answers, k) \in Seq(SUBSET Rows)
          /\ Len(Without(answers, k)) <= Len(answers)
          /\ answers[k] \in SUBSET Rows
      BY WithoutType, ElementOfSeq, LenProperties
    <2>3. Len(answers) \in Nat /\ Len(Without(answers, k)) \in Nat
      BY <2>2, LenProperties
    <2> QED
      BY <2>1, <2>2, <2>3, BoundsAssumption DEF Show
  <1> QED
    BY <1>1, <1>2, <1>3, <1>4, <1>5, <1>6, <1>7, <1>8, <1>9, <1>10, <1>11,
       <1>12 DEF Next, Progress, Polling

(* The shape of the state, at most MaxPolls answers on their way, for any   *)
(* number of calls, attempts and faults.                                    *)
THEOREM TypeCorrect == Spec => []TypeOK
  <1>1. TypeOK /\ UNCHANGED vars => TypeOK'
    BY DEF TypeOK, vars
  <1> QED
    BY <1>1, TypeInit, TypeNext, PTL DEF Spec

-----------------------------------------------------------------------------
(* What an answer is worth.                                                 *)

(* An answer of 202, on its way or with the client, stands for a message    *)
(* in the topic, and a writer closed after a full wait closes on nobody.    *)
AnswerInv ==
  /\ \A a \in Attempts :
       stage[a] = "202" \/ outcome[a] = "accepted" => a \in topic
  /\ CleanStopAnswersAll

LEMMA AnswerInit == Init => AnswerInv
  BY DEF Init, AnswerInv, CleanStopAnswersAll

LEMMA AnswerNext ==
  ASSUME TypeOK, AnswerInv, Next
  PROVE  AnswerInv'
  <1> USE DEF AnswerInv, CleanStopAnswersAll, Active
  <1>0. /\ outcome \in [Attempts -> Outcomes]
        /\ stage \in [Attempts -> Stages]
        /\ topic \subseteq Attempts
    BY DEF TypeOK
  <1>1. CASE \E c \in Clients : \E n \in 1 .. MaxTries : Post(c, n)
    <2>1. PICK c \in Clients, n \in 1 .. MaxTries : Post(c, n)
      BY <1>1
    <2>2. <<c, n>> \in Attempts
      BY ClientAttempt
    <2> QED
      BY <2>1, <2>2, <1>0 DEF Post, Request
  <1>2. CASE \E c \in Simulated : Generate(c)
    <2>1. PICK c \in Simulated : Generate(c)
      BY <1>2
    <2>2. <<c, 1>> \in Attempts
      BY SimulatedAttempt
    <2> QED
      BY <2>1, <2>2, <1>0 DEF Generate, Request
  <1>3. CASE Tally
    BY <1>3, <1>0 DEF Tally
  <1>4. CASE \E a \in Attempts : GiveUp(a) \/ WriteError(a) \/ ContextDone(a)
    <2>1. PICK a \in Attempts : GiveUp(a) \/ WriteError(a) \/ ContextDone(a)
      BY <1>4
    <2>2. CASE GiveUp(a)
      BY <2>2, <1>0 DEF GiveUp
    <2>3. CASE WriteError(a)
      BY <2>3, <1>0 DEF WriteError, BatchDone, Returns
    <2>4. CASE ContextDone(a)
      BY <2>4, <1>0 DEF ContextDone, Returns
    <2> QED
      BY <2>1, <2>2, <2>3, <2>4
  <1>5. CASE Start
    BY <1>5, <1>0 DEF Start
  <1>6. CASE Shutdown
    <2>1. CASE Drained
      BY <2>1, <1>0 DEF Drained, Enter, ConnectionsIdle
    <2>2. CASE DrainDeadline
      BY <2>2, <1>0 DEF DrainDeadline, Enter
    <2>3. CASE Exit
      BY <2>3, <1>0 DEF Exit, Ended
    <2> QED
      BY <1>6, <2>1, <2>2, <2>3 DEF Shutdown
  <1>7. CASE \E a \in Attempts : Handle(a) \/ Consume(a)
    <2>1. PICK a \in Attempts : Handle(a) \/ Consume(a)
      BY <1>7
    <2>2. CASE Publish(a)
      BY <2>2, <1>0 DEF Publish, Returns
    <2>3. CASE Written(a)
      BY <2>3, <1>0 DEF Written, BatchDone, Returns
    <2>4. CASE Answer(a)
      BY <2>4, <1>0 DEF Answer, Told
    <2>5. CASE Consume(a)
      BY <2>5, <1>0 DEF Consume
    <2> QED
      BY <2>1, <2>2, <2>3, <2>4, <2>5 DEF Handle
  <1>8. CASE Terminate \/ ServeError
    BY <1>8, <1>0 DEF Terminate, ServeError, Enter
  <1>9. CASE Crash
    BY <1>9, <1>0 DEF Crash, Ended
  <1>10. CASE StreamOpens \/ StreamEnds
    BY <1>10, <1>0 DEF StreamOpens, StreamEnds
  <1>11. CASE Polling
    BY <1>11, <1>0 DEF Polling, HandleGetCalls, Show
  <1> QED
    BY <1>1, <1>2, <1>3, <1>4, <1>5, <1>6, <1>7, <1>8, <1>9, <1>10, <1>11
       DEF Next, Progress

LEMMA AnswerInductive == Spec => [](TypeOK /\ AnswerInv)
  <1>1. TypeOK /\ AnswerInv /\ UNCHANGED vars => AnswerInv'
    BY DEF AnswerInv, CleanStopAnswersAll, Active, vars
  <1> QED
    BY <1>1, AnswerInit, AnswerNext, TypeCorrect, PTL DEF Spec

(* Whoever is told that a call is accepted can rely on Kafka having it,     *)
(* through stops, crashes and restarts of the API process.                  *)
THEOREM AcceptedQueued == Spec => []AcceptedIsQueued
  <1>1. AnswerInv => AcceptedIsQueued
    BY DEF AnswerInv, AcceptedIsQueued
  <1> QED
    BY <1>1, AnswerInductive, PTL

(* A stop that waits for all handlers leaves no client without its answer.  *)
THEOREM CleanStop == Spec => []CleanStopAnswersAll
  <1>1. AnswerInv => CleanStopAnswersAll
    BY DEF AnswerInv
  <1> QED
    BY <1>1, AnswerInductive, PTL

-----------------------------------------------------------------------------
(* One row for a call its client has named and stamped.                     *)

RowInv == \A r \in rows : \E a \in Attempts : r = Row(a)

LEMMA RowsStep ==
  ASSUME TypeOK, Next
  PROVE  rows' = rows \/ \E a \in Attempts : rows' \subseteq rows \union {Row(a)}
  <1>1. CASE \E a \in Attempts : Consume(a)
    BY <1>1 DEF Consume
  <1>2. CASE ~ \E a \in Attempts : Consume(a)
    BY <1>2 DEF Next, Progress, Polling, Shutdown, Handle, Post, Generate, Tally,
       GiveUp, WriteError, ContextDone, BatchDone, Start, Drained, DrainDeadline,
       Exit, Ended, Enter, Publish, Written, Answer, Terminate, ServeError, Crash,
       StreamOpens, StreamEnds, HandleGetCalls, Show
  <1> QED
    BY <1>1, <1>2

LEMMA RowInductive == Spec => []RowInv
  <1>1. Init => RowInv
    BY DEF Init, RowInv
  <1>2. TypeOK /\ RowInv /\ Next => RowInv'
    BY RowsStep DEF RowInv
  <1>3. RowInv /\ UNCHANGED vars => RowInv'
    BY DEF RowInv, vars
  <1> QED
    BY <1>1, <1>2, <1>3, TypeCorrect, PTL DEF Spec

(* Repeating a call that has its own id and stamp never makes a second row, *)
(* however many copies of it the topic holds.                               *)
THEOREM OneRow == Spec => []OneRowPerNamedCall
  <1>1. ASSUME RowInv, NEW c \in Clients \union Simulated, Sets(c) = "both"
        PROVE  Cardinality(RowsOf(c)) <= 1
    <2> DEFINE only == [id |-> <<c, 0>>, ts |-> <<c, 0>>]
    <2>1. \A a \in Attempts : Row(a).id[1] = a[1]
      BY DEF Row
    <2>2. \A a \in Attempts : a[1] = c => Row(a) = only
      BY <1>1 DEF Row
    <2>3. RowsOf(c) \subseteq {only}
      BY <1>1, <2>1, <2>2 DEF RowInv, RowsOf
    <2>4. IsFiniteSet({only}) /\ Cardinality({only}) = 1
      BY FS_Singleton
    <2>5. Cardinality(RowsOf(c)) <= Cardinality({only})
      BY <2>3, <2>4, FS_Subset
    <2> QED
      BY <2>4, <2>5
  <1>2. RowInv => OneRowPerNamedCall
    BY <1>1 DEF OneRowPerNamedCall
  <1> QED
    BY <1>2, RowInductive, PTL

-----------------------------------------------------------------------------
(* The simulator's counters.                                                *)

Settled == {c \in Simulated : outcome[<<c, 1>>] # "none"} \ {simCall}

Successes == {c \in Simulated : outcome[<<c, 1>>] = "accepted"} \ {simCall}

(* The loop has one post under way at most, and has counted all before.     *)
TallyInv ==
  /\ simCall # NoCall => outcome[<<simCall, 1>>] # "none"
  /\ \A c \in Simulated : outcome[<<c, 1>>] = "waiting" => c = simCall
  /\ sent = Cardinality(Successes)
  /\ sent + failed = Cardinality(Settled)

LEMMA FiniteCounts ==
  /\ IsFiniteSet(Settled) /\ IsFiniteSet(Successes)
  /\ Cardinality(Settled) \in Nat /\ Cardinality(Successes) \in Nat
  <1>1. Settled \subseteq Simulated /\ Successes \subseteq Simulated
    BY DEF Settled, Successes
  <1>2. IsFiniteSet(Settled) /\ IsFiniteSet(Successes)
    BY <1>1, CallsAssumption, FS_Subset
  <1> QED
    BY <1>2, FS_CardinalityType

(* Steps of others end the simulator's post at most. *)
LEMMA TallySteady ==
  ASSUME TypeOK, TallyInv, UNCHANGED simVars,
         \A c \in Simulated :
           IF outcome[<<c, 1>>] = "waiting"
           THEN outcome'[<<c, 1>>] # "none"
           ELSE outcome'[<<c, 1>>] = outcome[<<c, 1>>]
  PROVE  TallyInv'
  <1>1. Settled' = Settled /\ Successes' = Successes
    BY DEF TallyInv, Settled, Successes
  <1> QED
    BY <1>1 DEF TallyInv, TypeOK

LEMMA TallyGenerate ==
  ASSUME TypeOK, TallyInv, NEW c \in Simulated, Generate(c)
  PROVE  TallyInv'
  <1>1. /\ <<c, 1>> \in Attempts
        /\ \A d \in Simulated : <<d, 1>> \in Attempts
      BY SimulatedAttempt
  <1>2. /\ outcome \in [Attempts -> Outcomes]
        /\ NoCall \notin Simulated
    BY CallsAssumption DEF TypeOK
  <1>3. /\ simCall = NoCall /\ simCall' = c
        /\ outcome[<<c, 1>>] = "none"
        /\ outcome'[<<c, 1>>] \in {"waiting", "lost"}
        /\ \A d \in Simulated \ {c} : outcome'[<<d, 1>>] = outcome[<<d, 1>>]
        /\ sent' = sent /\ failed' = failed
    BY <1>1, <1>2 DEF Generate, Request
  <1>4. Settled' = Settled /\ Successes' = Successes
    BY <1>2, <1>3 DEF Settled, Successes
  <1> QED
    BY <1>2, <1>3, <1>4 DEF TallyInv

LEMMA TallyTally ==
  ASSUME TypeOK, TallyInv, Tally
  PROVE  TallyInv'
  <1>1. /\ simCall \in Simulated /\ NoCall \notin Simulated
        /\ sent \in Nat /\ failed \in Nat
    BY CallsAssumption DEF TypeOK, Tally
  <1>2. /\ simCall' = NoCall /\ outcome' = outcome
        /\ outcome[<<simCall, 1>>] \notin {"none", "waiting"}
    BY DEF Tally
  <1>3. Settled' = Settled \union {simCall} /\ simCall \notin Settled
    BY <1>1, <1>2 DEF Settled
  <1>4. Cardinality(Settled') = Cardinality(Settled) + 1
    BY <1>3, FiniteCounts, FS_AddElement
  <1>5. simCall \notin Successes
    BY DEF Successes
  <1>6. CASE outcome[<<simCall, 1>>] = "accepted"
    <2>1. sent' = sent + 1 /\ failed' = failed
      BY <1>6 DEF Tally, SendSucceeded
    <2>2. Successes' = Successes \union {simCall}
      BY <1>1, <1>2, <1>6 DEF Successes
    <2>3. Cardinality(Successes') = Cardinality(Successes) + 1
      BY <1>5, <2>2, FiniteCounts, FS_AddElement
    <2>4. sent' = Cardinality(Successes') /\ sent' + failed' = Cardinality(Settled')
      BY <1>1, <1>4, <2>1, <2>3 DEF TallyInv
    <2> QED
      BY <1>1, <1>2, <2>4 DEF TallyInv
  <1>7. CASE outcome[<<simCall, 1>>] # "accepted"
    <2>1. sent' = sent /\ failed' = failed + 1
      BY <1>7 DEF Tally, SendSucceeded
    <2>2. Successes' = Successes
      BY <1>1, <1>2, <1>7 DEF Successes
    <2>3. sent' = Cardinality(Successes') /\ sent' + failed' = Cardinality(Settled')
      BY <1>1, <1>4, <2>1, <2>2 DEF TallyInv
    <2> QED
      BY <1>1, <1>2, <2>3 DEF TallyInv
  <1> QED
    BY <1>6, <1>7

LEMMA TallyNext ==
  ASSUME TypeOK, TallyInv, Next
  PROVE  TallyInv'
  <1>0. /\ \A c \in Simulated : <<c, 1>> \in Attempts
        /\ outcome \in [Attempts -> Outcomes]
    BY SimulatedAttempt DEF TypeOK
  <1>1. CASE \E c \in Clients : \E n \in 1 .. MaxTries : Post(c, n)
    <2>1. PICK c \in Clients, n \in 1 .. MaxTries : Post(c, n)
      BY <1>1
    <2>2. \A d \in Simulated : <<d, 1>> # <<c, n>>
      BY CallsAssumption
    <2>3. \A d \in Simulated : outcome'[<<d, 1>>] = outcome[<<d, 1>>]
      BY <1>0, <2>1, <2>2 DEF Post, Request
    <2> QED
      BY <2>1, <2>3, TallySteady DEF Post
  <1>2. CASE \E c \in Simulated : Generate(c)
    BY <1>2, TallyGenerate
  <1>3. CASE Tally
    BY <1>3, TallyTally
  <1>4. CASE \E a \in Attempts : GiveUp(a) \/ Answer(a)
    <2>1. PICK a \in Attempts : GiveUp(a) \/ Answer(a)
      BY <1>4
    <2>2. UNCHANGED simVars
      BY <2>1 DEF GiveUp, Answer
    <2>3. \A b \in Attempts : IF outcome[b] = "waiting"
                             THEN outcome'[b] # "none"
                             ELSE outcome'[b] = outcome[b]
      BY <2>1, <1>0 DEF GiveUp, Answer, ClientGone, Told
    <2> QED
      BY <1>0, <2>2, <2>3, TallySteady
  <1>5. CASE Exit \/ Crash
    <2>1. UNCHANGED simVars
      BY <1>5 DEF Exit, Crash, Ended
    <2>2. \A b \in Attempts : IF outcome[b] = "waiting"
                             THEN outcome'[b] # "none"
                             ELSE outcome'[b] = outcome[b]
      BY <1>5, <1>0 DEF Exit, Crash, Ended, ClientGone
    <2> QED
      BY <1>0, <2>1, <2>2, TallySteady
  <1>6. CASE UNCHANGED <<outcome, simVars>>
    BY <1>6, TallySteady, <1>0
  <1>7. ASSUME NEW a \in Attempts,
               WriteError(a) \/ ContextDone(a) \/ Publish(a) \/ Written(a) \/
                 Consume(a)
        PROVE  UNCHANGED <<outcome, simVars>>
    BY <1>7 DEF WriteError, ContextDone, Publish, Written, Consume, BatchDone
  <1>8. ASSUME Start \/ Drained \/ DrainDeadline \/ Terminate \/ ServeError \/
                 StreamOpens \/ StreamEnds \/ Polling
        PROVE  UNCHANGED <<outcome, simVars>>
    BY <1>8 DEF Start, Drained, DrainDeadline, Terminate, ServeError, Enter,
       StreamOpens, StreamEnds, Polling, HandleGetCalls, Show
  <1> QED
    BY <1>1, <1>2, <1>3, <1>4, <1>5, <1>6, <1>7, <1>8
       DEF Next, Progress, Shutdown, Handle

LEMMA TallyInductive == Spec => [](TypeOK /\ TallyInv)
  <1>1. ASSUME Init
        PROVE  TallyInv
    <2>1. Settled = {} /\ Successes = {}
      BY <1>1, SimulatedAttempt DEF Init, Settled, Successes
    <2>2. Cardinality(Settled) = 0 /\ Cardinality(Successes) = 0
      BY <2>1, FS_EmptySet
    <2> QED
      BY <1>1, <2>2, SimulatedAttempt DEF Init, TallyInv
  <1>2. TypeOK /\ TallyInv /\ UNCHANGED vars => TallyInv'
    BY DEF TallyInv, Settled, Successes, vars
  <1> QED
    BY <1>1, <1>2, TallyNext, TypeCorrect, PTL DEF Spec

(* What the simulator has counted as sent is in the topic.                  *)
LEMMA SentInTopic ==
  ASSUME TypeOK, TallyInv, AcceptedIsQueued
  PROVE  sent <= Cardinality({a \in topic : a[1] \in Simulated})
  <1> DEFINE T == {a \in topic : a[1] \in Simulated}
             f == [c \in Successes |-> <<c, 1>>]
  <1>1. T \subseteq Simulated \X {1}
    BY CallsAssumption DEF TypeOK, Attempts
  <1>2. IsFiniteSet(Simulated \X {1})
    BY CallsAssumption, FS_Singleton, FS_Product
  <1>3. IsFiniteSet(T)
    BY <1>1, <1>2, FS_Subset
  <1>4. \A c \in Successes : <<c, 1>> \in T
    BY SimulatedAttempt DEF Successes, AcceptedIsQueued
  <1>5. f \in Injection(Successes, T)
    BY <1>4 DEF Injection, IsInjective
  <1>6. Cardinality(Successes) <= Cardinality(T)
    BY <1>3, <1>5, FS_Injection
  <1> QED
    BY <1>6 DEF TallyInv

(* The simulator's counters add up, and never claim more than Kafka has.    *)
THEOREM Tallied == Spec => []TallyHonest
  <1>1. TypeOK /\ TallyInv /\ AcceptedIsQueued => TallyHonest
    BY SentInTopic DEF TallyInv, Settled, TallyHonest
  <1> QED
    BY <1>1, TallyInductive, AcceptedQueued, PTL

-----------------------------------------------------------------------------
(* Nothing accepted is lost, nothing shown is made up.                      *)

(* Only the consumers change what is stored, given up and done with.        *)
LEMMA WithoutConsume ==
  ASSUME Next, ~ \E a \in Attempts : Consume(a)
  PROVE  UNCHANGED <<handled, rows, excused>>
  BY DEF Next, Progress, Polling, Shutdown, Handle, Post, Generate, Tally,
     GiveUp, WriteError, ContextDone, BatchDone, Start, Drained, DrainDeadline,
     Exit, Ended, Enter, Publish, Written, Answer, Terminate, ServeError, Crash,
     StreamOpens, StreamEnds, HandleGetCalls, Show

(* A message the consumers are through with has a row or an excuse.  One    *)
(* that is dropped has them from the message its id was seen in before.     *)
Kept(a) == Row(a).id \in excused \/ \E r \in rows : r.id = Row(a).id

KeptInv == \A a \in handled : Kept(a)

LEMMA KeptNext == KeptInv /\ Next => KeptInv'
  <1> SUFFICES ASSUME KeptInv, Next PROVE KeptInv'
    OBVIOUS
  <1>1. ASSUME NEW a \in Attempts, Consume(a)
        PROVE  KeptInv'
    <2>1. /\ handled' = handled \union {a}
          /\ rows \subseteq rows' /\ excused \subseteq excused'
      BY <1>1 DEF Consume
    <2>2. \A b : Kept(b) => Kept(b)'
      BY <2>1 DEF Kept
    <2>3. Kept(a)'
      <3>1. Seen(Row(a).id) => Kept(a)
        BY DEF Seen, KeptInv, Kept
      <3>2. \/ Seen(Row(a).id)
            \/ Row(a) \in rows'
            \/ Row(a).id \in excused'
        BY <1>1 DEF Consume
      <3> QED
        BY <2>2, <3>1, <3>2 DEF Kept
    <2> QED
      BY <2>1, <2>2, <2>3 DEF KeptInv
  <1>2. CASE ~ \E a \in Attempts : Consume(a)
    BY <1>2, WithoutConsume DEF KeptInv, Kept
  <1> QED
    BY <1>1, <1>2

(* A client that was told 202 can count on its call: the message waits in   *)
(* Kafka, or a row with its id is there, or the consumers gave that id up   *)
(* with an excuse.                                                          *)
THEOREM NothingAcceptedIsLost == Spec => []AcceptedIsKept
  <1>1. Init => KeptInv
    BY DEF Init, KeptInv
  <1>2. KeptInv /\ UNCHANGED vars => KeptInv'
    BY DEF KeptInv, Kept, vars
  <1>3. KeptInv /\ AcceptedIsQueued => AcceptedIsKept
    BY DEF KeptInv, Kept, AcceptedIsQueued, AcceptedIsKept
  <1> QED
    BY <1>1, <1>2, <1>3, KeptNext, AcceptedQueued, PTL DEF Spec

-----------------------------------------------------------------------------
(* Where messages, rows and what is shown come from.                        *)

Posted(a) == outcome[a] # "none"

(* A handler, a message waiting or written are of an attempt somebody made. *)
PostedInv ==
  \A a \in Attempts :
    stage[a] # "none" \/ a \in batch \union topic => Posted(a)

LEMMA PostedNext ==
  ASSUME TypeOK, PostedInv, Next
  PROVE  PostedInv' /\ \A a \in Attempts : Posted(a) => Posted(a)'
  <1> USE DEF PostedInv, Posted
  <1>0. /\ outcome \in [Attempts -> Outcomes]
        /\ stage \in [Attempts -> Stages]
    BY DEF TypeOK
  <1>1. CASE \E c \in Clients : \E n \in 1 .. MaxTries : Post(c, n)
    <2>1. PICK c \in Clients, n \in 1 .. MaxTries : Post(c, n)
      BY <1>1
    <2>2. <<c, n>> \in Attempts
      BY ClientAttempt
    <2> QED
      BY <2>1, <2>2, <1>0 DEF Post, Request
  <1>2. CASE \E c \in Simulated : Generate(c)
    <2>1. PICK c \in Simulated : Generate(c)
      BY <1>2
    <2>2. <<c, 1>> \in Attempts
      BY SimulatedAttempt
    <2> QED
      BY <2>1, <2>2, <1>0 DEF Generate, Request
  <1>3. CASE \E a \in Attempts : GiveUp(a) \/ WriteError(a) \/ ContextDone(a)
    <2>1. PICK a \in Attempts : GiveUp(a) \/ WriteError(a) \/ ContextDone(a)
      BY <1>3
    <2>2. CASE GiveUp(a)
      BY <2>2, <1>0 DEF GiveUp
    <2>3. CASE WriteError(a)
      BY <2>3, <1>0 DEF WriteError, BatchDone, Returns
    <2>4. CASE ContextDone(a)
      BY <2>4, <1>0 DEF ContextDone, Returns
    <2> QED
      BY <2>1, <2>2, <2>3, <2>4
  <1>4. CASE \E a \in Attempts : Handle(a)
    <2>1. PICK a \in Attempts : Handle(a)
      BY <1>4
    <2>2. CASE Publish(a)
      BY <2>2, <1>0 DEF Publish, Returns
    <2>3. CASE Written(a)
      BY <2>3, <1>0 DEF Written, BatchDone, Returns
    <2>4. CASE Answer(a)
      BY <2>4, <1>0 DEF Answer, Told
    <2> QED
      BY <2>1, <2>2, <2>3, <2>4 DEF Handle
  <1>5. CASE Exit \/ Crash
    <2>1. /\ topic' \subseteq topic \union batch /\ batch' = {}
          /\ \A a \in Attempts : Posted(a) => Posted(a)'
      BY <1>5, <1>0 DEF Exit, Crash, Ended
    <2>2. \A a \in Attempts : stage'[a] # "none" => stage[a] # "none"
      BY <1>5, <1>0 DEF Exit, Crash, Ended, Active
    <2> QED
      BY <2>1, <2>2
  <1>6. CASE \/ Tally \/ Start \/ Drained \/ DrainDeadline
             \/ Terminate \/ ServeError \/ StreamOpens \/ StreamEnds
             \/ Polling \/ \E a \in Attempts : Consume(a)
    <2>1. UNCHANGED <<outcome, stage, batch, topic>>
      BY <1>6 DEF Tally, Start, Drained, DrainDeadline, Enter, Terminate,
         ServeError, StreamOpens, StreamEnds, Polling, HandleGetCalls, Show,
         Consume
    <2> QED
      BY <2>1
  <1> QED
    BY <1>1, <1>2, <1>3, <1>4, <1>5, <1>6 DEF Next, Progress, Shutdown

(* Every row is of a message, the page and the answers for it are of rows.  *)
ShownInv ==
  /\ \A r \in rows : \E a \in topic : r = Row(a)
  /\ page \subseteq rows
  /\ answers \in Seq(SUBSET rows)

LEMMA ShownNext ==
  ASSUME TypeOK, ShownInv, Next
  PROVE  ShownInv'
  <1>1. topic \subseteq topic'
    BY DEF Next, Progress, Polling, Shutdown, Handle, Post, Generate, Tally,
       GiveUp, WriteError, ContextDone, BatchDone, Start, Drained, DrainDeadline,
       Exit, Ended, Enter, Publish, Written, Answer, Terminate, ServeError, Crash,
       StreamOpens, StreamEnds, HandleGetCalls, Show, Consume
  <1>2. CASE \E a \in Attempts : Consume(a)
    <2>1. PICK a \in topic : /\ rows \subseteq rows'
                             /\ rows' \subseteq rows \union {Row(a)}
                             /\ UNCHANGED <<page, answers>>
      BY <1>2 DEF Consume
    <2>2. answers' \in Seq(SUBSET rows')
      BY <2>1, SUBSET rows \subseteq SUBSET rows', SeqMonotonic DEF ShownInv
    <2> QED
      BY <1>1, <2>1, <2>2 DEF ShownInv
  <1>3. CASE ~ \E a \in Attempts : Consume(a)
    <2>1. rows' = rows
      BY <1>3, WithoutConsume
    <2>2. CASE HandleGetCalls
      BY <1>1, <2>1, <2>2, AppendProperties DEF HandleGetCalls, ShownInv
    <2>3. ASSUME NEW k \in DOMAIN answers, Show(k)
          PROVE  ShownInv'
      <3>1. answers[k] \in SUBSET rows
        BY ElementOfSeq, LenProperties DEF ShownInv
      <3>2. Without(answers, k) \in Seq(SUBSET rows)
        BY WithoutType DEF ShownInv
      <3> QED
        BY <1>1, <2>1, <2>3, <3>1, <3>2 DEF Show, ShownInv
    <2>4. CASE ~Polling
      <3>1. UNCHANGED <<page, answers>>
        BY <2>4 DEF Next, Progress, Shutdown, Handle, Post, Generate, Tally,
           GiveUp, WriteError, ContextDone, BatchDone, Start, Drained,
           DrainDeadline, Exit, Ended, Enter, Publish, Written, Answer, Terminate,
           ServeError, Crash, StreamOpens, StreamEnds, Consume
      <3> QED
        BY <1>1, <2>1, <3>1 DEF ShownInv
    <2> QED
      BY <2>2, <2>3, <2>4 DEF Polling
  <1> QED
    BY <1>2, <1>3

(* From the page back to a client: what the dashboard shows is in the table,*)
(* and each row is of a message in Kafka that somebody posted.              *)
THEOREM NothingShownIsMadeUp == Spec => []PageIsPosted
  <1>1. Init => PostedInv /\ ShownInv
    BY EmptySeq DEF Init, PostedInv, Posted, ShownInv
  <1>2. (PostedInv /\ ShownInv) /\ UNCHANGED vars => (PostedInv /\ ShownInv)'
    BY DEF PostedInv, Posted, ShownInv, vars
  <1>3. TypeOK /\ PostedInv /\ ShownInv => PageIsPosted
    <2> SUFFICES ASSUME TypeOK, PostedInv, ShownInv PROVE PageIsPosted
      OBVIOUS
    <2>1. \A k \in DOMAIN answers : answers[k] \subseteq rows
      BY ElementOfSeq, LenProperties DEF ShownInv
    <2> QED
      BY <2>1 DEF PageIsPosted, PostedInv, Posted, ShownInv, TypeOK
  <1> QED
    BY <1>1, <1>2, <1>3, PostedNext, ShownNext, TypeCorrect, PTL DEF Spec
=============================================================================
