------------------------------- MODULE Pipeline -------------------------------
(***************************************************************************)
(* llmwatch from end to end: clients that post calls and repeat them, the  *)
(* load simulator (cmd/simulator), the life of the API process around      *)
(* its handlers (cmd/api, internal/kafka producer), the consumers and the  *)
(* table, and a dashboard that polls the recent calls (useMetrics.ts).     *)
(*                                                                         *)
(* An attempt <<c, n>> is the n-th time call c is posted.  The consumers   *)
(* are drawn as EventConsumer shows them from outside: a message is stored,*)
(* recognised as a duplicate, or given up with an excuse.  The handler is  *)
(* that of one event; batches and the stream hub are in ApiServer.  The    *)
(* table is taken to hold no more rows than one answer lists (50).         *)
(***************************************************************************)
EXTENDS Integers, Sequences, FiniteSets, Functions

CONSTANTS
  Clients,     (* calls posted by instrumented applications                *)
  Simulated,   (* calls the simulator generates                            *)
  Supplies,    (* what the client of a call sets itself: "both" event_id   *)
               (* and timestamp, the "id" only, or "none"                  *)
  NoCall,      (* the simulator is not waiting for an answer               *)
  MaxTries,    (* bound: how often a client posts one call                 *)
  MaxPolls,    (* bound: polls of the dashboard in flight                  *)
  FaultBudget  (* bound: faults in a behaviour                             *)

ASSUME CallsAssumption ==
  /\ Clients \intersect Simulated = {}
  /\ NoCall \notin Simulated
  /\ Supplies \in [Clients -> {"both", "id", "none"}]
  /\ IsFiniteSet(Simulated)
ASSUME BoundsAssumption ==
  MaxTries \in Nat \ {0} /\ MaxPolls \in Nat \ {0} /\ FaultBudget \in Nat

Attempts == (Clients \X (1 .. MaxTries)) \union (Simulated \X {1})

VARIABLES
  outcome,  (* what the sender of an attempt knows of it                   *)
  stage,    (* where the API's handler of an attempt is                    *)
  api,      (* the API process; it ends by "closing" when every handler    *)
            (* was waited for, and by "forced" when not                    *)
  stream,   (* the dashboard's event stream is open                        *)
  batch,    (* attempts whose message waits in the Kafka writer            *)
  topic,    (* attempts whose message is in the topic                      *)
  handled,  (* those the consumers are through with                        *)
  rows,     (* PostgreSQL: the rows of llm_calls                           *)
  excused,  (* history: event ids given up by the consumers                *)
  simCall,  (* the call the simulator waits for                            *)
  sent,     (* the simulator's counters                                    *)
  failed,
  answers,  (* lists of calls on their way to the dashboard                *)
  page,     (* rows the dashboard shows                                    *)
  faults    (* faults so far                                               *)

clientVars == <<outcome>>
apiVars == <<stage, api, stream, batch>>
storeVars == <<topic, handled, rows, excused>>
simVars == <<simCall, sent, failed>>
pageVars == <<answers, page>>
vars == <<clientVars, apiVars, storeVars, simVars, pageVars, faults>>

Fault == faults < FaultBudget /\ faults' = faults + 1

-----------------------------------------------------------------------------
(* Events.                                                                  *)

(* generateEvent fills in everything the server would. *)
Sets(c) == IF c \in Simulated THEN "both" ELSE Supplies[c]

(* Wrong variant: Normalize gives every event an id of its own.             *)
RowFresh(a) == [id |-> a, ts |-> IF Sets(a[1]) = "both" THEN <<a[1], 0>> ELSE a]

(* The row of an attempt: what the client left out, Normalize fills in anew *)
(* each time.                                                               *)
Row(a) ==
  [id |-> IF Sets(a[1]) = "none" THEN a ELSE <<a[1], 0>>,
   ts |-> IF Sets(a[1]) = "both" THEN <<a[1], 0>> ELSE a]

RowsOf(c) == {r \in rows : r.id[1] = c}

-----------------------------------------------------------------------------
Init ==
  /\ outcome = [a \in Attempts |-> "none"]
  /\ stage = [a \in Attempts |-> "none"]
  /\ api = "down"
  /\ stream = FALSE
  /\ batch = {}
  /\ topic = {}
  /\ handled = {}
  /\ rows = {}
  /\ excused = {}
  /\ simCall = NoCall
  /\ sent = 0
  /\ failed = 0
  /\ answers = << >>
  /\ page = {}
  /\ faults = 0

-----------------------------------------------------------------------------
(* Clients and the simulator.                                               *)

(* A request reaches a process that listens; any other refuses the          *)
(* connection.                                                              *)
Request(a) ==
  IF api = "up"
  THEN /\ outcome' = [outcome EXCEPT ![a] = "waiting"]
       /\ stage' = [stage EXCEPT ![a] = "received"]
  ELSE /\ outcome' = [outcome EXCEPT ![a] = "lost"]
       /\ UNCHANGED stage

(* A client posts a call, again as long as it has not been accepted.  (A    *)
(* connection that is refused is no attempt.)                               *)
Post(c, n) ==
  /\ api = "up"
  /\ outcome[<<c, n>>] = "none"
  /\ n > 1 => outcome[<<c, n - 1>>] \notin {"none", "waiting", "accepted"}
  /\ Request(<<c, n>>)
  /\ UNCHANGED <<api, stream, batch, storeVars, simVars, pageVars, faults>>

(* The client's timeout, 10 seconds in the simulator, or its connection     *)
(* breaks, at the latest with the server's WriteTimeout.  The server cancels*)
(* the context of the request.                                              *)
GiveUp(a) ==
  /\ outcome[a] = "waiting"
  /\ outcome' = [outcome EXCEPT ![a] = "lost"]
  /\ UNCHANGED <<apiVars, storeVars, simVars, pageVars, faults>>

(* A tick of the simulator: one event, and sendEvent holds up the loop.     *)
Generate(c) ==
  /\ simCall = NoCall
  /\ outcome[<<c, 1>>] = "none"
  /\ simCall' = c
  /\ Request(<<c, 1>>)
  /\ UNCHANGED <<api, stream, batch, storeVars, sent, failed, pageVars,
                 faults>>

(* Wrong variant: sendEvent does not look at the status code.               *)
AnsweredAtAll(o) == o \in {"accepted", "refused"}

(* sendEvent returns nil: an answer came and its code is below 300.         *)
SendSucceeded(o) == o = "accepted"

(* sendEvent returns and the simulator counts.                              *)
Tally ==
  /\ simCall # NoCall
  /\ outcome[<<simCall, 1>>] \notin {"none", "waiting"}
  /\ IF SendSucceeded(outcome[<<simCall, 1>>])
     THEN sent' = sent + 1 /\ UNCHANGED failed
     ELSE failed' = failed + 1 /\ UNCHANGED sent
  /\ simCall' = NoCall
  /\ UNCHANGED <<clientVars, apiVars, storeVars, pageVars, faults>>

-----------------------------------------------------------------------------
(* HandleIngestEvent and KafkaProducer.Publish.                             *)

Active == {a \in Attempts : stage[a] \in {"received", "publish", "202", "500"}}

ClientGone(a) == outcome[a] # "waiting"

(* run has returned: its deferred calls have closed the Kafka writer.       *)
WriterClosed == api \in {"closing", "forced"}

(* Publish returns, and the handler goes on to write its answer.            *)
Returns(a, code) == stage' = [stage EXCEPT ![a] = code]

(* Wrong variant: the message is handed to the writer and not waited for.   *)
PublishAsync(a) ==
  /\ stage[a] = "received"
  /\ IF WriterClosed
     THEN Returns(a, "500") /\ UNCHANGED batch
     ELSE /\ batch' = batch \union {a}
          /\ Returns(a, "202")
  /\ UNCHANGED <<clientVars, api, stream, storeVars, simVars, pageVars,
                 faults>>

(* WriteMessages puts the message into a batch, or finds the writer closed. *)
Publish(a) ==
  /\ stage[a] = "received"
  /\ IF WriterClosed
     THEN Returns(a, "500") /\ UNCHANGED batch
     ELSE /\ batch' = batch \union {a}
          /\ stage' = [stage EXCEPT ![a] = "publish"]
  /\ UNCHANGED <<clientVars, api, stream, storeVars, simVars, pageVars,
                 faults>>

(* The batch of a is done with, whether its handler still waits or not.     *)
BatchDone(a, code) ==
  /\ a \in batch
  /\ batch' = batch \ {a}
  /\ IF stage[a] = "publish"
     THEN Returns(a, code)
     ELSE UNCHANGED stage
  /\ UNCHANGED <<clientVars, api, stream, handled, rows, excused, simVars,
                 pageVars>>

(* All replicas have the message (RequireAll).                              *)
Written(a) ==
  /\ BatchDone(a, "202")
  /\ topic' = topic \union {a}
  /\ UNCHANGED faults

(* The last of five tries fails; a try whose answer was lost has written.   *)
WriteError(a) ==
  /\ Fault
  /\ BatchDone(a, "500")
  /\ topic' \in {topic, topic \union {a}}

(* The context of the request ends the wait and leaves the batch behind.    *)
ContextDone(a) ==
  /\ stage[a] = "publish"
  /\ ClientGone(a)
  /\ Returns(a, "500")
  /\ UNCHANGED <<clientVars, api, stream, batch, storeVars, simVars,
                 pageVars, faults>>

Told(a) == IF stage[a] = "202" THEN "accepted" ELSE "refused"

(* The answer is written, and reaches the client if it is still there.      *)
Answer(a) ==
  /\ stage[a] \in {"202", "500"}
  /\ stage' = [stage EXCEPT ![a] = "over"]
  /\ outcome' = IF ClientGone(a) THEN outcome
                ELSE [outcome EXCEPT ![a] = Told(a)]
  /\ UNCHANGED <<api, stream, batch, storeVars, simVars, pageVars, faults>>

-----------------------------------------------------------------------------
(* The life of the API process: run of cmd/api.                             *)

(* The container starts, or is started again (restart: unless-stopped).     *)
Start ==
  /\ api = "down"
  /\ api' = "up"
  /\ UNCHANGED <<clientVars, stage, stream, batch, storeVars, simVars,
                 pageVars, faults>>

Enter(phase) ==
  /\ api' = phase
  /\ UNCHANGED <<clientVars, stage, stream, batch, storeVars, simVars,
                 pageVars>>

(* SIGTERM: Shutdown closes the listener and waits.                         *)
Terminate ==
  /\ api = "up"
  /\ Fault
  /\ Enter("draining")

(* ListenAndServe fails: run returns at once, with handlers at work.        *)
ServeError ==
  /\ api = "up"
  /\ Fault
  /\ Enter("forced")

(* Wrong variant: Shutdown waits for the stream's handler only.             *)
ConnectionsIdleStreams == ~stream

(* Every handler has returned, those of the streams too.                    *)
ConnectionsIdle == Active = {} /\ ~stream

Drained ==
  /\ api = "draining"
  /\ ConnectionsIdle
  /\ Enter("closing")
  /\ UNCHANGED faults

(* Wrong variant: Shutdown is called with a context that has no deadline.   *)
NoDeadline == FALSE /\ UNCHANGED vars

(* ShutdownTimeout is over first.                                           *)
DrainDeadline ==
  /\ api = "draining"
  /\ ~ConnectionsIdle
  /\ Enter("forced")
  /\ UNCHANGED faults

(* The process is gone: connections are cut, handlers end where they are.   *)
Ended ==
  /\ api' = "down"
  /\ stream' = FALSE
  /\ outcome' = [a \in Attempts |->
                   IF a \notin Active \/ ClientGone(a) THEN outcome[a]
                   ELSE IF api = "closing" THEN "cut" ELSE "lost"]
  /\ stage' = [a \in Attempts |-> IF a \in Active THEN "over" ELSE stage[a]]
  /\ batch' = {}
  /\ UNCHANGED <<handled, rows, excused, simVars, pageVars>>

(* The deferred producer.Close waits for the batches, and the process exits *)
Exit ==
  /\ WriterClosed
  /\ batch = {}
  /\ Ended
  /\ UNCHANGED <<topic, faults>>

(* The process is killed, its batches written or not.                       *)
Crash ==
  /\ api # "down"
  /\ Fault
  /\ Ended
  /\ \E kept \in SUBSET batch : topic' = topic \union kept

(* The dashboard opens its stream and leaves it; a write may fail as well.  *)
StreamOpens ==
  /\ api = "up" /\ ~stream
  /\ stream' = TRUE
  /\ UNCHANGED <<clientVars, stage, api, batch, storeVars, simVars, pageVars,
                 faults>>

StreamEnds ==
  /\ stream
  /\ stream' = FALSE
  /\ UNCHANGED <<clientVars, stage, api, batch, storeVars, simVars, pageVars,
                 faults>>

-----------------------------------------------------------------------------
(* The consumers, from outside.                                             *)

Seen(id) == \E a \in handled : Row(a).id = id

(* A new id is stored, one seen before dropped; the dedup key may be gone,  *)
(* and the insert may fail with the row there or not.                       *)
Consume(a) ==
  /\ a \in topic \ handled
  /\ handled' = handled \union {a}
  /\ \/ /\ ~Seen(Row(a).id)
        /\ rows' = rows \union {Row(a)}
        /\ UNCHANGED <<excused, faults>>
     \/ /\ Seen(Row(a).id)
        /\ UNCHANGED <<rows, excused, faults>>
     \/ /\ Seen(Row(a).id)
        /\ Fault
        /\ rows' = rows \union {Row(a)}
        /\ UNCHANGED excused
     \/ /\ Fault
        /\ rows' \in {rows, rows \union {Row(a)}}
        /\ excused' = excused \union {Row(a).id}
  /\ UNCHANGED <<clientVars, apiVars, topic, simVars, pageVars>>

-----------------------------------------------------------------------------
(* useMetrics: setInterval starts a poll whether or not the last is over,   *)
(* and HandleGetCalls reads the recent calls for it.  (Before that a poll   *)
(* is of no consequence, and one of whose seven requests any fails is not   *)
(* either: what is shown stays.)                                            *)
HandleGetCalls ==
  /\ api \in {"up", "draining"}
  /\ Len(answers) < MaxPolls
  /\ answers' = Append(answers, rows)
  /\ UNCHANGED <<clientVars, apiVars, storeVars, simVars, page, faults>>

Without(s, k) == SubSeq(s, 1, k - 1) \o SubSeq(s, k + 1, Len(s))

(* Wrong variant: the page is updated once, when it is loading.             *)
ShowFirst(k) ==
  /\ page' = IF page = {} THEN answers[k] ELSE page
  /\ answers' = Without(answers, k)
  /\ UNCHANGED <<clientVars, apiVars, storeVars, simVars, faults>>

(* The answers of a poll replace what is shown, in whatever order they come *)
Show(k) ==
  /\ page' = answers[k]
  /\ answers' = Without(answers, k)
  /\ UNCHANGED <<clientVars, apiVars, storeVars, simVars, faults>>

-----------------------------------------------------------------------------
Handle(a) == Publish(a) \/ Written(a) \/ Answer(a)

Shutdown == Drained \/ DrainDeadline \/ Exit

(* What runs by itself once it can. *)
Progress == Start \/ Shutdown \/ \E a \in Attempts : Handle(a) \/ Consume(a)

Polling == HandleGetCalls \/ \E k \in DOMAIN answers : Show(k)

Next ==
  \/ \E c \in Clients : \E n \in 1 .. MaxTries : Post(c, n)
  \/ \E c \in Simulated : Generate(c)
  \/ Tally
  \/ \E a \in Attempts : GiveUp(a) \/ WriteError(a) \/ ContextDone(a)
  \/ Progress
  \/ Terminate \/ ServeError \/ Crash
  \/ StreamOpens \/ StreamEnds
  \/ Polling

Spec == Init /\ [][Next]_vars

(* Goroutines, the writer, the deadline of Shutdown and the consumers make  *)
(* progress and a stopped container is started again; the page's timer goes *)
(* on and its polls are answered while the API runs.  No client, stream or  *)
(* simulator has to do anything.                                            *)
Fairness == WF_vars(Progress) /\ WF_vars(Polling)

FairSpec == Spec /\ Fairness

-----------------------------------------------------------------------------
(* What event ids and time stamps are drawn from: <<c, 0>> is the one the   *)
(* client of c chose, an attempt stands for one the server chose for it.    *)
Names == Attempts \union ((Clients \union Simulated) \X {0})

Rows == [id : Names, ts : Names]

Outcomes == {"none", "waiting", "accepted", "refused", "lost", "cut"}

Stages == {"none", "received", "publish", "202", "500", "over"}

(* The state has the right shape, and no more polls are in flight than the  *)
(* bound allows.                                                            *)
TypeOK ==
  /\ outcome \in [Attempts -> Outcomes]
  /\ stage \in [Attempts -> Stages]
  /\ api \in {"down", "up", "draining", "closing", "forced"}
  /\ stream \in BOOLEAN
  /\ batch \subseteq Attempts
  /\ topic \subseteq Attempts
  /\ handled \subseteq topic
  /\ rows \subseteq Rows
  /\ excused \subseteq Names
  /\ simCall \in Simulated \union {NoCall}
  /\ sent \in Nat
  /\ failed \in Nat
  /\ answers \in Seq(SUBSET Rows)
  /\ Len(answers) <= MaxPolls
  /\ page \subseteq Rows
  /\ faults \in 0 .. FaultBudget

(* What a client was told is accepted is in Kafka, whatever became since of *)
(* the process that told it: Publish returns nil only when the message is   *)
(* written, and the handler answers 202 only then.                          *)
AcceptedIsQueued ==
  \A a \in Attempts : outcome[a] = "accepted" => a \in topic

(* What a client was told is accepted is at no moment lost: its message is  *)
(* still to be consumed, or there is a row with its id, or an excuse.  A    *)
(* message dropped as a duplicate relies on what became of the first one    *)
(* (Process and IsDuplicate).                                               *)
AcceptedIsKept ==
  \A a \in Attempts :
    outcome[a] = "accepted" =>
      \/ a \in topic \ handled
      \/ Row(a).id \in excused
      \/ \E r \in rows : r.id = Row(a).id

(* The dashboard shows nothing that is not in the table, answers of polls   *)
(* that overtake each other included, and every row there is of a message   *)
(* in the topic that somebody posted (useMetrics.ts, HandleGetCalls).       *)
PageIsPosted ==
  /\ page \subseteq rows
  /\ \A k \in DOMAIN answers : answers[k] \subseteq rows
  /\ \A r \in rows : \E a \in topic : r = Row(a) /\ outcome[a] # "none"

(* A stop by a signal whose handlers finish in time cuts no client off and  *)
(* refuses no event because the writer is closed already: run closes the    *)
(* producer, by defer, only after Shutdown has returned.                    *)
CleanStopAnswersAll ==
  /\ \A a \in Attempts : outcome[a] # "cut"
  /\ api = "closing" => Active = {}

(* A call that its client names and stamps itself, as the simulator does,   *)
(* has one row, however often it is posted, written to the topic by a       *)
(* handler nobody waits for any more, or consumed after its dedup key is    *)
(* gone: Normalize keeps what is set, and the table's key does the rest.    *)
OneRowPerNamedCall ==
  \A c \in Clients \union Simulated :
    Sets(c) = "both" => Cardinality(RowsOf(c)) <= 1

(* The simulator counts every event it has generated once, and never        *)
(* reports more as sent than are in the topic; one it reports as failed may *)
(* be there too.                                                            *)
TallyHonest ==
  /\ sent + failed =
       Cardinality({c \in Simulated : outcome[<<c, 1>>] # "none"} \ {simCall})
  /\ sent <= Cardinality({a \in topic : a[1] \in Simulated})

(* What clients were told is accepted reaches the table, all of it, or the  *)
(* consumers have an excuse, though the API may be stopped or killed before.*)
AcceptedIsStored ==
  []<>(\A a \in Attempts :
         outcome[a] = "accepted" =>
           Row(a).id \in excused \/ \E r \in rows : r.id = Row(a).id)

(* A stop comes to its end although a dashboard keeps its stream open: the  *)
(* deadline of Shutdown ends the wait.                                      *)
ShutdownEnds == []<>(api # "draining")

(* The dashboard shows all of the table again and again: polls go on after  *)
(* errors and restarts, and an older answer that arrives late is replaced.  *)
DashboardCatchesUp == []<>(page = rows)
=============================================================================
