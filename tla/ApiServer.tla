------------------------------ MODULE ApiServer ------------------------------
(***************************************************************************)
(* The write side of the HTTP API of llmwatch (internal/api/handlers.go):  *)
(* the handlers that take events from clients and publish them to Kafka,   *)
(* and the hub that copies every published event to the streams of the     *)
(* open dashboards (Server-Sent Events).                                   *)
(*                                                                         *)
(* Each request and each stream is a goroutine of its own.  They meet in   *)
(* the map sseClients, guarded by the RWMutex sseMu, and in the buffered   *)
(* channel every stream owns: a broadcast sends while it holds the lock    *)
(* for reading, a stream is added, removed and closed under the lock for   *)
(* writing.  A step ends where a goroutine may be held up: at the call to  *)
(* Kafka, at the lock, between two sends, at the write to the client.      *)
(*                                                                         *)
(* A message is <<r, i>>, the i-th event in the body of request r.         *)
(* Keepalive pings change no state.  What Publish does is modelled from    *)
(* its result: kafka-go may report an error for a message that was written.*)
(***************************************************************************)
EXTENDS Integers, Sequences, FiniteSets, Functions

CONSTANTS
  Requests,    (* requests to the two ingest endpoints                     *)
  Body,        (* what each request sends, see BodyType                    *)
  BatchLimit,  (* the largest batch, 1000 in the code                      *)
  Streams,     (* connections to /api/v1/events/stream                     *)
  Buffer       (* capacity of a stream's channel, 64 in the code           *)

(* "bad" stands for an event Validate rejects.                              *)
BodyType == [kind : {"single", "batch", "garbage"}, events : Seq({"ok", "bad"})]

ASSUME BodyAssumption ==
  /\ Body \in [Requests -> BodyType]
  /\ \A r \in Requests : Body[r].kind = "single" => Len(Body[r].events) = 1
ASSUME SizesAssumption == BatchLimit \in Nat /\ Buffer \in Nat \ {0}

VARIABLES
  pc,          (* where the goroutine of a request is                      *)
  idx,         (* the event of its body it is at                           *)
  todo,        (* channels its broadcast has yet to send to                *)
  accepted,    (* events of the request that were published                *)
  failed,      (* events of the request that were not                      *)
  reply,       (* status code of the answer, 0 before it                   *)
  queued,      (* Kafka: messages written to the topic                     *)
  sseClients,  (* streams registered with the hub                          *)
  channel,     (* the buffer of each stream                                *)
  closed,      (* streams whose channel is closed                          *)
  conn,        (* where the goroutine of a stream is                       *)
  cancelled,   (* streams whose request context is done                    *)
  writing,     (* what a stream is writing to its client                   *)
  wire,        (* messages each client has received                        *)
  feed,        (* messages its page has put into its list                  *)
  panicked     (* a goroutine sent to, or closed, a closed channel         *)

requestVars == <<pc, idx, todo, accepted, failed, reply, queued>>
streamVars == <<conn, cancelled, writing, wire, feed>>
hubVars == <<sseClients, channel, closed, panicked>>
vars == <<requestVars, streamVars, hubVars>>

Messages == UNION {{r} \X (1 .. Len(Body[r].events)) : r \in Requests}

Event(r) == Body[r].events[idx[r]]

(* A reader holds sseMu exactly while it broadcasts; a stream asks for the  *)
(* write lock when it comes and when it goes, and a waiting writer keeps    *)
(* new readers out.                                                         *)
Readers == {r \in Requests : pc[r] = "send"}

WriterWaiting == \E s \in Streams : conn[s] \in {"open", "leaving"}

-----------------------------------------------------------------------------
Init ==
  /\ pc = [r \in Requests |-> "new"]
  /\ idx = [r \in Requests |-> 1]
  /\ todo = [r \in Requests |-> {}]
  /\ accepted = [r \in Requests |-> 0]
  /\ failed = [r \in Requests |-> 0]
  /\ reply = [r \in Requests |-> 0]
  /\ queued = {}
  /\ sseClients = {}
  /\ channel = [s \in Streams |-> << >>]
  /\ closed = {}
  /\ conn = [s \in Streams |-> "new"]
  /\ cancelled = {}
  /\ writing = [s \in Streams |-> << >>]
  /\ wire = [s \in Streams |-> << >>]
  /\ feed = [s \in Streams |-> << >>]
  /\ panicked = FALSE

-----------------------------------------------------------------------------
(* HandleIngestEvent and HandleIngestBatch.                                 *)

Respond(r, status) ==
  /\ pc' = [pc EXCEPT ![r] = "done"]
  /\ reply' = [reply EXCEPT ![r] = status]
  /\ UNCHANGED idx

(* The body is decoded and, in a batch, counted. *)
Decode(r) ==
  /\ pc[r] = "new"
  /\ CASE Body[r].kind = "garbage" -> Respond(r, 400)
       [] Body[r].kind = "batch" /\ Len(Body[r].events) > BatchLimit ->
            Respond(r, 413)
       [] Body[r].kind = "batch" /\ Body[r].events = << >> -> Respond(r, 202)
       [] OTHER -> /\ pc' = [pc EXCEPT ![r] = "publish"]
                   /\ UNCHANGED <<idx, reply>>
  /\ UNCHANGED <<todo, accepted, failed, queued, streamVars, hubVars>>

(* The batch goes on to its next event, or is answered with the counts. *)
NextEvent(r) ==
  IF idx[r] < Len(Body[r].events)
  THEN /\ idx' = [idx EXCEPT ![r] = @ + 1]
       /\ pc' = [pc EXCEPT ![r] = "publish"]
       /\ UNCHANGED reply
  ELSE Respond(r, 202)

(* Wrong variant: a refused event of a batch is left out of the counts. *)
RefuseUncounted(r, status) ==
  /\ UNCHANGED failed
  /\ IF Body[r].kind = "batch" THEN NextEvent(r) ELSE Respond(r, status)

(* An event is refused: a batch skips it, a single event decides the answer *)
Refuse(r, status) ==
  /\ failed' = [failed EXCEPT ![r] = @ + 1]
  /\ IF Body[r].kind = "batch" THEN NextEvent(r) ELSE Respond(r, status)

Validate(r) ==
  /\ pc[r] = "publish"
  /\ Event(r) = "bad"
  /\ Refuse(r, 422)
  /\ UNCHANGED <<todo, accepted, queued, streamVars, hubVars>>

(* Wrong variant: the error of Publish is logged, and the event goes on     *)
(* as if published.                                                         *)
PublishErrorIgnored(r) ==
  /\ pc[r] = "publish"
  /\ Event(r) = "ok"
  /\ queued' \in {queued, queued \union {<<r, idx[r]>>}}
  /\ pc' = [pc EXCEPT ![r] = "lock"]
  /\ UNCHANGED <<idx, failed, reply, todo, accepted, streamVars, hubVars>>

Publish(r) ==
  /\ pc[r] = "publish"
  /\ Event(r) = "ok"
  /\ \/ /\ queued' = queued \union {<<r, idx[r]>>}
        /\ pc' = [pc EXCEPT ![r] = "lock"]
        /\ UNCHANGED <<idx, failed, reply>>
     \/ /\ queued' \in {queued, queued \union {<<r, idx[r]>>}}
        /\ Refuse(r, 500)
  /\ UNCHANGED <<todo, accepted, streamVars, hubVars>>

-----------------------------------------------------------------------------
(* broadcastSSE.                                                            *)

RLock(r) ==
  /\ pc[r] = "lock"
  /\ ~WriterWaiting
  /\ todo' = [todo EXCEPT ![r] = sseClients]
  /\ pc' = [pc EXCEPT ![r] = "send"]
  /\ UNCHANGED <<idx, accepted, failed, reply, queued, streamVars, hubVars>>

(* Wrong variant: the channel takes a message more than it has room for. *)
OfferOneMore(s, m) ==
  IF Len(channel[s]) <= Buffer
  THEN channel' = [channel EXCEPT ![s] = Append(@, m)]
  ELSE UNCHANGED channel

(* Wrong variant: the send has no default case: it waits for room. *)
OfferBlocks(s, m) ==
  /\ Len(channel[s]) < Buffer
  /\ channel' = [channel EXCEPT ![s] = Append(@, m)]

(* The send never waits: a slow subscriber misses the message. *)
Offer(s, m) ==
  IF Len(channel[s]) < Buffer
  THEN channel' = [channel EXCEPT ![s] = Append(@, m)]
  ELSE UNCHANGED channel

Send(r) ==
  /\ pc[r] = "send"
  /\ \E s \in todo[r] :
       /\ todo' = [todo EXCEPT ![r] = @ \ {s}]
       /\ IF s \in closed
          THEN panicked' = TRUE /\ UNCHANGED channel
          ELSE Offer(s, <<r, idx[r]>>) /\ UNCHANGED panicked
  /\ UNCHANGED <<pc, idx, accepted, failed, reply, queued, sseClients, closed,
                 streamVars>>

RUnlock(r) ==
  /\ pc[r] = "send"
  /\ todo[r] = {}
  /\ accepted' = [accepted EXCEPT ![r] = @ + 1]
  /\ NextEvent(r)
  /\ UNCHANGED <<todo, failed, queued, streamVars, hubVars>>

-----------------------------------------------------------------------------
(* HandleSSEStream.                                                         *)

Move(s, from, to) ==
  /\ conn[s] = from
  /\ conn' = [conn EXCEPT ![s] = to]

Connect(s) ==
  /\ Move(s, "new", "open")
  /\ UNCHANGED <<requestVars, hubVars, cancelled, writing, wire, feed>>

(* Wrong variant: a stream is added to the map without the lock. *)
RegisterUnlocked(s) ==
  /\ Move(s, "open", "writing")
  /\ sseClients' = sseClients \union {s}
  /\ UNCHANGED <<requestVars, channel, closed, panicked, cancelled, writing,
                 wire, feed>>

(* registerSSEClient, and on to the write of the first ping. *)
RegisterSSEClient(s) ==
  /\ Move(s, "open", "writing")
  /\ Readers = {}
  /\ sseClients' = sseClients \union {s}
  /\ UNCHANGED <<requestVars, channel, closed, panicked, cancelled, writing,
                 wire, feed>>

(* The select takes the next message off the channel. *)
Receive(s) ==
  /\ Move(s, "idle", "writing")
  /\ channel[s] # << >>
  /\ writing' = [writing EXCEPT ![s] = <<Head(channel[s])>>]
  /\ channel' = [channel EXCEPT ![s] = Tail(@)]
  /\ UNCHANGED <<requestVars, sseClients, closed, panicked, cancelled, wire,
                 feed>>

(* The name the server gives to a call event, and those the page handles.   *)
EventName == "llm-call"
Listeners == {"message", "llm_call"}

(* The write reaches the client, whose page handles it if it listens for it *)
Flush(s) ==
  /\ Move(s, "writing", "idle")
  /\ s \notin cancelled
  /\ wire' = [wire EXCEPT ![s] = @ \o writing[s]]
  /\ feed' = IF EventName \in Listeners
             THEN [feed EXCEPT ![s] = writing[s] \o @]
             ELSE feed
  /\ writing' = [writing EXCEPT ![s] = << >>]
  /\ UNCHANGED <<requestVars, hubVars, cancelled>>

(* Wrong variant: a message whose write failed goes back to the end of      *)
(* the queue.                                                               *)
WriteRetried(s) ==
  /\ Move(s, "writing", "idle")
  /\ cancelled' = cancelled \union {s}
  /\ channel' = [channel EXCEPT ![s] = @ \o writing[s]]
  /\ writing' = [writing EXCEPT ![s] = << >>]
  /\ UNCHANGED <<requestVars, sseClients, closed, panicked, wire, feed>>

(* The write fails, at the latest when the server's WriteTimeout is over:   *)
(* the error is ignored, the server cancels the context of the request.     *)
WriteFails(s) ==
  /\ Move(s, "writing", "idle")
  /\ cancelled' = cancelled \union {s}
  /\ writing' = [writing EXCEPT ![s] = << >>]
  /\ UNCHANGED <<requestVars, hubVars, wire, feed>>

(* The client goes away. *)
Disconnect(s) ==
  /\ conn[s] \in {"open", "idle", "writing"}
  /\ s \notin cancelled
  /\ cancelled' = cancelled \union {s}
  /\ UNCHANGED <<requestVars, hubVars, conn, writing, wire, feed>>

(* Wrong variant: the handler returns without the deferred                  *)
(* unregisterSSEClient.                                                     *)
ReturnNoDefer(s) ==
  /\ Move(s, "idle", "gone")
  /\ s \in cancelled
  /\ UNCHANGED <<requestVars, hubVars, cancelled, writing, wire, feed>>

(* The select finds the context done; the deferred call waits for the lock. *)
Return(s) ==
  /\ Move(s, "idle", "leaving")
  /\ s \in cancelled
  /\ UNCHANGED <<requestVars, hubVars, cancelled, writing, wire, feed>>

(* Wrong variant: a stream is removed and its channel closed without the    *)
(* lock.                                                                    *)
UnregisterUnlocked(s) ==
  /\ Move(s, "leaving", "gone")
  /\ sseClients' = sseClients \ {s}
  /\ closed' = closed \union {s}
  /\ panicked' = (panicked \/ s \in closed)
  /\ UNCHANGED <<requestVars, channel, cancelled, writing, wire, feed>>

UnregisterSSEClient(s) ==
  /\ Move(s, "leaving", "gone")
  /\ Readers = {}
  /\ sseClients' = sseClients \ {s}
  /\ closed' = closed \union {s}
  /\ panicked' = (panicked \/ s \in closed)
  /\ UNCHANGED <<requestVars, channel, cancelled, writing, wire, feed>>

-----------------------------------------------------------------------------
Ingest(r) ==
  Decode(r) \/ Validate(r) \/ Publish(r) \/ RLock(r) \/ Send(r) \/ RUnlock(r)

(* What a stream's goroutine does by itself, its write apart. *)
Stream(s) == RegisterSSEClient(s) \/ Return(s) \/ UnregisterSSEClient(s)

Write(s) == Flush(s) \/ WriteFails(s)

Next ==
  \/ \E r \in Requests : Ingest(r)
  \/ \E s \in Streams : Connect(s) \/ Stream(s) \/ Receive(s) \/ Write(s) \/
                        Disconnect(s)

Spec == Init /\ [][Next]_vars

(* Goroutines that can run do run, a waiting writer gets the lock.  That a  *)
(* client ever reads is not assumed.                                        *)
Fairness ==
  /\ \A r \in Requests : WF_vars(Ingest(r))
  /\ \A s \in Streams : WF_vars(Stream(s))

(* The server's WriteTimeout ends every write, one way or the other.        *)
WriteFairness == \A s \in Streams : WF_vars(Write(s))

FairSpec == Spec /\ Fairness

-----------------------------------------------------------------------------
(* All that was ever handed to a stream: what its client has, what is being *)
(* written to it and what waits in its channel.                             *)
Delivered(s) == wire[s] \o writing[s] \o channel[s]

QueuedOf(r) == {m \in queued : m[1] = r}

(* The state has the right shape, and no channel holds more than its        *)
(* capacity (the make at the top of HandleSSEStream).                       *)
TypeOK ==
  /\ pc \in [Requests -> {"new", "publish", "lock", "send", "done"}]
  /\ idx \in [Requests -> Nat \ {0}]
  /\ todo \in [Requests -> SUBSET Streams]
  /\ accepted \in [Requests -> Nat]
  /\ failed \in [Requests -> Nat]
  /\ reply \in [Requests -> {0, 202, 400, 413, 422, 500}]
  /\ queued \subseteq Messages
  /\ sseClients \subseteq Streams
  /\ channel \in [Streams -> Seq(Messages)]
  /\ \A s \in Streams : Len(channel[s]) <= Buffer
  /\ closed \subseteq Streams
  /\ conn \in [Streams -> {"new", "open", "writing", "idle", "leaving", "gone"}]
  /\ cancelled \subseteq Streams
  /\ writing \in [Streams -> Seq(Messages)]
  /\ wire \in [Streams -> Seq(Messages)]
  /\ feed \in [Streams -> Seq(Messages)]
  /\ panicked \in BOOLEAN

(* However requests and dashboards come and go, no broadcast sends to the   *)
(* channel of a stream that has left and no channel is closed twice: the    *)
(* send and the close exclude each other by sseMu.                          *)
NeverPanics == ~panicked

(* A dashboard shows a call only if the call is in Kafka: broadcastSSE is   *)
(* reached only once Publish has returned without an error.                 *)
ShownIsQueued == \A s \in Streams : Range(Delivered(s)) \subseteq queued

(* The events of one request reach every dashboard in the order of the      *)
(* request and once each, also when others are dropped or refused between.  *)
OrderOfRequest ==
  \A s \in Streams :
    \A i, j \in DOMAIN Delivered(s) :
      /\ i < j
      /\ Delivered(s)[i][1] = Delivered(s)[j][1]
      => Delivered(s)[i][2] < Delivered(s)[j][2]

(* A broadcast passes over no stream whose buffer never filled: only a slow *)
(* subscriber misses a message, or one that is gone.  (A stream that missed *)
(* one had a full buffer, so as many messages as that were handed to it.)   *)
OnlySlowOnesMiss ==
  \A r \in Readers : \A s \in sseClients \ todo[r] :
    \/ <<r, idx[r]>> \in Range(Delivered(s))
    \/ Len(Delivered(s)) >= Buffer
    \/ s \in cancelled

(* The answer accounts for the body: a 202 counts every event, and counts   *)
(* as accepted none that is not in Kafka; a 4xx leaves nothing there.       *)
AnswerAccounts ==
  \A r \in Requests :
    /\ reply[r] = 202 =>
         /\ accepted[r] + failed[r] = Len(Body[r].events)
         /\ accepted[r] <= Cardinality(QueuedOf(r))
    /\ reply[r] \in {400, 413, 422} => QueuedOf(r) = {}

(* Every request is answered, though no dashboard ever reads what is sent   *)
(* to it: a slow subscriber never holds up ingestion.                       *)
EveryRequestAnswered == \A r \in Requests : <>(reply[r] # 0)

(* A stream whose client is gone, also one that left before the handler     *)
(* came to register it, is out of the hub for good in the end, if writes    *)
(* end (HandleSSEStream).                                                   *)
NoLeakedStream ==
  WriteFairness =>
    \A s \in Streams : s \in cancelled ~> [](s \notin sseClients /\ s \in closed)

(* What the dashboard promises: a call event that arrives on the stream is  *)
(* shown in the live feed.                                                  *)
FeedShowsCalls == \A s \in Streams : wire[s] # << >> => feed[s] # << >>
=============================================================================
