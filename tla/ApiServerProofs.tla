--------------------------- MODULE ApiServerProofs ---------------------------
(***************************************************************************)
(* Theorems about ApiServer, for any requests, streams, batch limit and    *)
(* channel capacity: the hub never panics, what a dashboard is given is in *)
(* Kafka, what the answer to a request says of its body, in which order a  *)
(* dashboard is given the events of a request, and which dashboards miss   *)
(* one.                                                                    *)
(***************************************************************************)
EXTENDS ApiServer, FiniteSetTheorems, TLAPS

(* A request at work is at an event of its body. *)
InBody ==
  \A r \in Requests :
    /\ pc[r] = "new" => idx[r] = 1
    /\ pc[r] \in {"publish", "lock", "send"} => idx[r] \in 1 .. Len(Body[r].events)

(* A stream is registered from its registration to its departure, its       *)
(* channel is closed from then on, and a broadcast under way has only       *)
(* registered streams before it.                                            *)
HubInv ==
  /\ ~panicked
  /\ \A s \in Streams : s \in sseClients => conn[s] \in {"writing", "idle", "leaving"}
  /\ \A s \in Streams : conn[s] \in {"writing", "idle", "leaving"} => s \in sseClients
  /\ \A s \in Streams : s \in closed => conn[s] = "gone"
  /\ \A r \in Readers : todo[r] \subseteq sseClients

(* The message being broadcast is in Kafka, and so is all that is anywhere  *)
(* on its way to a dashboard.                                               *)
QueuedInv ==
  /\ \A r \in Requests : pc[r] \in {"lock", "send"} => <<r, idx[r]>> \in queued
  /\ \A s \in Streams :
       channel[s] \in Seq(queued) /\ writing[s] \in Seq(queued) /\ wire[s] \in Seq(queued)

ApiInv == TypeOK /\ InBody /\ HubInv /\ QueuedInv

-----------------------------------------------------------------------------
LEMMA BodyFact ==
  ASSUME NEW r \in Requests
  PROVE  /\ Len(Body[r].events) \in Nat
         /\ Body[r].kind \in {"single", "batch", "garbage"}
         /\ Body[r].kind = "single" => Len(Body[r].events) = 1
         /\ Body[r].events # << >> => Len(Body[r].events) >= 1
<1>1. Body[r] \in BodyType
  BY BodyAssumption
<1>2. Body[r].events \in Seq({"ok", "bad"})
  BY <1>1 DEF BodyType
<1> QED
  BY <1>1, <1>2, BodyAssumption DEF BodyType

LEMMA MessageFact ==
  ASSUME InBody, NEW r \in Requests, pc[r] \in {"publish", "lock", "send"}
  PROVE  <<r, idx[r]>> \in Messages
<1>1. idx[r] \in 1 .. Len(Body[r].events)
  BY DEF InBody
<1>2. <<r, idx[r]>> \in {r} \X (1 .. Len(Body[r].events))
  BY <1>1
<1> QED
  BY <1>2 DEF Messages

LEMMA SeqGrows ==
  ASSUME NEW S, NEW T, S \subseteq T, NEW q \in Seq(S)
  PROVE  q \in Seq(T)
OBVIOUS

(* What a step of a request that ends its event does to its program counter *)
Advances(r) ==
  /\ pc' \in [Requests -> {"new", "publish", "lock", "send", "done"}]
  /\ idx' \in [Requests -> Nat \ {0}]
  /\ reply' \in [Requests -> {0, 202, 400, 413, 422, 500}]
  /\ pc'[r] \in {"publish", "done"}
  /\ pc'[r] = "publish" => idx'[r] \in 1 .. Len(Body[r].events)
  /\ \A q \in Requests \ {r} : pc'[q] = pc[q] /\ idx'[q] = idx[q]

LEMMA RespondAdvances ==
  ASSUME TypeOK, NEW r \in Requests,
         NEW status \in {202, 400, 413, 422, 500}, Respond(r, status)
  PROVE  Advances(r)
BY DEF TypeOK, Respond, Advances

LEMMA NextEventAdvances ==
  ASSUME TypeOK, InBody, NEW r \in Requests,
         pc[r] \in {"publish", "lock", "send"}, NextEvent(r)
  PROVE  Advances(r)
<1>1. CASE idx[r] < Len(Body[r].events)
  <2>1. /\ idx' = [idx EXCEPT ![r] = @ + 1]
        /\ pc' = [pc EXCEPT ![r] = "publish"]
        /\ reply' = reply
    BY <1>1 DEF NextEvent
  <2>2. idx[r] \in Nat /\ Len(Body[r].events) \in Nat
    BY BodyFact DEF TypeOK
  <2> QED
    BY <1>1, <2>1, <2>2 DEF TypeOK, Advances
<1>2. CASE ~(idx[r] < Len(Body[r].events))
  <2>1. Respond(r, 202)
    BY <1>2 DEF NextEvent
  <2> QED
    BY <2>1, RespondAdvances
<1> QED
  BY <1>1, <1>2

LEMMA RefuseAdvances ==
  ASSUME TypeOK, InBody, NEW r \in Requests, pc[r] = "publish",
         NEW status \in {422, 500}, Refuse(r, status)
  PROVE  Advances(r) /\ failed' \in [Requests -> Nat]
<1>1. failed' \in [Requests -> Nat]
  BY DEF Refuse, TypeOK
<1>2. NextEvent(r) \/ Respond(r, status)
  BY DEF Refuse
<1> QED
  BY <1>1, <1>2, NextEventAdvances, RespondAdvances

-----------------------------------------------------------------------------
LEMMA ApiInit == Init => ApiInv
<1> SUFFICES ASSUME Init PROVE ApiInv
  OBVIOUS
<1>1. /\ \A r \in Requests : pc[r] = "new" /\ idx[r] = 1 /\ todo[r] = {}
      /\ \A s \in Streams : channel[s] = << >> /\ writing[s] = << >> /\ wire[s] = << >>
      /\ \A s \in Streams : conn[s] = "new"
  BY DEF Init
<1>2. TypeOK
  <2>1. \A s \in Streams : Len(channel[s]) = 0 /\ Len(channel[s]) <= Buffer
    BY <1>1, SizesAssumption
  <2>2. /\ channel \in [Streams -> Seq(Messages)]
        /\ writing \in [Streams -> Seq(Messages)]
        /\ wire \in [Streams -> Seq(Messages)]
        /\ feed \in [Streams -> Seq(Messages)]
    BY DEF Init
  <2>3. /\ pc \in [Requests -> {"new", "publish", "lock", "send", "done"}]
        /\ conn \in [Streams -> {"new", "open", "writing", "idle", "leaving", "gone"}]
        /\ todo \in [Requests -> SUBSET Streams]
        /\ reply \in [Requests -> {0, 202, 400, 413, 422, 500}]
        /\ idx \in [Requests -> Nat \ {0}]
        /\ accepted \in [Requests -> Nat]
        /\ failed \in [Requests -> Nat]
    BY DEF Init
  <2> QED
    BY <2>1, <2>2, <2>3 DEF Init, TypeOK
<1>3. InBody
  BY <1>1 DEF InBody
<1>4. HubInv
  BY <1>1 DEF Init, HubInv, Readers
<1>5. QueuedInv
  <2>1. << >> \in Seq(queued)
    OBVIOUS
  <2> QED
    BY <1>1, <2>1 DEF QueuedInv
<1> QED
  BY <1>2, <1>3, <1>4, <1>5 DEF ApiInv

(* More in Kafka leaves what was there on its way to the dashboards.        *)
LEMMA QueuedGrows ==
  ASSUME QueuedInv, queued \subseteq queued', UNCHANGED <<channel, writing, wire>>,
         NEW s \in Streams
  PROVE  channel'[s] \in Seq(queued') /\ writing'[s] \in Seq(queued')
         /\ wire'[s] \in Seq(queued')
<1>1. /\ channel[s] \in Seq(queued) /\ writing[s] \in Seq(queued)
      /\ wire[s] \in Seq(queued)
  BY DEF QueuedInv
<1> HIDE DEF QueuedInv
<1>2. channel[s] \in Seq(queued') /\ writing[s] \in Seq(queued') /\ wire[s] \in Seq(queued')
  BY <1>1, SeqGrows
<1> QED
  BY <1>2

(* A request that goes on to its next event, or answers, keeps the invariant*)
LEMMA AdvanceKeeps ==
  ASSUME ApiInv, NEW r \in Requests, Advances(r),
         queued \subseteq queued', queued' \subseteq Messages,
         accepted' \in [Requests -> Nat], failed' \in [Requests -> Nat],
         UNCHANGED <<todo, streamVars, hubVars>>
  PROVE  ApiInv'
<1> USE DEF ApiInv
<1>1. TypeOK'
  BY DEF TypeOK, Advances, streamVars, hubVars
<1>2. InBody'
  <2>1. ASSUME NEW q \in Requests \ {r}
        PROVE  /\ pc'[q] = "new" => idx'[q] = 1
               /\ pc'[q] \in {"publish", "lock", "send"} => idx'[q] \in 1 .. Len(Body[q].events)
    <3>1. pc'[q] = pc[q] /\ idx'[q] = idx[q]
      BY <2>1, Zenon DEF Advances
    <3>2. /\ pc[q] = "new" => idx[q] = 1
          /\ pc[q] \in {"publish", "lock", "send"} => idx[q] \in 1 .. Len(Body[q].events)
      BY <2>1, Zenon DEF InBody
    <3> QED
      BY <3>1, <3>2, Zenon
  <2>2. /\ pc'[r] = "new" => idx'[r] = 1
        /\ pc'[r] \in {"publish", "lock", "send"} => idx'[r] \in 1 .. Len(Body[r].events)
    <3>1. pc'[r] = "publish" \/ pc'[r] = "done"
      BY Zenon DEF Advances
    <3>2. pc'[r] = "publish" => idx'[r] \in 1 .. Len(Body[r].events)
      BY Zenon DEF Advances
    <3> HIDE DEF ApiInv
    <3> QED
      BY ONLY <3>1, <3>2
  <2> QED
    BY <2>1, <2>2, Zenon DEF InBody
<1>3. HubInv'
  <2>1. UNCHANGED <<todo, sseClients, closed, panicked, conn>>
    BY DEF streamVars, hubVars
  <2>2. Readers' \subseteq Readers
    BY DEF Advances, Readers
  <2>3. HubInv
    OBVIOUS
  <2> HIDE DEF ApiInv
  <2> QED
    BY ONLY <2>1, <2>2, <2>3 DEF HubInv
<1>4. QueuedInv'
  <2>1. \A q \in Requests : pc'[q] \in {"lock", "send"} =>
          q # r /\ pc[q] = pc'[q] /\ idx[q] = idx'[q]
    BY DEF Advances
  <2>2. \A q \in Requests : pc'[q] \in {"lock", "send"} => <<q, idx'[q]>> \in queued'
    BY <2>1 DEF QueuedInv
  <2>3. UNCHANGED <<channel, writing, wire>>
    BY DEF streamVars, hubVars
  <2> QED
    BY <2>2, <2>3, QueuedGrows DEF QueuedInv
<1> QED
  BY <1>1, <1>2, <1>3, <1>4

LEMMA DecodeKeeps ==
  ASSUME ApiInv, NEW r \in Requests, Decode(r)
  PROVE  ApiInv'
<1> DEFINE Goes == /\ pc' = [pc EXCEPT ![r] = "publish"]
                   /\ UNCHANGED <<idx, reply>>
<1>1. Advances(r)
  <2>0. ASSUME Goes, Len(Body[r].events) >= 1
        PROVE  Advances(r)
    <3>1. idx[r] = 1 /\ 1 \in 1 .. Len(Body[r].events)
      BY <2>0, BodyFact DEF Decode, ApiInv, InBody
    <3> QED
      BY <2>0, <3>1 DEF ApiInv, TypeOK, Advances
  <2>1. CASE Body[r].kind = "garbage"
    BY <2>1, RespondAdvances DEF Decode, ApiInv
  <2>2. CASE Body[r].kind = "batch"
    <3>1. CASE Len(Body[r].events) > BatchLimit
      BY <2>2, <3>1, RespondAdvances DEF Decode, ApiInv
    <3>2. CASE Body[r].events = << >> /\ ~(Len(Body[r].events) > BatchLimit)
      BY <2>2, <3>2, RespondAdvances DEF Decode, ApiInv
    <3>3. CASE Body[r].events # << >> /\ ~(Len(Body[r].events) > BatchLimit)
      <4>1. Goes
        BY <2>2, <3>3 DEF Decode
      <4> QED
        BY <2>0, <3>3, <4>1, BodyFact
    <3> QED
      BY <3>1, <3>2, <3>3
  <2>3. CASE Body[r].kind = "single"
    <3>1. Goes
      BY <2>3 DEF Decode
    <3>2. Len(Body[r].events) >= 1
      BY <2>3, BodyFact
    <3> QED
      BY <2>0, <3>1, <3>2
  <2> QED
    BY <2>1, <2>2, <2>3, BodyFact
<1> QED
  BY <1>1, AdvanceKeeps DEF Decode, ApiInv, TypeOK

LEMMA ValidateKeeps ==
  ASSUME ApiInv, NEW r \in Requests, Validate(r)
  PROVE  ApiInv'
<1>1. Advances(r) /\ failed' \in [Requests -> Nat]
  BY RefuseAdvances DEF Validate, ApiInv
<1> QED
  BY <1>1, AdvanceKeeps DEF Validate, ApiInv, TypeOK

LEMMA PublishKeeps ==
  ASSUME ApiInv, NEW r \in Requests, Publish(r)
  PROVE  ApiInv'
<1> DEFINE m == <<r, idx[r]>>
<1>1. m \in Messages /\ pc[r] = "publish"
  BY MessageFact DEF Publish, ApiInv
<1>2. UNCHANGED <<todo, accepted, streamVars, hubVars>>
  BY DEF Publish
<1>3. queued \subseteq Messages
  BY DEF ApiInv, TypeOK
<1>4. queued \union {m} \subseteq Messages
  <2> HIDE DEF m
  <2> QED
    BY <1>1, <1>3
<1>5. CASE queued' \in {queued, queued \union {m}} /\ Refuse(r, 500)
  <2>1. Advances(r) /\ failed' \in [Requests -> Nat]
    BY <1>1, <1>5, RefuseAdvances DEF ApiInv
  <2>2. queued \subseteq queued' /\ queued' \subseteq Messages
    BY <1>5, <1>3, <1>4
  <2> QED
    BY <1>2, <2>1, <2>2, AdvanceKeeps DEF ApiInv, TypeOK
<1>6. CASE /\ queued' = queued \union {m}
           /\ pc' = [pc EXCEPT ![r] = "lock"]
           /\ UNCHANGED <<idx, failed, reply>>
  <2>1. /\ queued \subseteq queued' /\ queued' \subseteq Messages
        /\ m \in queued'
    BY <1>6, <1>3, <1>4
  <2> HIDE DEF m
  <2>2. TypeOK'
    BY <1>2, <1>6, <2>1 DEF ApiInv, TypeOK, streamVars, hubVars
  <2>3. InBody'
    BY <1>1, <1>6 DEF ApiInv, InBody, TypeOK
  <2>4. HubInv'
    BY <1>2, <1>6 DEF ApiInv, HubInv, Readers, TypeOK, streamVars, hubVars
  <2>5. \A q \in Requests : pc'[q] \in {"lock", "send"} => <<q, idx'[q]>> \in queued'
    BY <1>6, <2>1 DEF ApiInv, QueuedInv, TypeOK, m
  <2>6. QueuedInv'
    BY <1>2, <2>1, <2>5, QueuedGrows DEF ApiInv, QueuedInv, streamVars, hubVars
  <2> QED
    BY <2>2, <2>3, <2>4, <2>6 DEF ApiInv
<1> QED
  BY <1>5, <1>6 DEF Publish

LEMMA RLockKeeps ==
  ASSUME ApiInv, NEW r \in Requests, RLock(r)
  PROVE  ApiInv'
<1>1. TypeOK'
  BY DEF ApiInv, TypeOK, RLock, streamVars, hubVars
<1>2. InBody'
  BY DEF ApiInv, InBody, TypeOK, RLock
<1>3. HubInv'
  BY DEF ApiInv, HubInv, TypeOK, Readers, RLock, streamVars, hubVars
<1>4. QueuedInv'
  BY DEF ApiInv, QueuedInv, TypeOK, RLock, streamVars, hubVars
<1> QED
  BY <1>1, <1>2, <1>3, <1>4 DEF ApiInv

(* The stream a broadcast sends to is registered, so its channel is open. *)
LEMMA SendKeeps ==
  ASSUME ApiInv, NEW r \in Requests, Send(r)
  PROVE  ApiInv'
<1> DEFINE m == <<r, idx[r]>>
<1>1. PICK s \in todo[r] :
        /\ todo' = [todo EXCEPT ![r] = @ \ {s}]
        /\ IF s \in closed
           THEN panicked' = TRUE /\ UNCHANGED channel
           ELSE Offer(s, m) /\ UNCHANGED panicked
  BY DEF Send
<1>2. /\ pc[r] = "send" /\ r \in Readers
      /\ s \in Streams /\ s \in sseClients
  BY DEF Send, ApiInv, TypeOK, HubInv, Readers
<1>3. s \notin closed
  BY <1>2 DEF ApiInv, HubInv
<1>4. Offer(s, m) /\ UNCHANGED panicked
  BY <1>1, <1>3
<1>5. m \in Messages /\ m \in queued
  BY <1>2, MessageFact DEF ApiInv, QueuedInv
<1>6. UNCHANGED <<pc, idx, accepted, failed, reply, queued, sseClients, closed,
                  streamVars>>
  BY DEF Send
<1> HIDE DEF m
<1>7. \/ UNCHANGED channel
      \/ /\ Len(channel[s]) < Buffer
         /\ channel' = [channel EXCEPT ![s] = Append(channel[s], m)]
  BY <1>4 DEF Offer
<1>8. /\ channel' \in [Streams -> Seq(Messages)]
      /\ \A t \in Streams : Len(channel'[t]) <= Buffer
  <2>1. /\ channel \in [Streams -> Seq(Messages)]
        /\ \A t \in Streams : Len(channel[t]) <= Buffer
    BY DEF ApiInv, TypeOK
  <2>2. channel[s] \in Seq(Messages)
    BY <1>2, <2>1
  <2>3. /\ Append(channel[s], m) \in Seq(Messages)
        /\ Len(Append(channel[s], m)) = Len(channel[s]) + 1
        /\ Len(channel[s]) \in Nat
    BY <1>5, <2>2
  <2>4. Len(channel[s]) < Buffer => Len(Append(channel[s], m)) <= Buffer
    BY <2>3, SizesAssumption
  <2>5. CASE UNCHANGED channel
    BY <2>1, <2>5
  <2>6. CASE /\ Len(channel[s]) < Buffer
             /\ channel' = [channel EXCEPT ![s] = Append(channel[s], m)]
    <3>1. channel' \in [Streams -> Seq(Messages)]
      BY <1>2, <2>1, <2>3, <2>6
    <3>2. ASSUME NEW t \in Streams PROVE Len(channel'[t]) <= Buffer
      <4>1. CASE t = s
        BY <2>1, <2>4, <2>6, <4>1
      <4>2. CASE t # s
        BY <2>1, <2>6, <4>2
      <4> QED
        BY <4>1, <4>2
    <3> QED
      BY <3>1, <3>2
  <2> QED
    BY <1>7, <2>5, <2>6
<1>9. TypeOK'
  <2>1. todo' \in [Requests -> SUBSET Streams]
    BY <1>1 DEF ApiInv, TypeOK
  <2> QED
    BY <1>4, <1>6, <1>8, <2>1 DEF ApiInv, TypeOK, streamVars
<1>10. InBody'
  BY <1>6 DEF ApiInv, InBody
<1>11. HubInv'
  BY <1>1, <1>4, <1>6 DEF ApiInv, HubInv, TypeOK, Readers, streamVars
<1>12. QueuedInv'
  <2>1. \A t \in Streams : channel[t] \in Seq(queued)
    BY DEF ApiInv, QueuedInv
  <2>2. Append(channel[s], m) \in Seq(queued)
    BY <1>2, <1>5, <2>1
  <2>3. \A t \in Streams : channel'[t] = channel[t] \/
                           channel'[t] = Append(channel[s], m)
    BY <1>7 DEF ApiInv, TypeOK
  <2>4. \A t \in Streams : channel'[t] \in Seq(queued)
    BY <2>1, <2>2, <2>3
  <2> QED
    BY <1>6, <2>4 DEF ApiInv, QueuedInv, streamVars
<1> QED
  BY <1>9, <1>10, <1>11, <1>12 DEF ApiInv

LEMMA RUnlockKeeps ==
  ASSUME ApiInv, NEW r \in Requests, RUnlock(r)
  PROVE  ApiInv'
<1>1. Advances(r)
  BY NextEventAdvances DEF RUnlock, ApiInv
<1>2. /\ accepted' = [accepted EXCEPT ![r] = accepted[r] + 1]
      /\ UNCHANGED <<todo, failed, queued, streamVars, hubVars>>
  BY DEF RUnlock
<1>3. accepted' \in [Requests -> Nat] /\ failed' \in [Requests -> Nat]
  BY <1>2 DEF ApiInv, TypeOK
<1>4. queued \subseteq queued' /\ queued' \subseteq Messages
  BY <1>2 DEF ApiInv, TypeOK
<1> QED
  BY <1>1, <1>2, <1>3, <1>4, AdvanceKeeps

-----------------------------------------------------------------------------
(* A stream's step that leaves the channels, its own text in flight and the *)
(* requests alone.                                                          *)
LEMMA StreamMoves ==
  ASSUME ApiInv, NEW s \in Streams,
         Connect(s) \/ RegisterSSEClient(s) \/ Disconnect(s) \/ Return(s) \/
         UnregisterSSEClient(s)
  PROVE  ApiInv'
<1>1. UNCHANGED <<requestVars, channel, writing, wire, feed>>
  BY DEF Connect, RegisterSSEClient, Disconnect, Return, UnregisterSSEClient, hubVars
<1>2. TypeOK'
  <2>1. /\ conn' \in [Streams -> {"new", "open", "writing", "idle", "leaving", "gone"}]
        /\ sseClients' \subseteq Streams /\ closed' \subseteq Streams
        /\ cancelled' \subseteq Streams /\ panicked' \in BOOLEAN
    <3>1. CASE Connect(s)
      BY <3>1 DEF Connect, Move, ApiInv, TypeOK, hubVars
    <3>2. CASE RegisterSSEClient(s)
      BY <3>2 DEF RegisterSSEClient, Move, ApiInv, TypeOK
    <3>3. CASE Disconnect(s)
      BY <3>3 DEF Disconnect, ApiInv, TypeOK, hubVars
    <3>4. CASE Return(s)
      BY <3>4 DEF Return, Move, ApiInv, TypeOK, hubVars
    <3>5. CASE UnregisterSSEClient(s)
      BY <3>5 DEF UnregisterSSEClient, Move, ApiInv, TypeOK
    <3> QED
      BY <3>1, <3>2, <3>3, <3>4, <3>5
  <2> QED
    BY <1>1, <2>1 DEF ApiInv, TypeOK, requestVars
<1>3. InBody'
  BY <1>1 DEF ApiInv, InBody, requestVars
<1>4. HubInv'
  <2>1. CASE Connect(s)
    BY <1>1, <2>1 DEF Connect, Move, ApiInv, TypeOK, HubInv, Readers, requestVars, hubVars
  <2>2. CASE RegisterSSEClient(s)
    BY <1>1, <2>2 DEF RegisterSSEClient, Move, ApiInv, TypeOK, HubInv, Readers, requestVars
  <2>3. CASE Disconnect(s)
    BY <1>1, <2>3 DEF Disconnect, ApiInv, TypeOK, HubInv, Readers, requestVars, hubVars
  <2>4. CASE Return(s)
    BY <1>1, <2>4 DEF Return, Move, ApiInv, TypeOK, HubInv, Readers, requestVars, hubVars
  <2>5. CASE UnregisterSSEClient(s)
    <3>1. Readers' = {}
      BY <1>1, <2>5 DEF UnregisterSSEClient, Readers, requestVars
    <3>2. s \notin closed /\ conn[s] = "leaving"
      BY <2>5 DEF UnregisterSSEClient, Move, ApiInv, HubInv
    <3> QED
      BY <2>5, <3>1, <3>2 DEF UnregisterSSEClient, Move, ApiInv, TypeOK, HubInv
  <2> QED
    BY <2>1, <2>2, <2>3, <2>4, <2>5
<1>5. QueuedInv'
  BY <1>1 DEF ApiInv, QueuedInv, requestVars
<1> QED
  BY <1>2, <1>3, <1>4, <1>5 DEF ApiInv

LEMMA ReceiveKeeps ==
  ASSUME ApiInv, NEW s \in Streams, Receive(s)
  PROVE  ApiInv'
<1>1. /\ conn[s] = "idle" /\ channel[s] # << >>
      /\ conn' = [conn EXCEPT ![s] = "writing"]
      /\ writing' = [writing EXCEPT ![s] = <<Head(channel[s])>>]
      /\ channel' = [channel EXCEPT ![s] = Tail(channel[s])]
      /\ UNCHANGED <<requestVars, sseClients, closed, panicked, cancelled, wire,
                     feed>>
  BY DEF Receive, Move
<1>2. \A S : channel[s] \in Seq(S) => /\ <<Head(channel[s])>> \in Seq(S)
                                      /\ Tail(channel[s]) \in Seq(S)
                                      /\ Len(Tail(channel[s])) = Len(channel[s]) - 1
                                      /\ Len(channel[s]) \in Nat
  BY <1>1
<1>3. TypeOK'
  <2>1. /\ channel \in [Streams -> Seq(Messages)]
        /\ writing \in [Streams -> Seq(Messages)]
        /\ \A t \in Streams : Len(channel[t]) <= Buffer
    BY DEF ApiInv, TypeOK
  <2>2. /\ <<Head(channel[s])>> \in Seq(Messages) /\ Tail(channel[s]) \in Seq(Messages)
        /\ Len(Tail(channel[s])) = Len(channel[s]) - 1 /\ Len(channel[s]) \in Nat
    BY <1>2, <2>1
  <2>3. /\ channel' \in [Streams -> Seq(Messages)]
        /\ writing' \in [Streams -> Seq(Messages)]
    BY <1>1, <2>1, <2>2
  <2>4. \A t \in Streams : Len(channel'[t]) <= Buffer
    BY <1>1, <2>1, <2>2, SizesAssumption
  <2> QED
    BY <1>1, <2>3, <2>4 DEF ApiInv, TypeOK, requestVars
<1>4. InBody'
  BY <1>1 DEF ApiInv, InBody, requestVars
<1>5. HubInv'
  BY <1>1 DEF ApiInv, HubInv, TypeOK, Readers, requestVars
<1>6. QueuedInv'
  <2>1. \A t \in Streams :
          channel[t] \in Seq(queued) /\ writing[t] \in Seq(queued) /\ wire[t] \in Seq(queued)
    BY DEF ApiInv, QueuedInv
  <2>2. <<Head(channel[s])>> \in Seq(queued) /\ Tail(channel[s]) \in Seq(queued)
    BY <1>2, <2>1
  <2>3. \A t \in Streams : channel'[t] \in Seq(queued) /\ writing'[t] \in Seq(queued)
    BY <1>1, <2>1, <2>2 DEF ApiInv, TypeOK
  <2> QED
    BY <1>1, <2>1, <2>3 DEF ApiInv, QueuedInv, requestVars
<1> QED
  BY <1>3, <1>4, <1>5, <1>6 DEF ApiInv

LEMMA WriteKeeps ==
  ASSUME ApiInv, NEW s \in Streams, Write(s)
  PROVE  ApiInv'
<1>1. /\ conn[s] = "writing"
      /\ conn' = [conn EXCEPT ![s] = "idle"]
      /\ writing' = [writing EXCEPT ![s] = << >>]
      /\ UNCHANGED <<requestVars, hubVars>>
  BY DEF Write, Flush, WriteFails, Move
<1>2. /\ wire' = wire \/ wire' = [wire EXCEPT ![s] = wire[s] \o writing[s]]
      /\ feed' = feed \/ feed' = [feed EXCEPT ![s] = writing[s] \o feed[s]]
      /\ cancelled' \subseteq Streams
  BY DEF Write, Flush, WriteFails, ApiInv, TypeOK
<1>3. TypeOK'
  <2>1. /\ writing \in [Streams -> Seq(Messages)]
        /\ wire \in [Streams -> Seq(Messages)]
        /\ feed \in [Streams -> Seq(Messages)]
    BY DEF ApiInv, TypeOK
  <2>2. /\ wire[s] \o writing[s] \in Seq(Messages)
        /\ writing[s] \o feed[s] \in Seq(Messages)
        /\ << >> \in Seq(Messages)
    BY <2>1
  <2>3. /\ writing' \in [Streams -> Seq(Messages)]
        /\ wire' \in [Streams -> Seq(Messages)]
        /\ feed' \in [Streams -> Seq(Messages)]
    BY <1>1, <1>2, <2>1, <2>2
  <2> QED
    BY <1>1, <1>2, <2>3 DEF ApiInv, TypeOK, requestVars, hubVars
<1>4. InBody'
  BY <1>1 DEF ApiInv, InBody, requestVars
<1>5. HubInv'
  BY <1>1 DEF ApiInv, HubInv, TypeOK, Readers, requestVars, hubVars
<1>6. QueuedInv'
  <2>1. \A t \in Streams :
          channel[t] \in Seq(queued) /\ writing[t] \in Seq(queued) /\ wire[t] \in Seq(queued)
    BY DEF ApiInv, QueuedInv
  <2>2. wire[s] \o writing[s] \in Seq(queued) /\ << >> \in Seq(queued)
    BY <2>1
  <2>3. \A t \in Streams : /\ writing'[t] = writing[t] \/ writing'[t] = << >>
                           /\ wire'[t] = wire[t] \/ wire'[t] = wire[s] \o writing[s]
    BY <1>1, <1>2 DEF ApiInv, TypeOK
  <2>4. \A t \in Streams : wire'[t] \in Seq(queued) /\ writing'[t] \in Seq(queued)
    BY <2>1, <2>2, <2>3, Zenon
  <2> QED
    BY <1>1, <2>1, <2>4 DEF ApiInv, QueuedInv, requestVars, hubVars
<1> QED
  BY <1>3, <1>4, <1>5, <1>6 DEF ApiInv

-----------------------------------------------------------------------------
LEMMA ApiStep == ApiInv /\ [Next]_vars => ApiInv'
<1> SUFFICES ASSUME ApiInv, [Next]_vars PROVE ApiInv'
  OBVIOUS
<1>1. ASSUME NEW r \in Requests, Ingest(r) PROVE ApiInv'
  BY <1>1, DecodeKeeps, ValidateKeeps, PublishKeeps, RLockKeeps, SendKeeps,
     RUnlockKeeps DEF Ingest
<1>2. ASSUME NEW s \in Streams,
             Connect(s) \/ Stream(s) \/ Receive(s) \/ Write(s) \/ Disconnect(s)
      PROVE  ApiInv'
  BY <1>2, StreamMoves, ReceiveKeeps, WriteKeeps DEF Stream
<1>3. CASE UNCHANGED vars
  <2>1. UNCHANGED <<requestVars, streamVars, hubVars>>
    BY <1>3 DEF vars
  <2> QED
    BY <2>1 DEF ApiInv, TypeOK, InBody, HubInv, QueuedInv, Readers, requestVars,
                streamVars, hubVars
<1> QED
  BY <1>1, <1>2, <1>3 DEF Next

LEMMA ApiInvariant == Spec => []ApiInv
BY ApiInit, ApiStep, PTL DEF Spec

(* The state of the server keeps its shape, and no channel overflows.       *)
THEOREM TypeCorrect == Spec => []TypeOK
<1>1. ApiInv => TypeOK
  BY DEF ApiInv
<1> QED
  BY <1>1, ApiInvariant, PTL

(* sseMu is enough: no broadcast sends to a channel unregisterSSEClient has *)
(* closed, and none is closed twice.                                        *)
THEOREM HubNeverPanics == Spec => []NeverPanics
<1>1. ApiInv => NeverPanics
  BY DEF ApiInv, HubInv, NeverPanics
<1> QED
  BY <1>1, ApiInvariant, PTL

(* Whatever a dashboard is given was published to Kafka first. *)
THEOREM DashboardsShowQueued == Spec => []ShownIsQueued
<1>1. ASSUME ApiInv, NEW s \in Streams
      PROVE  Range(Delivered(s)) \subseteq queued
  <2>1. channel[s] \in Seq(queued) /\ writing[s] \in Seq(queued) /\ wire[s] \in Seq(queued)
    BY <1>1 DEF ApiInv, QueuedInv
  <2>2. Delivered(s) \in Seq(queued)
    BY <2>1 DEF Delivered
  <2>3. ASSUME NEW q \in Seq(queued) PROVE Range(q) \subseteq queued
    BY DEF Range
  <2> QED
    BY <2>2, <2>3
<1>2. ApiInv => ShownIsQueued
  BY <1>1 DEF ShownIsQueued
<1> QED
  BY <1>2, ApiInvariant, PTL

-----------------------------------------------------------------------------
(* Answers.                                                                 *)

(* At every point of a request its counts cover the events it is past, and  *)
(* each accepted one has a message of its own; one more is in Kafka while   *)
(* its event is broadcast.                                                  *)
Account(r) ==
  /\ IsFiniteSet(QueuedOf(r))
  /\ pc[r] # "done" => reply[r] = 0
  /\ pc[r] \notin {"new", "done"} => Body[r].kind # "garbage"
  /\ pc[r] = "new" => accepted[r] = 0 /\ failed[r] = 0 /\ QueuedOf(r) = {}
  /\ pc[r] = "publish" =>
       /\ accepted[r] + failed[r] = idx[r] - 1
       /\ accepted[r] <= Cardinality(QueuedOf(r))
       /\ \A m \in QueuedOf(r) : m[2] < idx[r]
  /\ pc[r] \in {"lock", "send"} =>
       /\ accepted[r] + failed[r] = idx[r] - 1
       /\ accepted[r] < Cardinality(QueuedOf(r))
       /\ \A m \in QueuedOf(r) : m[2] <= idx[r]
  /\ reply[r] = 202 =>
       /\ accepted[r] + failed[r] = Len(Body[r].events)
       /\ accepted[r] <= Cardinality(QueuedOf(r))
  /\ reply[r] \in {400, 413, 422} => QueuedOf(r) = {}

AccountInv == \A r \in Requests : Account(r)

LEMMA AccountInit == Init => AccountInv
<1> SUFFICES ASSUME Init, NEW r \in Requests PROVE Account(r)
  BY DEF AccountInv
<1>1. /\ pc[r] = "new" /\ reply[r] = 0 /\ accepted[r] = 0 /\ failed[r] = 0
      /\ QueuedOf(r) = {}
  BY DEF Init, QueuedOf
<1> QED
  BY <1>1, FS_EmptySet DEF Account

(* A request is disturbed only by its own steps. *)
LEMMA AccountOther ==
  ASSUME NEW r \in Requests, Account(r),
         pc'[r] = pc[r], idx'[r] = idx[r], reply'[r] = reply[r],
         accepted'[r] = accepted[r], failed'[r] = failed[r],
         QueuedOf(r)' = QueuedOf(r)
  PROVE  Account(r)'
BY DEF Account

(* What a step of request q leaves of the others. *)
LEMMA OwnStep ==
  ASSUME ApiInv, NEW q \in Requests, Ingest(q), NEW r \in Requests, r # q
  PROVE  /\ pc'[r] = pc[r] /\ idx'[r] = idx[r] /\ reply'[r] = reply[r]
         /\ accepted'[r] = accepted[r] /\ failed'[r] = failed[r]
         /\ todo'[r] = todo[r]
         /\ QueuedOf(r)' = QueuedOf(r)
<1> USE DEF ApiInv, TypeOK, Respond, NextEvent, Refuse
<1>1. CASE Decode(q)
  BY <1>1 DEF Decode, QueuedOf
<1>2. CASE Validate(q)
  BY <1>2 DEF Validate, QueuedOf
<1>3. CASE Publish(q)
  <2>1. queued' \in {queued, queued \union {<<q, idx[q]>>}}
    BY <1>3 DEF Publish
  <2>2. QueuedOf(r)' = QueuedOf(r)
    BY <2>1 DEF QueuedOf
  <2> QED
    BY <1>3, <2>2 DEF Publish
<1>4. CASE RLock(q)
  BY <1>4 DEF RLock, QueuedOf
<1>5. CASE Send(q)
  BY <1>5 DEF Send, QueuedOf
<1>6. CASE RUnlock(q)
  BY <1>6 DEF RUnlock, QueuedOf
<1> QED
  BY <1>1, <1>2, <1>3, <1>4, <1>5, <1>6 DEF Ingest

(* A message of a request names an event of its body. *)
LEMMA QueuedIndex ==
  ASSUME ApiInv, NEW r \in Requests, NEW m \in QueuedOf(r)
  PROVE  m[2] \in Nat \ {0} /\ m = <<r, m[2]>>
<1>1. m \in Messages /\ m[1] = r
  BY DEF QueuedOf, ApiInv, TypeOK
<1>2. PICK q \in Requests : m \in {q} \X (1 .. Len(Body[q].events))
  BY <1>1 DEF Messages
<1> QED
  BY <1>1, <1>2, BodyFact

(* A request at work that is no batch has one event. *)
LEMMA SingleAtWork ==
  ASSUME ApiInv, NEW r \in Requests, Account(r), pc[r] = "publish",
         Body[r].kind # "batch"
  PROVE  idx[r] = 1
<1>1. idx[r] \in 1 .. Len(Body[r].events)
  BY DEF ApiInv, InBody
<1>2. Body[r].kind = "single"
  BY BodyFact, Zenon DEF Account
<1>3. Len(Body[r].events) = 1
  BY <1>2, BodyFact
<1> QED
  BY <1>1, <1>3

(* NextEvent, once the counts cover the event the request is at. *)
LEMMA NextEventAccount ==
  ASSUME ApiInv, NEW r \in Requests, pc[r] \in {"publish", "send"}, NextEvent(r),
         Account(r), IsFiniteSet(QueuedOf(r)'),
         accepted'[r] + failed'[r] = idx[r],
         accepted'[r] <= Cardinality(QueuedOf(r)'),
         \A m \in QueuedOf(r)' : m[2] \in Nat /\ m[2] <= idx[r]
  PROVE  Account(r)'
<1>1. /\ idx[r] \in 1 .. Len(Body[r].events) /\ Len(Body[r].events) \in Nat
      /\ reply[r] = 0
  BY BodyFact DEF ApiInv, InBody, Account
<1>2. CASE idx[r] < Len(Body[r].events)
  <2>1. pc'[r] = "publish" /\ idx'[r] = idx[r] + 1 /\ reply'[r] = 0
    BY <1>1, <1>2 DEF NextEvent, ApiInv, TypeOK
  <2>2. \A m \in QueuedOf(r)' : m[2] < idx'[r]
    BY <1>1, <2>1
  <2> QED
    BY <1>1, <2>1, <2>2 DEF Account
<1>3. CASE ~(idx[r] < Len(Body[r].events))
  <2>1. pc'[r] = "done" /\ reply'[r] = 202 /\ idx[r] = Len(Body[r].events)
    BY <1>1, <1>3 DEF NextEvent, Respond, ApiInv, TypeOK
  <2> QED
    BY <2>1 DEF Account
<1> QED
  BY <1>2, <1>3

LEMMA DecodeAccount ==
  ASSUME ApiInv, NEW r \in Requests, Decode(r), Account(r)
  PROVE  Account(r)'
<1>1. /\ pc[r] = "new" /\ UNCHANGED <<accepted, failed, queued>>
      /\ reply[r] = 0 /\ idx[r] = 1
      /\ accepted[r] = 0 /\ failed[r] = 0 /\ QueuedOf(r) = {}
      /\ Len(Body[r].events) \in Nat
  BY BodyFact DEF Decode, ApiInv, InBody, Account
<1>2. QueuedOf(r)' = {}
  BY <1>1 DEF QueuedOf
<1>3. \/ pc'[r] = "done" /\ reply'[r] \in {400, 413}
      \/ pc'[r] = "done" /\ reply'[r] = 202 /\ Len(Body[r].events) = 0
      \/ /\ pc'[r] = "publish" /\ idx'[r] = 1 /\ reply'[r] = 0
         /\ Body[r].kind # "garbage"
  BY <1>1 DEF Decode, Respond, ApiInv, TypeOK
<1> QED
  BY <1>1, <1>2, <1>3, FS_EmptySet DEF Account

(* A refused event counts as failed; a lone one that fails to validate      *)
(* leaves nothing in Kafka, as it was the first.                            *)
LEMMA RefuseAccount ==
  ASSUME ApiInv, NEW r \in Requests, NEW status \in {422, 500},
         pc[r] = "publish", Refuse(r, status), Account(r),
         UNCHANGED accepted, IsFiniteSet(QueuedOf(r)'),
         Cardinality(QueuedOf(r)) <= Cardinality(QueuedOf(r)'),
         \A m \in QueuedOf(r)' : m[2] \in Nat /\ m[2] <= idx[r],
         status = 422 => UNCHANGED queued
  PROVE  Account(r)'
<1>1. /\ failed'[r] = failed[r] + 1 /\ accepted'[r] = accepted[r]
      /\ failed[r] \in Nat /\ accepted[r] \in Nat /\ idx[r] \in Nat
      /\ reply[r] = 0
      /\ accepted[r] + failed[r] = idx[r] - 1
      /\ accepted[r] <= Cardinality(QueuedOf(r))
  BY DEF Refuse, ApiInv, TypeOK, Account
<1>2. /\ Cardinality(QueuedOf(r)) \in Nat
      /\ Cardinality(QueuedOf(r)') \in Nat
  BY FS_CardinalityType DEF Account
<1>3. /\ accepted'[r] + failed'[r] = idx[r]
      /\ accepted'[r] <= Cardinality(QueuedOf(r)')
  <2> DEFINE n == Cardinality(QueuedOf(r))
             k == Cardinality(QueuedOf(r)')
  <2>1. n \in Nat /\ k \in Nat /\ n <= k /\ accepted[r] <= n
    BY <1>1, <1>2
  <2> HIDE DEF n, k
  <2>2. accepted[r] <= k
    BY <1>1, <2>1
  <2>3. accepted'[r] + failed'[r] = idx[r]
    BY <1>1
  <2> QED
    BY <1>1, <2>2, <2>3 DEF k
<1>4. CASE Body[r].kind = "batch"
  <2>1. NextEvent(r)
    BY <1>4 DEF Refuse
  <2> QED
    BY <1>3, <2>1, NextEventAccount
<1>5. CASE Body[r].kind # "batch"
  <2>1. pc'[r] = "done" /\ reply'[r] = status
    BY <1>5 DEF Refuse, Respond, ApiInv, TypeOK
  <2>2. ASSUME status = 422
        PROVE  QueuedOf(r)' = {}
    <3>1. QueuedOf(r)' = QueuedOf(r)
      BY <2>2 DEF QueuedOf
    <3>2. idx[r] = 1
      BY <1>5, SingleAtWork
    <3>3. \A m \in QueuedOf(r) : m[2] < 1
      BY <3>2 DEF Account
    <3>4. \A m \in QueuedOf(r) : m[2] \in Nat \ {0}
      BY QueuedIndex
    <3> QED
      BY <3>1, <3>3, <3>4
  <2> QED
    BY <2>1, <2>2 DEF Account
<1> QED
  BY <1>4, <1>5

LEMMA PublishAccount ==
  ASSUME ApiInv, NEW r \in Requests, Publish(r), Account(r)
  PROVE  Account(r)'
<1> DEFINE m == <<r, idx[r]>>
           more == QueuedOf(r) \union {m}
<1>1. pc[r] = "publish" /\ accepted' = accepted /\ idx[r] \in Nat
  BY DEF Publish, ApiInv, TypeOK
<1>2. /\ IsFiniteSet(QueuedOf(r)) /\ accepted[r] <= Cardinality(QueuedOf(r))
      /\ accepted[r] + failed[r] = idx[r] - 1
      /\ \A n \in QueuedOf(r) : n[2] < idx[r]
      /\ reply[r] = 0 /\ Body[r].kind # "garbage"
  BY <1>1 DEF Account
<1>3. \A n \in more : n[2] \in Nat /\ n[2] <= idx[r]
  BY <1>1, <1>2, QueuedIndex
<1>4. /\ IsFiniteSet(more)
      /\ Cardinality(more) = Cardinality(QueuedOf(r)) + 1
      /\ Cardinality(QueuedOf(r)) \in Nat
  <2>1. m \notin QueuedOf(r)
    BY <1>1, <1>2
  <2> QED
    BY <1>2, <2>1, FS_AddElement, FS_CardinalityType
<1>5. \/ queued' = queued /\ QueuedOf(r)' = QueuedOf(r)
      \/ queued' = queued \union {m} /\ QueuedOf(r)' = more
  BY DEF Publish, QueuedOf
<1> HIDE DEF m, more
<1>6. CASE Refuse(r, 500)
  <2>1. /\ IsFiniteSet(QueuedOf(r)')
        /\ Cardinality(QueuedOf(r)) <= Cardinality(QueuedOf(r)')
        /\ \A n \in QueuedOf(r)' : n[2] \in Nat /\ n[2] <= idx[r]
    <3>1. CASE QueuedOf(r)' = QueuedOf(r)
      BY <1>2, <1>3, <1>4, <3>1 DEF more
    <3>2. CASE QueuedOf(r)' = more
      BY <1>3, <1>4, <3>2
    <3> QED
      BY <1>5, <3>1, <3>2
  <2> QED
    BY <1>1, <1>6, <2>1, RefuseAccount
<1>7. CASE /\ queued' = queued \union {m}
           /\ pc' = [pc EXCEPT ![r] = "lock"]
           /\ UNCHANGED <<idx, failed, reply>>
  <2>1. QueuedOf(r)' = more
    BY <1>7 DEF QueuedOf, m, more
  <2>2. pc'[r] = "lock" /\ accepted[r] \in Nat
    BY <1>7 DEF ApiInv, TypeOK
  <2> QED
    BY <1>1, <1>2, <1>3, <1>4, <1>7, <2>1, <2>2 DEF Account
<1> QED
  BY <1>6, <1>7 DEF Publish, m

LEMMA AccountStep ==
  ASSUME ApiInv, AccountInv, [Next]_vars
  PROVE  AccountInv'
<1>1. ASSUME NEW q \in Requests, Ingest(q)
      PROVE  AccountInv'
  <2> SUFFICES ASSUME NEW r \in Requests PROVE Account(r)'
    BY DEF AccountInv
  <2>1. Account(r)
    BY DEF AccountInv
  <2>2. CASE r # q
    BY <1>1, <2>1, <2>2, OwnStep, AccountOther
  <2>3. CASE r = q /\ Decode(r)
    BY <2>1, <2>3, DecodeAccount
  <2>4. CASE r = q /\ Validate(r)
    <3>1. /\ pc[r] = "publish" /\ UNCHANGED <<accepted, queued>>
          /\ Refuse(r, 422)
      BY <2>4 DEF Validate
    <3>2. QueuedOf(r)' = QueuedOf(r)
      BY <3>1 DEF QueuedOf
    <3>3. /\ IsFiniteSet(QueuedOf(r)) /\ Cardinality(QueuedOf(r)) \in Nat
          /\ idx[r] \in Nat /\ \A m \in QueuedOf(r) : m[2] < idx[r]
      BY <2>1, <3>1, FS_CardinalityType DEF Account, ApiInv, TypeOK
    <3>4. \A m \in QueuedOf(r) : m[2] \in Nat /\ m[2] <= idx[r]
      BY <3>3, QueuedIndex
    <3> QED
      BY <2>1, <3>1, <3>2, <3>3, <3>4, RefuseAccount
  <2>5. CASE r = q /\ Publish(r)
    BY <2>1, <2>5, PublishAccount
  <2>6. CASE r = q /\ (RLock(r) \/ Send(r))
    <3>1. /\ pc[r] \in {"lock", "send"} /\ pc'[r] = "send"
          /\ UNCHANGED <<idx, accepted, failed, reply, queued>>
      BY <2>6 DEF RLock, Send, ApiInv, TypeOK
    <3>2. QueuedOf(r)' = QueuedOf(r)
      BY <3>1 DEF QueuedOf
    <3> QED
      BY <2>1, <3>1, <3>2 DEF Account
  <2>7. CASE r = q /\ RUnlock(r)
    <3>1. /\ pc[r] = "send" /\ UNCHANGED <<failed, queued>> /\ NextEvent(r)
          /\ accepted'[r] = accepted[r] + 1
          /\ accepted[r] \in Nat /\ failed[r] \in Nat /\ idx[r] \in Nat
      BY <2>7 DEF RUnlock, ApiInv, TypeOK
    <3>2. QueuedOf(r)' = QueuedOf(r)
      BY <3>1 DEF QueuedOf
    <3>3. /\ IsFiniteSet(QueuedOf(r)) /\ Cardinality(QueuedOf(r)) \in Nat
          /\ accepted[r] + failed[r] = idx[r] - 1
          /\ accepted[r] < Cardinality(QueuedOf(r))
          /\ \A m \in QueuedOf(r) : m[2] <= idx[r]
      BY <2>1, <3>1, FS_CardinalityType DEF Account
    <3>4. /\ accepted'[r] + failed'[r] = idx[r]
          /\ accepted'[r] <= Cardinality(QueuedOf(r))
      BY <3>1, <3>3
    <3>5. \A m \in QueuedOf(r) : m[2] \in Nat /\ m[2] <= idx[r]
      BY <3>3, QueuedIndex
    <3> QED
      BY <2>1, <3>1, <3>2, <3>3, <3>4, <3>5, NextEventAccount
  <2> QED
    BY <1>1, <2>2, <2>3, <2>4, <2>5, <2>6, <2>7 DEF Ingest
<1>2. CASE UNCHANGED requestVars
  <2> SUFFICES ASSUME NEW r \in Requests PROVE Account(r)'
    BY DEF AccountInv
  <2> QED
    BY <1>2, AccountOther DEF AccountInv, requestVars, QueuedOf
<1>3. ASSUME NEW s \in Streams,
             Connect(s) \/ Stream(s) \/ Receive(s) \/ Write(s) \/ Disconnect(s)
      PROVE  UNCHANGED requestVars
  BY <1>3 DEF Connect, Stream, RegisterSSEClient, Return, UnregisterSSEClient,
              Receive, Write, Flush, WriteFails, Disconnect
<1> QED
  BY <1>1, <1>2, <1>3 DEF Next, vars

(* A 202 counts every event of the body, as accepted none that is not in    *)
(* Kafka, and a 4xx leaves nothing there, whatever the other requests and   *)
(* the dashboards do meanwhile (HandleIngestBatch, HandleIngestEvent).      *)
THEOREM AnswersAccount == Spec => []AnswerAccounts
<1>1. Init => ApiInv /\ AccountInv
  BY ApiInit, AccountInit
<1>2. ApiInv /\ AccountInv /\ [Next]_vars => (ApiInv /\ AccountInv)'
  BY ApiStep, AccountStep
<1>3. AccountInv => AnswerAccounts
  BY DEF AccountInv, Account, AnswerAccounts
<1> QED
  BY <1>1, <1>2, <1>3, PTL DEF Spec

-----------------------------------------------------------------------------
(* Streams.                                                                 *)

(* Only a stream at its write holds a message outside channel and client,   *)
(* and the events handed to a stream are those its requests are past, the   *)
(* one under way included once the broadcast has come to the stream.        *)
Past(m, s) ==
  LET r == m[1] IN
  /\ pc[r] # "new"
  /\ pc[r] \in {"publish", "lock"} => m[2] < idx[r]
  /\ pc[r] = "send" => m[2] <= idx[r]
  /\ pc[r] = "send" /\ s \in todo[r] => m[2] < idx[r]

Ordered(q) ==
  \A i, j \in 1 .. Len(q) : i < j /\ q[i][1] = q[j][1] => q[i][2] < q[j][2]

Has(s, m) == \E i \in 1 .. Len(Delivered(s)) : Delivered(s)[i] = m

(* What a stream must be if a broadcast of m has passed it.                 *)
Excused(s, m) == Has(s, m) \/ Len(Delivered(s)) >= Buffer \/ s \in cancelled

StreamInv ==
  /\ \A s \in Streams : conn[s] = "idle" => writing[s] = << >>
  /\ \A s \in Streams : Ordered(Delivered(s))
  /\ \A s \in Streams, m \in Messages : Has(s, m) => Past(m, s)
  /\ \A r \in Requests, s \in Streams, m \in Messages :
       /\ pc[r] = "send" /\ m = <<r, idx[r]>>
       /\ s \in sseClients /\ s \notin todo[r]
       => Excused(s, m)

(* What a step can do to what stream s was handed: nothing, a message more, *)
(* or the loss of the one being written.                                    *)
Same(s) == Delivered(s)' = Delivered(s)

Given(s, m) == Delivered(s)' = Append(Delivered(s), m)

Dropped(s) == Delivered(s)' = wire[s] \o channel[s] /\ s \in cancelled'

LEMMA DeliveredType ==
  ASSUME TypeOK, NEW s \in Streams
  PROVE  /\ Delivered(s) \in Seq(Messages)
         /\ channel[s] \in Seq(Messages) /\ writing[s] \in Seq(Messages)
         /\ wire[s] \in Seq(Messages)
BY DEF TypeOK, Delivered

(* A message names its request and the place of its event. *)
LEMMA MessageType ==
  ASSUME NEW m \in Messages
  PROVE  m[1] \in Requests /\ m[2] \in Nat
<1>1. PICK r \in Requests : m \in {r} \X (1 .. Len(Body[r].events))
  BY DEF Messages
<1> QED
  BY <1>1, BodyFact

LEMMA AppendKeepsOrder ==
  ASSUME NEW q \in Seq(Messages), Ordered(q), NEW m \in Messages,
         \A i \in 1 .. Len(q) : q[i][1] = m[1] => q[i][2] < m[2]
  PROVE  Ordered(Append(q, m))
<1> DEFINE p == Append(q, m)
<1>1. /\ Len(p) = Len(q) + 1 /\ Len(q) \in Nat
      /\ \A i \in 1 .. Len(q) : p[i] = q[i]
      /\ p[Len(q) + 1] = m
  OBVIOUS
<1> HIDE DEF p
<1> SUFFICES ASSUME NEW i \in 1 .. Len(p), NEW j \in 1 .. Len(p),
                    i < j, p[i][1] = p[j][1]
             PROVE  p[i][2] < p[j][2]
  BY DEF Ordered, p
<1>2. CASE j = Len(q) + 1
  BY <1>1, <1>2
<1>3. CASE j # Len(q) + 1
  BY <1>1, <1>3 DEF Ordered
<1> QED
  BY <1>2, <1>3

(* Leaving out the middle of a sequence keeps what is left in order. *)
LEMMA CutKeeps ==
  ASSUME NEW a \in Seq(Messages), NEW b \in Seq(Messages), NEW c \in Seq(Messages)
  PROVE  /\ Ordered(a \o b \o c) => Ordered(a \o c)
         /\ \A i \in 1 .. Len(a \o c) :
              \E j \in 1 .. Len(a \o b \o c) : (a \o c)[i] = (a \o b \o c)[j]
<1> DEFINE f(i) == IF i <= Len(a) THEN i ELSE i + Len(b)
           ac == a \o c
           abc == a \o b \o c
<1>1. /\ Len(ac) = Len(a) + Len(c)
      /\ Len(abc) = Len(a) + Len(b) + Len(c)
      /\ Len(a) \in Nat /\ Len(b) \in Nat /\ Len(c) \in Nat
  OBVIOUS
<1>2. ASSUME NEW i \in 1 .. Len(ac)
      PROVE  f(i) \in 1 .. Len(abc) /\ abc[f(i)] = ac[i]
  <2>1. f(i) \in 1 .. Len(abc)
    BY <1>1
  <2>2. CASE i <= Len(a)
    BY <1>1, <2>2
  <2>3. CASE i > Len(a)
    <3>1. ac[i] = c[i - Len(a)]
      BY <1>1, <2>3
    <3>2. abc[i + Len(b)] = c[i - Len(a)]
      BY <1>1, <2>3
    <3> QED
      BY <1>1, <2>3, <3>1, <3>2
  <2> QED
    BY <1>1, <2>1, <2>2, <2>3
<1>3. ASSUME NEW i \in 1 .. Len(ac), NEW j \in 1 .. Len(ac), i < j
      PROVE  f(i) < f(j)
  BY <1>1, <1>3
<1> HIDE DEF f, ac, abc
<1>4. Ordered(abc) => Ordered(ac)
  BY <1>2, <1>3 DEF Ordered
<1>5. \A i \in 1 .. Len(ac) : \E j \in 1 .. Len(abc) : ac[i] = abc[j]
  BY <1>2
<1> QED
  BY <1>4, <1>5 DEF ac, abc

LEMMA StreamInit == Init => StreamInv
<1> SUFFICES ASSUME Init PROVE StreamInv
  OBVIOUS
<1>1. ASSUME NEW s \in Streams
      PROVE  /\ writing[s] = << >> /\ Len(Delivered(s)) = 0
             /\ sseClients = {}
  BY DEF Init, Delivered
<1>2. ASSUME NEW s \in Streams
      PROVE  Ordered(Delivered(s)) /\ \A m \in Messages : ~Has(s, m)
  <2>1. 1 .. Len(Delivered(s)) = {}
    BY <1>1
  <2> QED
    BY <2>1 DEF Ordered, Has
<1> QED
  BY <1>1, <1>2 DEF StreamInv

LEMMA HasStep ==
  ASSUME TypeOK, NEW s \in Streams, NEW m \in Messages, Has(s, m)'
  PROVE  /\ Same(s) \/ Dropped(s) => Has(s, m)
         /\ \A n \in Messages : Given(s, n) => m = n \/ Has(s, m)
<1>1. /\ Delivered(s) \in Seq(Messages)
      /\ channel[s] \in Seq(Messages) /\ writing[s] \in Seq(Messages)
      /\ wire[s] \in Seq(Messages)
  BY DeliveredType
<1>2. CASE Same(s)
  BY <1>2 DEF Same, Has
<1>3. CASE Dropped(s)
  <2>1. PICK i \in 1 .. Len(wire[s] \o channel[s]) :
          (wire[s] \o channel[s])[i] = m
    BY <1>3 DEF Dropped, Has
  <2> QED
    BY <1>1, <2>1, CutKeeps DEF Has, Delivered
<1>4. ASSUME NEW n \in Messages, Given(s, n), m # n
      PROVE  Has(s, m)
  <2>1. PICK i \in 1 .. Len(Append(Delivered(s), n)) : Append(Delivered(s), n)[i] = m
    BY <1>4 DEF Given, Has
  <2> QED
    BY <1>1, <1>4, <2>1 DEF Has
<1> QED
  BY <1>2, <1>3, <1>4

(* Who has a message or a full buffer keeps it, or is cancelled. *)
LEMMA ExcusedStep ==
  ASSUME TypeOK, NEW s \in Streams, NEW m \in Messages, Excused(s, m),
         cancelled \subseteq cancelled',
         Same(s) \/ Dropped(s) \/ \E n \in Messages : Given(s, n)
  PROVE  Excused(s, m)'
<1>1. Delivered(s) \in Seq(Messages) /\ Buffer \in Nat
  BY DeliveredType, SizesAssumption
<1>2. CASE Same(s)
  BY <1>2 DEF Same, Excused, Has
<1>3. CASE Dropped(s)
  BY <1>3 DEF Dropped, Excused
<1>4. ASSUME NEW n \in Messages, Given(s, n)
      PROVE  Excused(s, m)'
  <2> DEFINE d == Delivered(s)  e == Append(d, n)
  <2>1. /\ Len(e) = Len(d) + 1 /\ Len(d) \in Nat
        /\ \A i \in 1 .. Len(d) : e[i] = d[i]
    BY <1>1
  <2>2. Delivered(s)' = e
    BY <1>4 DEF Given
  <2> HIDE DEF d, e
  <2>3. CASE Has(s, m)
    <3>1. PICK i \in 1 .. Len(d) : d[i] = m
      BY <2>3 DEF Has, d
    <3>2. i \in 1 .. Len(e) /\ e[i] = m
      BY <2>1, <3>1
    <3> QED
      BY <2>2, <3>2 DEF Excused, Has
  <2>4. CASE Len(d) >= Buffer
    <3>1. Len(e) >= Buffer
      BY <1>1, <2>1, <2>4
    <3> QED
      BY <2>2, <3>1 DEF Excused
  <2>5. CASE s \in cancelled
    BY <2>5 DEF Excused
  <2> QED
    BY <2>3, <2>4, <2>5 DEF Excused, d
<1> QED
  BY <1>2, <1>3, <1>4

LEMMA OrderedStep ==
  ASSUME TypeOK, NEW s \in Streams, Ordered(Delivered(s)), Same(s) \/ Dropped(s)
  PROVE  Ordered(Delivered(s)')
<1>1. CASE Same(s)
  BY <1>1 DEF Same
<1>2. CASE Dropped(s)
  <2>1. /\ channel[s] \in Seq(Messages) /\ writing[s] \in Seq(Messages)
        /\ wire[s] \in Seq(Messages)
    BY DeliveredType
  <2>2. Ordered(wire[s] \o channel[s])
    BY <2>1, CutKeeps DEF Delivered
  <2> QED
    BY <1>2, <2>2 DEF Dropped
<1> QED
  BY <1>1, <1>2

-----------------------------------------------------------------------------
(* A stream's own steps. *)
LEMMA ReceiveSame ==
  ASSUME TypeOK, StreamInv, NEW s \in Streams, Receive(s)
  PROVE  Same(s)
<1> DEFINE w == wire[s]  c == channel[s]
<1>1. /\ w \in Seq(Messages) /\ c \in Seq(Messages) /\ c # << >>
      /\ writing[s] = << >>
      /\ wire'[s] = w /\ writing'[s] = <<Head(c)>> /\ channel'[s] = Tail(c)
  BY DEF Receive, Move, TypeOK, StreamInv
<1> HIDE DEF w, c
<1>2. w \o << >> \o c = w \o c
  BY <1>1
<1>3. w \o <<Head(c)>> \o Tail(c) = w \o c
  BY <1>1
<1> QED
  BY <1>1, <1>2, <1>3 DEF Same, Delivered, w, c

LEMMA FlushSame ==
  ASSUME TypeOK, NEW s \in Streams, Flush(s)
  PROVE  Same(s)
<1> DEFINE w == wire[s]  x == writing[s]  c == channel[s]
<1>1. /\ w \in Seq(Messages) /\ c \in Seq(Messages) /\ x \in Seq(Messages)
      /\ wire'[s] = w \o x /\ writing'[s] = << >> /\ channel'[s] = c
  BY DEF Flush, Move, TypeOK, hubVars
<1> HIDE DEF w, c, x
<1>2. (w \o x) \o << >> \o c = w \o x \o c
  BY <1>1
<1> QED
  BY <1>1, <1>2 DEF Same, Delivered, w, c, x

LEMMA WriteFailsDropped ==
  ASSUME TypeOK, NEW s \in Streams, WriteFails(s)
  PROVE  Dropped(s)
<1> DEFINE w == wire[s]  c == channel[s]
<1>1. /\ w \in Seq(Messages) /\ c \in Seq(Messages)
      /\ wire'[s] = w /\ writing'[s] = << >> /\ channel'[s] = c
      /\ s \in cancelled'
  BY DEF WriteFails, Move, TypeOK, hubVars
<1> HIDE DEF w, c
<1>2. w \o << >> \o c = w \o c
  BY <1>1
<1> QED
  BY <1>1, <1>2 DEF Dropped, Delivered, w, c

LEMMA StreamStep ==
  ASSUME ApiInv, StreamInv, NEW s \in Streams,
         Connect(s) \/ Stream(s) \/ Receive(s) \/ Write(s) \/ Disconnect(s)
  PROVE  StreamInv'
<1> USE DEF ApiInv
<1>1. UNCHANGED requestVars /\ cancelled \subseteq cancelled'
  BY DEF Connect, Stream, RegisterSSEClient, Return, UnregisterSSEClient,
         Receive, Write, Flush, WriteFails, Disconnect
<1>2. sseClients' \subseteq sseClients \/ Readers = {}
  BY DEF Connect, Stream, RegisterSSEClient, Return, UnregisterSSEClient,
         Receive, Write, Flush, WriteFails, Disconnect, hubVars
<1>3. ASSUME NEW t \in Streams, conn'[t] = "idle"
      PROVE  writing'[t] = << >>
  BY <1>3 DEF Connect, Stream, RegisterSSEClient, Return, UnregisterSSEClient,
              Receive, Write, Flush, WriteFails, Disconnect, Move, TypeOK, StreamInv
<1>4. ASSUME NEW t \in Streams
      PROVE  Same(t) \/ Dropped(t)
  <2>1. CASE Connect(s) \/ Stream(s) \/ Disconnect(s)
    <3>1. UNCHANGED <<channel, writing, wire>>
      BY <2>1 DEF Connect, Stream, RegisterSSEClient, Return,
                  UnregisterSSEClient, Disconnect, hubVars
    <3> QED
      BY <3>1 DEF Same, Delivered
  <2>2. CASE t # s /\ (Receive(s) \/ Write(s))
    <3>1. channel'[t] = channel[t] /\ writing'[t] = writing[t] /\ wire'[t] = wire[t]
      BY <2>2 DEF Receive, Write, Flush, WriteFails, TypeOK, hubVars
    <3> QED
      BY <3>1 DEF Same, Delivered
  <2>3. CASE t = s /\ (Receive(s) \/ Write(s))
    BY <2>3, ReceiveSame, FlushSame, WriteFailsDropped DEF Write
  <2> QED
    BY <2>1, <2>2, <2>3
<1>5. ASSUME NEW t \in Streams
      PROVE  Ordered(Delivered(t)')
  BY <1>4, OrderedStep DEF StreamInv
<1>6. ASSUME NEW t \in Streams, NEW m \in Messages, Has(t, m)'
      PROVE  Past(m, t)'
  <2>1. Past(m, t)
    BY <1>4, <1>6, HasStep DEF StreamInv
  <2> QED
    BY <1>1, <2>1 DEF Past, requestVars
<1>7. ASSUME NEW r \in Requests, NEW t \in Streams, NEW m \in Messages,
             pc'[r] = "send", m = <<r, idx'[r]>>, t \in sseClients',
             t \notin todo'[r]
      PROVE  Excused(t, m)'
  <2>1. /\ pc[r] = "send" /\ m = <<r, idx[r]>> /\ t \notin todo[r]
        /\ t \in sseClients
    BY <1>1, <1>2, <1>7 DEF requestVars, Readers
  <2>2. Excused(t, m)
    BY <2>1 DEF StreamInv
  <2> QED
    BY <1>1, <1>4, <2>2, ExcusedStep
<1> QED
  BY <1>3, <1>5, <1>6, <1>7 DEF StreamInv

(* A request's steps: the send apart, they only move it past events. *)
LEMMA PastStep ==
  ASSUME ApiInv, NEW r \in Requests, Ingest(r), NEW s \in Streams,
         NEW m \in Messages, Past(m, s)
  PROVE  Past(m, s)'
<1> USE DEF ApiInv
<1>1. m[1] \in Requests /\ m[2] \in Nat /\ idx[r] \in Nat
  BY MessageType DEF TypeOK
<1>2. CASE m[1] # r
  BY <1>1, <1>2, OwnStep DEF Past
<1>3. CASE m[1] = r
  <2>1. CASE Decode(r)
    BY <1>3, <2>1 DEF Past, Decode
  <2>2. CASE Validate(r) \/ Publish(r) \/ RUnlock(r)
    <3>1. /\ pc[r] \in {"publish", "send"}
          /\ \/ pc'[r] \in {"done"}
             \/ pc'[r] = "publish" /\ idx'[r] = idx[r] + 1
             \/ pc[r] = "publish" /\ pc'[r] = "lock" /\ idx'[r] = idx[r]
      BY <2>2 DEF Validate, Publish, RUnlock, Refuse, NextEvent, Respond, TypeOK
    <3>2. m[2] <= idx[r] /\ (pc[r] = "publish" => m[2] < idx[r])
      BY <1>1, <1>3, <3>1 DEF Past
    <3>3. pc'[r] \in {"publish", "lock"} => m[2] < idx'[r]
      <4>1. CASE pc'[r] = "publish" /\ idx'[r] = idx[r] + 1
        BY <1>1, <3>2, <4>1
      <4>2. CASE pc[r] = "publish" /\ pc'[r] = "lock" /\ idx'[r] = idx[r]
        BY <3>2, <4>2
      <4> QED
        BY <3>1, <4>1, <4>2
    <3>4. pc'[r] \in {"publish", "lock", "done"}
      BY <3>1
    <3>5. pc'[m[1]] = pc'[r] /\ idx'[m[1]] = idx'[r]
      BY <1>3
    <3> HIDE DEF ApiInv
    <3> QED
      BY <3>3, <3>4, <3>5 DEF Past
  <2>3. CASE RLock(r)
    BY <1>1, <1>3, <2>3 DEF Past, RLock, TypeOK
  <2>4. CASE Send(r)
    <3>1. /\ pc[r] = "send" /\ UNCHANGED <<pc, idx>> /\ todo'[r] \subseteq todo[r]
      BY <2>4 DEF Send, TypeOK
    <3> QED
      BY <1>1, <1>3, <3>1 DEF Past
  <2> QED
    BY <2>1, <2>2, <2>3, <2>4 DEF Ingest
<1> QED
  BY <1>2, <1>3

(* A broadcast gives its message to a stream that has no later one of the   *)
(* same request, or finds its buffer full.                                  *)
LEMMA SendStep ==
  ASSUME ApiInv, StreamInv, NEW r \in Requests, Send(r)
  PROVE  StreamInv'
<1> USE DEF ApiInv
<1> DEFINE m == <<r, idx[r]>>
<1>1. PICK s \in todo[r] :
        /\ todo' = [todo EXCEPT ![r] = @ \ {s}]
        /\ IF s \in closed
           THEN panicked' = TRUE /\ UNCHANGED channel
           ELSE Offer(s, m) /\ UNCHANGED panicked
  BY DEF Send
<1>2. /\ pc[r] = "send" /\ s \in Streams /\ s \in sseClients /\ s \notin closed
      /\ UNCHANGED <<pc, idx, sseClients, conn, writing, wire, cancelled>>
  BY DEF Send, TypeOK, HubInv, Readers, streamVars
<1>3. m \in Messages /\ m[1] = r /\ m[2] = idx[r] /\ idx[r] \in Nat
  BY <1>2, MessageFact DEF TypeOK
<1>4. /\ todo \in [Requests -> SUBSET Streams] /\ channel \in [Streams -> Seq(Messages)]
      /\ Buffer \in Nat
  BY SizesAssumption DEF TypeOK
<1>5. \A t \in Streams : t # s => channel'[t] = channel[t]
  BY <1>1, <1>2, <1>4 DEF Offer
<1>6. \/ Given(s, m)
      \/ Same(s) /\ Len(Delivered(s)) >= Buffer
  <2> DEFINE w == wire[s]  x == writing[s]  c == channel[s]
  <2>1. w \in Seq(Messages) /\ x \in Seq(Messages) /\ c \in Seq(Messages)
    BY <1>2 DEF TypeOK
  <2>2. \/ Len(c) < Buffer /\ channel'[s] = Append(c, m)
        \/ Len(c) >= Buffer /\ channel'[s] = c
    BY <1>1, <1>2, <1>4 DEF Offer
  <2>3. Delivered(s) = w \o x \o c /\ Delivered(s)' = w \o x \o channel'[s]
    BY <1>2 DEF Delivered
  <2> HIDE DEF w, x, c, m
  <2>4. w \o x \o Append(c, m) = Append(w \o x \o c, m)
    BY <1>3, <2>1
  <2>5. Len(w \o x \o c) = Len(w) + Len(x) + Len(c) /\ Len(w) \in Nat
        /\ Len(x) \in Nat /\ Len(c) \in Nat
    BY <2>1
  <2>6. CASE channel'[s] = Append(c, m)
    BY <2>3, <2>4, <2>6 DEF Given
  <2>7. CASE Len(c) >= Buffer /\ channel'[s] = c
    <3>1. Len(w \o x \o c) >= Buffer
      BY <1>4, <2>5, <2>7
    <3> QED
      BY <2>3, <2>7, <3>1 DEF Same
  <2> QED
    BY <2>2, <2>6, <2>7
<1>7. ASSUME NEW t \in Streams, t # s
      PROVE  Same(t)
  BY <1>2, <1>5, <1>7 DEF Same, Delivered
<1> HIDE DEF m
<1>8. ASSUME NEW t \in Streams
      PROVE  Ordered(Delivered(t)')
  <2>1. CASE Same(t)
    BY <2>1, OrderedStep DEF StreamInv
  <2>2. CASE t = s /\ Given(s, m)
    <3> DEFINE d == Delivered(s)
    <3>1. d \in Seq(Messages) /\ Ordered(d)
      BY <1>2, DeliveredType DEF StreamInv
    <3>2. ASSUME NEW i \in 1 .. Len(d), d[i][1] = m[1]
          PROVE  d[i][2] < m[2]
      <4>1. d[i] \in Messages /\ Has(s, d[i])
        BY <3>1 DEF Has
      <4>2. Past(d[i], s)
        BY <1>2, <4>1 DEF StreamInv
      <4> HIDE DEF d
      <4> QED
        BY <1>1, <1>2, <1>3, <3>2, <4>2 DEF Past
    <3>3. Ordered(Append(d, m))
      BY <1>3, <3>1, <3>2, AppendKeepsOrder
    <3> QED
      BY <2>2, <3>3 DEF Given
  <2> QED
    BY <1>6, <1>7, <2>1, <2>2
<1>9. ASSUME NEW t \in Streams, NEW n \in Messages, Has(t, n)'
      PROVE  Past(n, t)'
  <2>1. CASE Has(t, n)
    BY <2>1, PastStep DEF StreamInv, Ingest
  <2>2. CASE t = s /\ n = m
    <3>1. s \notin todo'[r] /\ pc'[r] = "send" /\ idx'[r] = idx[r]
      BY <1>1, <1>2, <1>4
    <3> QED
      BY <1>3, <2>2, <3>1 DEF Past
  <2>3. Has(t, n) \/ (t = s /\ n = m)
    BY <1>3, <1>6, <1>7, <1>9, HasStep
  <2> QED
    BY <2>1, <2>2, <2>3
<1>10. ASSUME NEW q \in Requests, NEW t \in Streams, NEW n \in Messages,
              pc'[q] = "send", n = <<q, idx'[q]>>, t \in sseClients',
              t \notin todo'[q]
       PROVE  Excused(t, n)'
  <2>1. CASE t \notin todo[q]
    <3>1. Excused(t, n)
      BY <1>2, <1>10, <2>1 DEF StreamInv
    <3> QED
      BY <1>2, <1>3, <1>6, <1>7, <3>1, ExcusedStep
  <2>2. CASE t \in todo[q]
    <3>1. q = r /\ t = s /\ n = m
      BY <1>1, <1>2, <1>4, <1>10, <2>2 DEF m
    <3>2. CASE Given(s, m)
      <4>1. Delivered(s) \in Seq(Messages)
        BY <1>2, DeliveredType
      <4>2. Delivered(s)' = Append(Delivered(s), m)
        BY <3>2 DEF Given
      <4>3. LET e == Append(Delivered(s), m) IN
              Len(e) \in 1 .. Len(e) /\ e[Len(e)] = m
        BY <1>3, <4>1
      <4> QED
        BY <3>1, <4>2, <4>3 DEF Excused, Has
    <3>3. CASE Same(s) /\ Len(Delivered(s)) >= Buffer
      BY <3>1, <3>3 DEF Same, Excused
    <3> QED
      BY <1>6, <3>2, <3>3
  <2> QED
    BY <2>1, <2>2
<1>11. \A t \in Streams : conn'[t] = "idle" => writing'[t] = << >>
  BY <1>2 DEF StreamInv
<1> QED
  BY <1>8, <1>9, <1>10, <1>11 DEF StreamInv

LEMMA RequestStep ==
  ASSUME ApiInv, StreamInv, NEW r \in Requests, Ingest(r), ~Send(r)
  PROVE  StreamInv'
<1>1. UNCHANGED <<streamVars, hubVars>>
  BY DEF Ingest, Decode, Validate, Publish, RLock, RUnlock
<1>2. UNCHANGED <<channel, writing, wire, conn, cancelled, sseClients>>
  BY <1>1 DEF streamVars, hubVars
<1>3. \A s \in Streams : Same(s)
  BY <1>2 DEF Same, Delivered
<1>4. ASSUME NEW s \in Streams
      PROVE  /\ Ordered(Delivered(s)')
             /\ conn'[s] = "idle" => writing'[s] = << >>
  BY <1>2, <1>3, OrderedStep DEF StreamInv, ApiInv
<1>5. ASSUME NEW s \in Streams, NEW m \in Messages, Has(s, m)'
      PROVE  Past(m, s)'
  BY <1>3, <1>5, HasStep, PastStep DEF StreamInv, ApiInv
<1>6. ASSUME NEW q \in Requests, NEW s \in Streams, NEW m \in Messages,
             pc'[q] = "send", m = <<q, idx'[q]>>, s \in sseClients',
             s \notin todo'[q]
      PROVE  Excused(s, m)'
  <2>1. q # r
    <3>1. pc'[r] = "send" => RLock(r) /\ todo'[r] = sseClients
      BY DEF Ingest, Decode, Validate, Publish, RLock, RUnlock, Refuse,
             NextEvent, Respond, ApiInv, TypeOK
    <3> QED
      BY <1>2, <1>6, <3>1
  <2>2. pc[q] = "send" /\ m = <<q, idx[q]>> /\ s \in sseClients /\ s \notin todo[q]
    BY <1>2, <1>6, <2>1, OwnStep
  <2>3. Excused(s, m)
    BY <2>2 DEF StreamInv
  <2> QED
    BY <1>2, <1>3, <2>3, ExcusedStep DEF ApiInv
<1> QED
  BY <1>4, <1>5, <1>6 DEF StreamInv

LEMMA StreamInvariant == Spec => [](ApiInv /\ StreamInv)
<1>1. Init => ApiInv /\ StreamInv
  BY ApiInit, StreamInit
<1>2. ApiInv /\ StreamInv /\ [Next]_vars => (ApiInv /\ StreamInv)'
  <2> SUFFICES ASSUME ApiInv, StreamInv, [Next]_vars
               PROVE  StreamInv'
    BY ApiStep
  <2>1. ASSUME NEW r \in Requests, Ingest(r)
        PROVE  StreamInv'
    BY <2>1, SendStep, RequestStep
  <2>2. CASE UNCHANGED vars
    <3>1. /\ UNCHANGED <<channel, writing, wire, conn, cancelled, sseClients>>
          /\ UNCHANGED <<pc, idx, todo>>
      BY <2>2 DEF vars, requestVars, streamVars, hubVars
    <3>2. ASSUME NEW s \in Streams
          PROVE  Delivered(s)' = Delivered(s)
      BY <3>1 DEF Delivered
    <3>3. ASSUME NEW s \in Streams, NEW m \in Messages
          PROVE  /\ Has(s, m)' <=> Has(s, m)
                 /\ Past(m, s)' <=> Past(m, s)
                 /\ Excused(s, m)' <=> Excused(s, m)
      BY <3>1, <3>2 DEF Has, Past, Excused
    <3> QED
      BY <3>1, <3>2, <3>3 DEF StreamInv, Ordered
  <2> QED
    BY <2>1, <2>2, StreamStep DEF Next
<1> QED
  BY <1>1, <1>2, PTL DEF Spec

(* A dashboard is given the events of one request in their order and once   *)
(* each, however broadcasts, dropped messages and failed writes interleave. *)
THEOREM RequestsInOrder == Spec => []OrderOfRequest
<1>1. ApiInv /\ StreamInv => OrderOfRequest
  <2> SUFFICES ASSUME ApiInv, StreamInv, NEW s \in Streams
               PROVE  \A i, j \in DOMAIN Delivered(s) :
                        /\ i < j
                        /\ Delivered(s)[i][1] = Delivered(s)[j][1]
                        => Delivered(s)[i][2] < Delivered(s)[j][2]
    BY DEF OrderOfRequest
  <2>1. DOMAIN Delivered(s) = 1 .. Len(Delivered(s))
    BY DeliveredType DEF ApiInv
  <2> QED
    BY <2>1 DEF StreamInv, Ordered
<1> QED
  BY <1>1, StreamInvariant, PTL

(* Only a stream that is gone, or was handed a whole buffer of messages,    *)
(* misses one: the select of broadcastSSE drops for want of room alone.     *)
THEOREM OnlySlowMiss == Spec => []OnlySlowOnesMiss
<1>1. ApiInv /\ StreamInv => OnlySlowOnesMiss
  <2> SUFFICES ASSUME ApiInv, StreamInv, NEW r \in Readers,
                      NEW s \in sseClients \ todo[r]
               PROVE  \/ <<r, idx[r]>> \in Range(Delivered(s))
                      \/ Len(Delivered(s)) >= Buffer
                      \/ s \in cancelled
    BY DEF OnlySlowOnesMiss
  <2> DEFINE m == <<r, idx[r]>>
  <2>1. /\ s \in Streams /\ r \in Requests /\ pc[r] = "send"
        /\ s \in sseClients /\ s \notin todo[r] /\ m \in Messages
    BY MessageFact DEF ApiInv, TypeOK, Readers
  <2>2. Excused(s, m)
    BY <2>1 DEF StreamInv
  <2>3. Has(s, m) => m \in Range(Delivered(s))
    <3>1. DOMAIN Delivered(s) = 1 .. Len(Delivered(s))
      BY <2>1, DeliveredType DEF ApiInv
    <3> HIDE DEF m
    <3> QED
      BY <3>1 DEF Has, Range
  <2> QED
    BY <2>2, <2>3 DEF Excused
<1> QED
  BY <1>1, StreamInvariant, PTL
=============================================================================
