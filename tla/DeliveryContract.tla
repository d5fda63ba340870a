--------------------------- MODULE DeliveryContract ---------------------------
(***************************************************************************)
(* What the consume side of llmwatch promises about an event published to  *)
(* the topic, with no workers, caches or faults in sight: an event may be  *)
(* claimed by an attempt to store it, every claim is settled by the event  *)
(* being stored or by an excuse on record, and the group acknowledges a    *)
(* message only once its event is claimed or settled.                      *)
(*                                                                         *)
(* EventConsumer implements it.  Its shape is that of the steps of         *)
(* Consume and Process; that "at least once" has excuses at all is what    *)
(* separates the code from the comment of KafkaConsumer.Consume.           *)
(***************************************************************************)
EXTENDS Integers, Sequences

CONSTANTS
  Partitions,  (* partitions of the topic *)
  EventIds     (* event_id values         *)

VARIABLES
  topic,    (* topic[p] is the sequence of event ids published to p     *)
  acked,    (* messages of p the group has acknowledged                 *)
  pending,  (* events some attempt is about to store                    *)
  stored,   (* events with a row in the table                           *)
  excused   (* events given up with an error, or with an abandoned claim *)

vars == <<topic, acked, pending, stored, excused>>

Published(id) ==
  \E p \in Partitions : \E i \in DOMAIN topic[p] : topic[p][i] = id

Accounted(id) == id \in pending \union stored \union excused

Init ==
  /\ topic = [p \in Partitions |-> << >>]
  /\ acked = [p \in Partitions |-> 0]
  /\ pending = {}
  /\ stored = {}
  /\ excused = {}

Publish(p, id) ==
  /\ topic' = [topic EXCEPT ![p] = Append(@, id)]
  /\ UNCHANGED <<acked, pending, stored, excused>>

Claim(id) ==
  /\ Published(id)
  /\ pending' = pending \union {id}
  /\ UNCHANGED <<topic, acked, stored, excused>>

(* An attempt ends.  Other attempts at the same event may go on. *)
Settle(id) ==
  /\ Published(id)
  /\ stored' \in {stored, stored \union {id}}
  /\ excused' \in {excused, excused \union {id}}
  /\ id \in stored' \union excused'
  /\ pending' \in {pending, pending \ {id}}
  /\ UNCHANGED <<topic, acked>>

(* What the group may acknowledge, an earlier point than before included. *)
Covers(p, n) ==
  /\ n \in 0 .. Len(topic[p])
  /\ \A i \in 1 .. n : Accounted(topic[p][i])

(* One commit request acknowledges several partitions at once. *)
Acknowledge ==
  /\ acked' \in [Partitions -> Nat]
  /\ \A p \in Partitions : Covers(p, acked'[p])
  /\ UNCHANGED <<topic, pending, stored, excused>>

Next ==
  \/ \E p \in Partitions, id \in EventIds : Publish(p, id)
  \/ \E id \in EventIds : Claim(id) \/ Settle(id)
  \/ Acknowledge

Spec == Init /\ [][Next]_vars

-----------------------------------------------------------------------------
(* What is acknowledged is claimed, stored or excused, and stays so when    *)
(* attempts at the same event end in any order (Consume, Process).          *)
AckedIsAccounted == \A p \in Partitions : Covers(p, acked[p])

(* Nothing that was taken up is forgotten: an attempt that ends leaves a    *)
(* row or an excuse behind, a row or an excuse is never taken back          *)
(* (Process, InsertEvent).                                                  *)
NothingForgotten ==
  [][\A id \in EventIds : Accounted(id) => Accounted(id)']_vars
=============================================================================
