--------------------------- MODULE MCMetricsQueries ---------------------------
(***************************************************************************)
(* An instance of MetricsQueries for TLC.                                  *)
(***************************************************************************)
EXTENDS MetricsQueries

CONSTANTS w1, w2, c1, c2

Event(ts, provider, model, latency, cost, status) ==
  [ts |-> ts, provider |-> provider, model |-> model, latency |-> latency,
   cost |-> cost, input |-> 2, output |-> 1, status |-> status]

(* Two models whose names meet in one latency key; one call without a cost, *)
(* one with a cost below zero, which nothing refuses.                       *)
SomeCalls ==
  [c \in Calls |->
     CASE c = c1 -> Normalized(Event(1, "openai",
                      <<"GPT-4", "o", ":", "latest">>, 30, 0, "success"))
       [] c = c2 -> Normalized(Event(1, "openai",
                      <<"GPT-4", "o", "_", "latest">>, 10, -3, "error"))]

(* Nonsense, the smallest, both limits, beyond them, beyond a Duration.     *)
AskedValues == {-1, 0, 1, 3, 4, 5, 7}

WorkerSymmetry == Permutations(Workers)
=============================================================================
