----------------------------- MODULE MCApiServer -----------------------------
(***************************************************************************)
(* Instances of ApiServer for TLC.                                         *)
(***************************************************************************)
EXTENDS ApiServer, TLC

CONSTANTS s1, s2

Single(event) == [kind |-> "single", events |-> <<event>>]
Batch(events) == [kind |-> "batch", events |-> events]
Garbage == [kind |-> "garbage", events |-> << >>]

(* Two batches whose broadcasts interleave, one with a refused event.       *)
TwoBatches == << Batch(<<"ok", "bad", "ok">>), Batch(<<"ok", "ok">>) >>

(* One request for every way to be answered, with a limit of two events.    *)
EveryAnswer == << Batch(<<"ok", "bad">>), Single("ok"), Single("bad"),
                  Garbage, Batch(<<"ok", "ok", "ok">>), Batch(<< >>) >>

(* A batch and a single event. *)
BatchAndSingle == << Batch(<<"ok", "ok">>), Single("ok") >>

StreamSymmetry == Permutations(Streams)
=============================================================================
