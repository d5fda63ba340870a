---------------------------- MODULE MetricsQueries ----------------------------
(***************************************************************************)
(* The answers of the read endpoints of llmwatch: what the handlers of     *)
(* internal/api/handlers.go compute from the counters in Redis             *)
(* (internal/redis/client.go) and from the table llm_calls                 *)
(* (internal/db/postgres.go).  The handlers keep no state and change none: *)
(* an answer is an operator on the state of RealtimeMetrics.               *)
(*                                                                         *)
(* Averages and rates are left as their numerators: every query divides by *)
(* the total it returns beside them.  A percentile is given in hundredths. *)
(***************************************************************************)
EXTENDS RealtimeMetrics, Pricing, SequencesExt

CONSTANTS
  DefaultMinutes,  (* minutes shown when none are asked for, 60            *)
  MaxMinutes,      (* the most that may be asked for, 1440                 *)
  DefaultHours,    (* 24                                                   *)
  MaxHours,        (* the most the summary covers, 168                     *)
  Half,            (* ticks that no longer fit a time.Duration, 2^63       *)
  Asked            (* values the query parameters take, as numbers         *)

ASSUME AskedAssumption == Asked \subseteq Int
ASSUME HoursAssumption ==
  /\ Half \in Nat \ {0}
  /\ DefaultMinutes \in Nat /\ MaxMinutes \in Nat
  /\ DefaultHours \in Nat \ {0} /\ MaxHours \in Nat

(* 24 and 168 hours are far from what a time.Duration holds.                *)
ASSUME SpansAssumption == DefaultHours * Hour < Half /\ MaxHours * Hour < Half

(* A list is kept for an hour more than the error rates look back, which is *)
(* enough for stamps ahead of the clock.                                    *)
ASSUME LatencyAssumption == DefaultHours * Hour + Ahead < LatencyHours * Hour

-----------------------------------------------------------------------------
(* Parameters.  What is not a number counts as zero: both give the default. *)

MinutesAsked(v) == IF v \in 1 .. MaxMinutes THEN v ELSE DefaultMinutes

(* time.Duration(hours) * time.Hour wraps around.                           *)
Duration(hours) == ((hours * Hour + Half) % (2 * Half)) - Half

(* Wrong variant: the summary takes any number of hours.                    *)
SummarySpanUncapped(v) == Duration(IF v > 0 THEN v ELSE DefaultHours)

SummarySpan(v) == Duration(IF v \in 1 .. MaxHours THEN v ELSE DefaultHours)

(* Error rates and the comparison have no upper limit.                      *)
ModelSpan(v) == Duration(IF v > 0 THEN v ELSE DefaultHours)

-----------------------------------------------------------------------------
(* PostgreSQL: WHERE created_at >= NOW() - span, grouped and aggregated.    *)

RowsSince(span) == {c \in rows : Call[c].ts >= clock - span}

Total(set) == Cardinality(set)

SumOf(field, set) == MapThenSumSet(LAMBDA c : Call[c][field], set)

Errors(set) == Total({c \in set : Call[c].status = "error"})

GetSummary(span) ==
  LET set == RowsSince(span) IN
  [total |-> Total(set), cost |-> SumOf("cost", set),
   latency |-> SumOf("latency", set), errors |-> Errors(set)]

GetErrorRates(span) ==
  LET set == RowsSince(span)
      Group(p, m) == {c \in set : Call[c].provider = p /\ Call[c].model = m}
  IN {[provider |-> g[1], model |-> g[2], total |-> Total(Group(g[1], g[2])),
       errors |-> Errors(Group(g[1], g[2]))] :
        g \in {<<Call[c].provider, Call[c].model>> : c \in set}}

(* PERCENTILE_CONT: the r-th smallest latency of a set of rows, and the     *)
(* point a fraction of the way between two neighbours.                      *)
Ranked(set, r) ==
  CHOOSE v \in {Call[c].latency : c \in set} :
    /\ Total({c \in set : Call[c].latency < v}) < r
    /\ Total({c \in set : Call[c].latency <= v}) >= r

PercentileCont(set, p) ==
  LET row == 100 + p * (Total(set) - 1)
      floor == row \div 100
      ceil == (row + 99) \div 100
  IN IF floor = ceil
     THEN 100 * Ranked(set, floor)
     ELSE (100 * ceil - row) * Ranked(set, floor)
            + (row - 100 * floor) * Ranked(set, ceil)

GetProviderComparison(span) ==
  LET set == RowsSince(span)
      Group(p) == {c \in set : Call[c].provider = p}
  IN {[provider |-> p, total |-> Total(Group(p)),
       latency |-> SumOf("latency", Group(p)),
       cost |-> SumOf("cost", Group(p)), errors |-> Errors(Group(p)),
       p95 |-> PercentileCont(Group(p), 95)] :
        p \in {Call[c].provider : c \in set}}

-----------------------------------------------------------------------------
(* Redis: percentiles and cost.                                             *)

(* Wrong variant: the rank is a share of n and not of n - 1.                *)
PercentileOfCount(sorted, p) ==
  LET n == Len(sorted)
      rank == p * n
      lower == rank \div 100
      upper == (rank + 99) \div 100
      At(i) == sorted[IF i + 1 > n THEN n ELSE i + 1]
  IN 100 * At(lower) + (rank - 100 * lower) * (At(upper) - At(lower))

Percentile(sorted, p) ==
  LET n == Len(sorted)
      rank == p * (n - 1)
      lower == rank \div 100
      upper == (rank + 99) \div 100
  IN CASE n = 0 -> 0
       [] n = 1 -> 100 * sorted[1]
       [] n > 1 /\ lower = upper -> 100 * sorted[lower + 1]
       [] OTHER -> 100 * sorted[lower + 1]
                     + (rank - 100 * lower)
                         * (sorted[upper + 1] - sorted[lower + 1])

(* parseLatencyKey: provider and model are split at the first colon.        *)
ParseLatencyKey(k) ==
  LET i == CHOOSE j \in DOMAIN k :
             k[j] = ":" /\ \A h \in 1 .. j - 1 : k[h] # ":"
  IN [provider |-> SubSeq(k, 1, i - 1), model |-> SubSeq(k, i + 1, Len(k))]

(* sort.Float64s: the same values in ascending order.                       *)
Ascending(list) ==
  CHOOSE s \in {[i \in DOMAIN list |-> list[order[i]]] :
                  order \in Bijection(DOMAIN list, DOMAIN list)} :
    \A i, j \in DOMAIN list : i <= j => s[i] <= s[j]

Latencies(k) ==
  Ascending([i \in DOMAIN samples[k] |-> Call[samples[k][i]].latency])

(* SCAN finds the keys that exist; a list without elements does not.        *)
LatencyKeys == {k \in Keys : samples[k] # << >>}

GetLatencyPercentiles ==
  {[provider |-> ParseLatencyKey(k).provider, model |-> ParseLatencyKey(k).model,
    p50 |-> Percentile(Latencies(k), 50), p95 |-> Percentile(Latencies(k), 95),
    p99 |-> Percentile(Latencies(k), 99)] : k \in LatencyKeys}

(* A field of 0 says nothing that a missing one does not: left out.         *)
GetCostByProvider ==
  {[provider |-> p, total |-> costs[p]] :
     p \in {q \in Providers : costs[q] # 0}}

-----------------------------------------------------------------------------
(* Somebody still works on the counters of one of these calls.              *)
Busy(set) == \E w \in Workers : pc[w] # "idle" /\ task[w] \in set

CallsIn(m) == {c \in Calls : Bucket(Call[c].ts) = m}
CallsOf(p) == {c \in Calls : Call[c].provider = p}

(* The two stores agree: when nothing was lost, resent or evicted and no    *)
(* update is under way, a minute the window still names counts the calls of *)
(* the table, and a provider's cost is the sum over its rows, whoever wrote *)
(* them and in whichever order (Process, updateRealTimeCounters).           *)
StoresAgree ==
  /\ \A n \in {MinutesAsked(v) : v \in Asked} :
       LET answer == CallsPerMinute(clock, n) IN
       \A i \in 1 .. n :
         LET m == answer[i].minute IN
         (/\ m \in Minutes \ evicted.minutes
          /\ m * Minute - Ahead + Life > clock
          /\ ~Busy(CallsIn(m))
          /\ CallsIn(m) \intersect disturbed = {})
           => answer[i].count = Total(rows \intersect CallsIn(m))
  /\ \A p \in Providers :
       (~evicted.costs /\ ~Busy(CallsOf(p))
          /\ CallsOf(p) \intersect disturbed = {})
         => costs[p] = SumOf("cost", rows \intersect CallsOf(p))

(* Percentiles lie in order between the smallest and the largest sample;    *)
(* and where a list holds exactly the calls the provider comparison is      *)
(* about, its p95 is the one PostgreSQL computes (percentile).              *)
PercentilesRight ==
  \A k \in LatencyKeys :
    LET sorted == Latencies(k)
        P(p) == Percentile(sorted, p)
    IN
    /\ 100 * sorted[1] <= P(50)
    /\ P(50) <= P(95) /\ P(95) <= P(99)
    /\ P(99) <= 100 * sorted[Len(sorted)]
    /\ \A g \in GetProviderComparison(SummarySpan(0)) :
         LET group == {c \in RowsSince(SummarySpan(0)) :
                         Call[c].provider = g.provider}
         IN (ToSet(samples[k]) = group /\ Len(samples[k]) = g.total)
              => P(95) = g.p95

(* A model the error rates list has latency percentiles beside them: a list *)
(* outlives every call of the last 24 hours whose pipeline was whole.       *)
EveryModelHasLatency ==
  LET whole == {c \in RowsSince(ModelSpan(0)) :
                  /\ ~Busy({c}) /\ c \notin disturbed
                  /\ KeyOf(c) \notin evicted.keys}
      shown == {<<a.provider, a.model>> : a \in GetLatencyPercentiles}
  IN \A g \in GetErrorRates(ModelSpan(0)) :
       (\E c \in whole : Call[c].provider = g.provider /\ Call[c].model = g.model)
         => <<(<<g.provider>>), SanitizeModel(g.model)>> \in shown

(* A latency series is named for the calls in it: never another provider's, *)
(* never another model's, names that differ in ":", " " and "_" apart.      *)
SeriesNamed ==
  \A k \in LatencyKeys :
    \A i \in DOMAIN samples[k] :
      LET c == samples[k][i] IN
      ParseLatencyKey(k) = [provider |-> <<Call[c].provider>>,
                            model |-> SanitizeModel(Call[c].model)]

(* A call of the last hour is in every answer, whatever number was asked    *)
(* for: no parameter makes the window empty or turns it into the future, up *)
(* to the hours a time.Duration can hold (HandleGetSummary and the others). *)
RecentCallsCounted ==
  \A v \in Asked :
    LET recent == RowsSince(Hour) IN
    /\ recent \subseteq RowsSince(SummarySpan(v))
    /\ v * Hour < Half => recent \subseteq RowsSince(ModelSpan(v))

(* The price of a stored call is that of the most specific pattern its      *)
(* model's name contains (CalculateCost relies on the order of its cases).  *)
PricedBySpecificName ==
  \A c \in rows :
    LET list == Prices(Call[c].provider)
        own == PriceOf(Call[c].provider, Call[c].model)
    IN \A i \in DOMAIN list :
         NameContains(ToLower(Call[c].model), list[i].name) =>
           Len(list[i].name) <= Len(own.name)
=============================================================================
