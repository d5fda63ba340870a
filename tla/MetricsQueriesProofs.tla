------------------------- MODULE MetricsQueriesProofs -------------------------
(***************************************************************************)
(* Theorems about MetricsQueries: what the read endpoints answer follows   *)
(* from the calls in the table, for any calls, workers, spans and faults.  *)
(***************************************************************************)
EXTENDS MetricsQueries, RealtimeMetricsProofs, SequenceTheorems

-----------------------------------------------------------------------------
(* The name of a latency series.                                            *)

(* What keys are made of.                                                   *)
Token == STRING \union {":", "_"} \union Providers

LEMMA CallNames ==
  ASSUME NEW c \in Calls
  PROVE  /\ Call[c].provider \in Token /\ Call[c].provider # ":"
         /\ Call[c].model \in Seq(STRING)
  <1>1. Call[c] \in CallType
    BY CallAssumption
  <1>2. Call[c].provider # ":" /\ Call[c].model \in Seq(STRING)
    BY <1>1 DEF CallType
  <1> QED
    BY <1>2 DEF Token, Providers

LEMMA SanitizedType ==
  ASSUME NEW c \in Calls
  PROVE  SanitizeModel(Call[c].model) \in Seq(Token)
  <1> DEFINE m == Call[c].model
             s == SanitizeModel(m)
  <1>1. m \in Seq(STRING)
    BY CallNames
  <1>2. DOMAIN m = 1 .. Len(m) /\ Len(m) \in Nat
    BY <1>1
  <1>3. \A i \in 1 .. Len(m) : m[i] \in STRING
    BY <1>1
  <1> HIDE DEF m
  <1>4. s = [i \in 1 .. Len(m) |-> s[i]] /\ \A i \in 1 .. Len(m) : s[i] \in Token
    BY <1>2, <1>3 DEF SanitizeModel, Token
  <1> HIDE DEF s
  <1>5. s \in Seq(Token)
    BY <1>2, <1>4, IsASeq
  <1> QED
    BY <1>5 DEF s, m

(* Where a key has its colons.                                              *)
LEMMA KeyParts ==
  ASSUME NEW p \in Token, NEW m \in Seq(Token), NEW k, k = <<p, ":">> \o m
  PROVE  /\ k \in Seq(Token) /\ Len(k) = Len(m) + 2
         /\ k[1] = p /\ k[2] = ":"
         /\ SubSeq(k, 1, 1) = <<p>> /\ SubSeq(k, 3, Len(k)) = m
  <1> DEFINE head == <<p, ":">>
  <1>0. ":" \in Token
    BY DEF Token
  <1>1. /\ head \in Seq(Token) /\ Len(head) = 2 /\ head[1] = p /\ head[2] = ":"
    BY <1>0
  <1> HIDE DEF head
  <1>2. k = head \o m
    BY DEF head
  <1>3. Len(m) \in Nat
    OBVIOUS
  <1>4. /\ k \in Seq(Token) /\ Len(k) = Len(m) + 2
        /\ k[1] = p /\ k[2] = ":"
        /\ \A i \in 1 .. Len(m) : k[i + 2] = m[i]
    BY <1>1, <1>2, <1>3, ConcatProperties
  <1>5. SubSeq(k, 1, 1) = <<p>>
    <2>1. /\ SubSeq(k, 1, 1) \in Seq(Token) /\ Len(SubSeq(k, 1, 1)) = 1
          /\ SubSeq(k, 1, 1)[1] = k[1]
      BY <1>3, <1>4, SubSeqProperties
    <2> DEFINE one == SubSeq(k, 1, 1)
    <2>2. /\ <<p>> \in Seq(Token) /\ Len(<<p>>) = 1 /\ <<p>>[1] = p
      OBVIOUS
    <2>3. one \in Seq(Token) /\ Len(one) = 1 /\ one[1] = p
      BY <1>4, <2>1
    <2> HIDE DEF one
    <2>4. \A i \in 1 .. Len(one) : one[i] = <<p>>[i]
      BY <2>2, <2>3
    <2>5. one = <<p>>
      BY <2>2, <2>3, <2>4, SeqEqual
    <2> QED
      BY <2>5 DEF one
  <1>6. SubSeq(k, 3, Len(k)) = m
    <2>1. /\ SubSeq(k, 3, Len(k)) \in Seq(Token)
          /\ Len(SubSeq(k, 3, Len(k))) = Len(m)
          /\ \A h \in 1 .. Len(m) : SubSeq(k, 3, Len(k))[h] = k[3 + h - 1]
      BY <1>3, <1>4, SubSeqProperties
    <2>2. \A h \in 1 .. Len(m) : k[3 + h - 1] = m[h]
      BY <1>3, <1>4
    <2> QED
      BY <2>1, <2>2, SeqEqual
  <1> QED
    BY <1>4, <1>5, <1>6

(* The colon after the provider is the first one of a key.                  *)
LEMMA ParsedParts ==
  ASSUME NEW p \in Token, NEW m \in Seq(Token), NEW k, k = <<p, ":">> \o m,
         p # ":"
  PROVE  ParseLatencyKey(k) = [provider |-> <<p>>, model |-> m]
  <1>1. Len(m) \in Nat
    OBVIOUS
  <1>2. /\ k \in Seq(Token) /\ Len(k) = Len(m) + 2
        /\ k[1] = p /\ k[2] = ":"
        /\ SubSeq(k, 1, 1) = <<p>> /\ SubSeq(k, 3, Len(k)) = m
    <2>1. k \in Seq(Token)
      BY KeyParts
    <2>2. Len(k) = Len(m) + 2
      BY KeyParts
    <2>3. k[1] = p
      BY KeyParts
    <2>4. k[2] = ":"
      BY KeyParts
    <2>5. SubSeq(k, 1, 1) = <<p>>
      BY KeyParts
    <2>6. SubSeq(k, 3, Len(k)) = m
      BY KeyParts
    <2> QED
      BY <2>1, <2>2, <2>3, <2>4, <2>5, <2>6
  <1>3. DOMAIN k = 1 .. Len(k) /\ 2 \in DOMAIN k
    BY <1>1, <1>2
  <1>4. \A j \in DOMAIN k :
          (k[j] = ":" /\ \A h \in 1 .. j - 1 : k[h] # ":") <=> j = 2
    BY <1>1, <1>2, <1>3
  <1> DEFINE i == CHOOSE j \in DOMAIN k :
                    k[j] = ":" /\ \A h \in 1 .. j - 1 : k[h] # ":"
  <1>5. ParseLatencyKey(k) = [provider |-> SubSeq(k, 1, i - 1),
                              model |-> SubSeq(k, i + 1, Len(k))]
    BY DEF ParseLatencyKey
  <1>6. i = 2
    <2> DEFINE First(j) == k[j] = ":" /\ \A h \in 1 .. j - 1 : k[h] # ":"
    <2>1. First(2) /\ \A j \in DOMAIN k : First(j) => j = 2
      BY <1>3, <1>4
    <2>2. i = CHOOSE j \in DOMAIN k : First(j)
      OBVIOUS
    <2> HIDE DEF First, i
    <2> QED
      BY <1>3, <2>1, <2>2
  <1> HIDE DEF i
  <1>7. i - 1 = 1 /\ i + 1 = 3
    BY <1>6
  <1> QED
    BY <1>2, <1>5, <1>7

LEMMA KeyIsNamed ==
  ASSUME NEW c \in Calls
  PROVE  ParseLatencyKey(KeyOf(c)) = [provider |-> <<Call[c].provider>>,
                                      model |-> SanitizeModel(Call[c].model)]
  BY SanitizedType, CallNames, ParsedParts DEF KeyOf

(* Every sample of a list is of a call with the list's key.                 *)
NamedInv ==
  \A k \in Keys : \A i \in DOMAIN samples[k] : KeyOf(samples[k][i]) = k

LEMMA AppendNamed ==
  ASSUME NEW k, NEW list \in Seq(Calls), NEW c \in Calls, KeyOf(c) = k,
         \A i \in DOMAIN list : KeyOf(list[i]) = k
  PROVE  \A i \in DOMAIN Append(list, c) : KeyOf(Append(list, c)[i]) = k
  <1> SUFFICES ASSUME NEW i \in DOMAIN Append(list, c)
               PROVE  KeyOf(Append(list, c)[i]) = k
    OBVIOUS
  <1>1. i \in 1 .. Len(list) + 1 /\ Len(list) \in Nat
    BY AppendProperties
  <1>2. CASE i = Len(list) + 1
    BY <1>2
  <1>3. CASE i # Len(list) + 1
    BY <1>1, <1>3
  <1> QED
    BY <1>2, <1>3

LEMMA TrimNamed ==
  ASSUME NEW k, NEW list \in Seq(Calls),
         \A i \in DOMAIN list : KeyOf(list[i]) = k
  PROVE  \A i \in DOMAIN KeepLast(list) : KeyOf(KeepLast(list)[i]) = k
  <1>1. CASE Len(list) <= MaxSamples
    BY <1>1 DEF KeepLast
  <1>2. CASE ~(Len(list) <= MaxSamples)
    <2> DEFINE first == Len(list) - MaxSamples + 1
    <2>1. /\ Len(list) \in Nat /\ first \in 1 .. Len(list)
          /\ KeepLast(list) = SubSeq(list, first, Len(list))
      BY <1>2, BoundsAssumption DEF KeepLast
    <2> HIDE DEF first
    <2>2. \A i \in DOMAIN KeepLast(list) :
            KeepLast(list)[i] = list[first + i - 1] /\ first + i - 1 \in DOMAIN list
      BY <2>1
    <2> QED
      BY <2>2
  <1> QED
    BY <1>1, <1>2

(* The steps that leave a list alone or end it.                             *)
LEMMA SamplesKept ==
  ASSUME TypeInv, [Next]_vars, ~(\E w \in Workers : Push(w) \/ Trim(w)),
         NEW k \in Keys
  PROVE  samples'[k] = samples[k] \/ samples'[k] = << >>
  <1>1. ASSUME NEW w \in Workers,
               \/ \E c \in Calls : Store(w, c)
               \/ Incr(w) \/ ExpireCalls(w) \/ ExpireList(w)
               \/ IncrCost(w) \/ Abandon(w) \/ Resend(w)
        PROVE  samples' = samples
    BY <1>1 DEF Store, Incr, ExpireCalls, ExpireList, IncrCost, Abandon, Resend,
                listVars
  <1>2. CASE Tick
    BY <1>2 DEF Tick
  <1>3. CASE EvictCosts \/ UNCHANGED vars \/ \E m \in Minutes : EvictBucket(m)
    BY <1>3 DEF EvictCosts, EvictBucket, vars, listVars
  <1>4. ASSUME NEW n \in Keys, EvictList(n)
        PROVE  samples'[k] = samples[k] \/ samples'[k] = << >>
    BY <1>4 DEF EvictList, TypeInv, TypeOK
  <1> QED
    BY <1>1, <1>2, <1>3, <1>4 DEF Next

(* Only a push puts something into a list, and it knows its key.            *)
LEMMA NamedNext == TypeInv /\ NamedInv /\ [Next]_vars => NamedInv'
  <1> SUFFICES ASSUME TypeInv, NamedInv, [Next]_vars,
                      NEW k \in Keys
               PROVE  \A i \in DOMAIN samples'[k] : KeyOf(samples'[k][i]) = k
    BY DEF NamedInv
  <1>1. /\ samples[k] \in Seq(Calls)
        /\ \A i \in DOMAIN samples[k] : KeyOf(samples[k][i]) = k
    BY DEF TypeInv, TypeOK, NamedInv
  <1>2. ASSUME NEW w \in Workers, Push(w)
        PROVE  \A i \in DOMAIN samples'[k] : KeyOf(samples'[k][i]) = k
    <2>1. task[w] \in Calls
      BY DEF TypeInv, TypeOK
    <2>2. CASE k = TaskKey(w)
      <3>1. samples'[k] = Append(samples[k], task[w])
        BY <1>2, <2>2 DEF Push, TypeInv, TypeOK
      <3>2. KeyOf(task[w]) = k
        BY <2>2 DEF TaskKey
      <3> QED
        BY <1>1, <2>1, <3>1, <3>2, AppendNamed
    <2>3. CASE k # TaskKey(w)
      <3>1. samples'[k] = samples[k]
        BY <1>2, <2>3 DEF Push, TypeInv, TypeOK
      <3> QED
        BY <1>1, <3>1
    <2> QED
      BY <2>2, <2>3
  <1>3. ASSUME NEW w \in Workers, Trim(w)
        PROVE  \A i \in DOMAIN samples'[k] : KeyOf(samples'[k][i]) = k
    <2>1. CASE samples'[k] = samples[k]
      BY <1>1, <2>1
    <2>2. CASE samples'[k] = KeepLast(samples[k])
      <3>1. \A i \in DOMAIN KeepLast(samples[k]) :
              KeyOf(KeepLast(samples[k])[i]) = k
        BY <1>1, TrimNamed
      <3> QED
        BY <2>2, <3>1
    <2> QED
      BY <1>3, <2>1, <2>2 DEF Trim, TypeInv, TypeOK
  <1>4. CASE samples'[k] = samples[k] \/ samples'[k] = << >>
    BY <1>1, <1>4
  <1>5. CASE ~(\E w \in Workers : Push(w) \/ Trim(w))
    BY <1>4, <1>5, SamplesKept
  <1> QED
    BY <1>2, <1>3, <1>5

LEMMA SeriesNamedHolds == TypeInv /\ NamedInv => SeriesNamed
  <1> SUFFICES ASSUME TypeInv, NamedInv, NEW k \in Keys,
                      NEW i \in DOMAIN samples[k]
               PROVE  LET c == samples[k][i] IN
                      ParseLatencyKey(k) = [provider |-> <<Call[c].provider>>,
                                            model |-> SanitizeModel(Call[c].model)]
    BY DEF SeriesNamed, LatencyKeys
  <1>1. samples[k][i] \in Calls
    BY DEF TypeInv, TypeOK
  <1>2. KeyOf(samples[k][i]) = k
    BY DEF NamedInv
  <1> QED
    BY <1>1, <1>2, KeyIsNamed

(* Whatever names calls carry and however their pipelines interleave, the   *)
(* percentiles shown for a model are made of that model's calls alone.      *)
THEOREM SeriesKeepTheirNames == Spec => []SeriesNamed
  <1>1. Init => TypeInv /\ NamedInv
    BY TypeInit DEF TypeInv, Init, NamedInv
  <1> QED
    BY <1>1, TypeNext, NamedNext, SeriesNamedHolds, PTL DEF Spec

-----------------------------------------------------------------------------
(* The time a question looks back.                                          *)

(* Up to what a time.Duration holds, hours are hours.                       *)
LEMMA DurationExact ==
  ASSUME NEW h \in Nat, h * Hour < Half
  PROVE  Duration(h) = h * Hour /\ h * Hour \in Nat
  <1>1. h * Hour \in Nat
    BY TimesAssumption, SMT
  <1> DEFINE x == h * Hour
  <1>2. x \in Nat /\ Half \in Nat \ {0} /\ x < Half
    BY <1>1, HoursAssumption
  <1> HIDE DEF x
  <1>3. (x + Half) % (2 * Half) = x + Half
    BY <1>2, SMT
  <1>4. ((x + Half) % (2 * Half)) - Half = x
    BY <1>2, <1>3
  <1> QED
    BY <1>1, <1>4 DEF Duration, x

LEMMA HourOrMore ==
  ASSUME NEW h \in Nat \ {0}
  PROVE  h * Hour \in Nat /\ Hour <= h * Hour
  BY TimesAssumption, SMT

(* Any span of an hour or more shows what an hour shows.                    *)
LEMMA LongerShowsMore ==
  ASSUME TypeInv, NEW span \in Int, Hour <= span
  PROVE  RowsSince(Hour) \subseteq RowsSince(span)
  <1> SUFFICES ASSUME NEW c \in rows, Call[c].ts >= clock - Hour
               PROVE  Call[c].ts >= clock - span
    BY DEF RowsSince
  <1>1. Call[c].ts \in Nat /\ clock \in Nat /\ Hour \in Nat
    BY CallFields, TimesAssumption DEF TypeInv, TypeOK
  <1> QED
    BY <1>1

LEMMA SummarySpanLong ==
  ASSUME NEW v \in Int
  PROVE  SummarySpan(v) \in Int /\ Hour <= SummarySpan(v)
  <1> DEFINE h == IF v \in 1 .. MaxHours THEN v ELSE DefaultHours
  <1>1. h \in Nat \ {0} /\ (h = DefaultHours \/ h <= MaxHours)
    BY HoursAssumption
  <1>2. Hour \in Nat /\ MaxHours \in Nat /\ DefaultHours \in Nat
    BY TimesAssumption, HoursAssumption
  <1> HIDE DEF h
  <1>3. h * Hour < Half
    <2>1. CASE h = DefaultHours
      BY <2>1, SpansAssumption
    <2>2. CASE h <= MaxHours
      <3>1. h * Hour <= MaxHours * Hour
        BY <1>1, <1>2, <2>2, SMT
      <3>2. h * Hour \in Nat /\ MaxHours * Hour \in Nat
        BY <1>1, <1>2, SMT
      <3> QED
        BY <3>1, <3>2, SpansAssumption, HoursAssumption
    <2> QED
      BY <1>1, <2>1, <2>2
  <1>4. Duration(h) \in Int /\ Hour <= Duration(h)
    BY <1>1, <1>3, DurationExact, HourOrMore
  <1> QED
    BY <1>4 DEF SummarySpan, h

LEMMA ModelSpanLong ==
  ASSUME NEW v \in Int, v * Hour < Half
  PROVE  ModelSpan(v) \in Int /\ Hour <= ModelSpan(v)
  <1> DEFINE h == IF v > 0 THEN v ELSE DefaultHours
  <1>1. h \in Nat \ {0} /\ h * Hour < Half
    BY HoursAssumption, SpansAssumption
  <1> HIDE DEF h
  <1>2. Duration(h) \in Int /\ Hour <= Duration(h)
    BY <1>1, DurationExact, HourOrMore
  <1> QED
    BY <1>2 DEF ModelSpan, h

LEMMA RecentHolds == TypeInv => RecentCallsCounted
  <1> SUFFICES ASSUME TypeInv, NEW v \in Asked
               PROVE  /\ RowsSince(Hour) \subseteq RowsSince(SummarySpan(v))
                      /\ v * Hour < Half =>
                           RowsSince(Hour) \subseteq RowsSince(ModelSpan(v))
    BY DEF RecentCallsCounted
  <1>1. v \in Int
    BY AskedAssumption
  <1>2. RowsSince(Hour) \subseteq RowsSince(SummarySpan(v))
    BY <1>1, SummarySpanLong, LongerShowsMore
  <1>3. ASSUME v * Hour < Half
        PROVE  RowsSince(Hour) \subseteq RowsSince(ModelSpan(v))
    BY <1>1, <1>3, ModelSpanLong, LongerShowsMore
  <1> QED
    BY <1>2, <1>3

(* Whatever number a client sends for the hours, however large, what the    *)
(* summary, the error rates and the comparison show has the last hour.      *)
THEOREM RecentCallsShown == Spec => []RecentCallsCounted
  <1>1. Init => TypeInv
    BY TypeInit DEF TypeInv
  <1> QED
    BY <1>1, TypeNext, RecentHolds, PTL DEF Spec

-----------------------------------------------------------------------------
(* Prices.                                                                  *)

(* The number of tokens of a pattern.                                       *)
Size(list, i) == Len(list[i].name)

(* Later patterns are no longer than earlier ones.                          *)
Shrinking(list, n) ==
  /\ DOMAIN list = 1 .. n
  /\ \A i \in 1 .. n : Size(list, i) \in Nat
  /\ \A i, j \in 1 .. n : i <= j => Size(list, j) <= Size(list, i)

LEMMA PatternsShrink ==
  ASSUME NEW p \in {"openai", "anthropic", "gemini"}
  PROVE  \E n \in {5, 6} : Shrinking(Prices(p), n)
  <1>1. CASE p = "openai"
    <2> DEFINE list == Prices(p)
    <2>1. list = << Price(<<"gpt-4", "o", "-mini">>, 150, 600),
            Price(<<"gpt-4", "o">>, 5000, 15000),
            Price(<<"gpt-4", "-turbo">>, 10000, 30000),
            Price(<<"gpt-4">>, 30000, 60000),
            Price(<<"gpt-3.5">>, 500, 1500),
            Price(<< >>, 5000, 15000) >>
      BY <1>1 DEF Prices
    <2> HIDE DEF list
    <2>2. DOMAIN list = 1 .. 6
      BY <2>1 DEF Price
    <2>3. /\ Size(list, 1) = 3 /\ Size(list, 2) = 2
          /\ Size(list, 3) = 2 /\ Size(list, 4) = 1
          /\ Size(list, 5) = 1 /\ Size(list, 6) = 0
      BY <2>1 DEF Price, Size
    <2>4. ASSUME NEW i \in 1 .. 6
          PROVE  Size(list, i) = IF i = 1 THEN 3 ELSE IF i <= 3 THEN 2 ELSE IF i <= 5 THEN 1 ELSE 0
      BY <2>3
    <2>5. Shrinking(list, 6)
      BY <2>2, <2>4 DEF Shrinking
    <2> QED
      BY <2>5 DEF list
  <1>2. CASE p = "anthropic"
    <2> DEFINE list == Prices(p)
    <2>1. list = << Price(<<"claude-3", "-5", "-haiku">>, 800, 4000),
            Price(<<"claude-3", "-5", "-sonnet">>, 3000, 15000),
            Price(<<"claude-3", "-opus">>, 15000, 75000),
            Price(<<"claude-3", "-sonnet">>, 3000, 15000),
            Price(<<"claude-3", "-haiku">>, 250, 1250),
            Price(<< >>, 3000, 15000) >>
      BY <1>2 DEF Prices
    <2> HIDE DEF list
    <2>2. DOMAIN list = 1 .. 6
      BY <2>1 DEF Price
    <2>3. /\ Size(list, 1) = 3 /\ Size(list, 2) = 3
          /\ Size(list, 3) = 2 /\ Size(list, 4) = 2
          /\ Size(list, 5) = 2 /\ Size(list, 6) = 0
      BY <2>1 DEF Price, Size
    <2>4. ASSUME NEW i \in 1 .. 6
          PROVE  Size(list, i) = IF i <= 2 THEN 3 ELSE IF i <= 5 THEN 2 ELSE 0
      BY <2>3
    <2>5. Shrinking(list, 6)
      BY <2>2, <2>4 DEF Shrinking
    <2> QED
      BY <2>5 DEF list
  <1>3. CASE p = "gemini"
    <2> DEFINE list == Prices(p)
    <2>1. list = << Price(<<"gemini-2.0", "-flash">>, 75, 300),
            Price(<<"gemini-1.5", "-flash">>, 75, 300),
            Price(<<"gemini-1.5", "-pro">>, 3500, 10500),
            Price(<<"gemini-2.0", "-pro">>, 3500, 10500),
            Price(<< >>, 75, 300) >>
      BY <1>3 DEF Prices
    <2> HIDE DEF list
    <2>2. DOMAIN list = 1 .. 5
      BY <2>1 DEF Price
    <2>3. /\ Size(list, 1) = 2 /\ Size(list, 2) = 2
          /\ Size(list, 3) = 2 /\ Size(list, 4) = 2
          /\ Size(list, 5) = 0
      BY <2>1 DEF Price, Size
    <2>4. ASSUME NEW i \in 1 .. 5
          PROVE  Size(list, i) = IF i <= 4 THEN 2 ELSE 0
      BY <2>3
    <2>5. Shrinking(list, 5)
      BY <2>2, <2>4 DEF Shrinking
    <2> QED
      BY <2>5 DEF list
  <1> QED
    BY <1>1, <1>2, <1>3

LEMMA SpecificPrice ==
  ASSUME NEW c \in Calls, NEW i \in DOMAIN Prices(Call[c].provider),
         NameContains(ToLower(Call[c].model), Prices(Call[c].provider)[i].name)
  PROVE  Len(Prices(Call[c].provider)[i].name)
           <= Len(PriceOf(Call[c].provider, Call[c].model).name)
  <1> DEFINE list == Prices(Call[c].provider)
             fits == {j \in DOMAIN list :
                        NameContains(ToLower(Call[c].model), list[j].name)}
             first == CHOOSE j \in fits : \A h \in fits : j <= h
  <1>1. Call[c].provider \in {"openai", "anthropic", "gemini"}
    BY CallAssumption DEF CallType
  <1>2. PICK n \in {5, 6} : Shrinking(list, n)
    BY <1>1, PatternsShrink
  <1>3. PriceOf(Call[c].provider, Call[c].model) = list[first]
    BY DEF PriceOf
  <1>4. i \in fits /\ fits \subseteq 1 .. n
    BY <1>2 DEF Shrinking
  <1> HIDE DEF fits, list
  <1>5. first \in fits /\ first <= i
    <2>1. \E j \in fits : \A h \in fits : j <= h
      BY <1>4
    <2> QED
      BY <1>4, <2>1
  <1> HIDE DEF first
  <1>6. Len(list[i].name) <= Len(list[first].name)
    BY <1>2, <1>4, <1>5 DEF Shrinking, Size
  <1> QED
    BY <1>3, <1>6 DEF list

(* For any name a client may give its model, the first case that fits is    *)
(* the most specific one that does.                                         *)
THEOREM SpecificPricesWin == Spec => []PricedBySpecificName
  <1>1. TypeInv => PricedBySpecificName
    <2> SUFFICES ASSUME TypeInv, NEW c \in rows,
                        NEW i \in DOMAIN Prices(Call[c].provider),
                        NameContains(ToLower(Call[c].model),
                                     Prices(Call[c].provider)[i].name)
                 PROVE  Len(Prices(Call[c].provider)[i].name)
                          <= Len(PriceOf(Call[c].provider, Call[c].model).name)
      BY DEF PricedBySpecificName
    <2>1. c \in Calls
      BY DEF TypeInv, TypeOK
    <2> QED
      BY <2>1, SpecificPrice
  <1>2. Init => TypeInv
    BY TypeInit DEF TypeInv
  <1> QED
    BY <1>1, <1>2, TypeNext, PTL DEF Spec

-----------------------------------------------------------------------------
(* Latency percentiles for every model with recent calls.                   *)

(* Past its latency life: its list may be gone.                             *)
Outlived(c) == Call[c].ts + LatencyLife <= clock + Ahead

(* There is a list with the key of the call, and it will be there until the *)
(* call is past its latency life.                                           *)
Lasting(c) ==
  /\ samples[KeyOf(c)] # << >>
  /\ \/ fades[KeyOf(c)] = 0
     \/ Call[c].ts + LatencyLife <= fades[KeyOf(c)] + Ahead

(* A worker has still to push the call's latency, or has pushed it and has  *)
(* still to set the deadline of its list.                                   *)
Unpushed(c) ==
  \E w \in Workers : task[w] = c /\ pc[w] \in {"incr", "expireCalls", "push"}

Pushed(c) ==
  /\ samples[KeyOf(c)] # << >>
  /\ \E w \in Workers : task[w] = c /\ pc[w] \in {"trim", "expireList"}

Sampled(c) == Unpushed(c) \/ Pushed(c) \/ Lasting(c) \/ Outlived(c)

LatencyInv ==
  /\ \A c \in rows : Call[c].ts <= clock + Ahead
  /\ \A c \in rows \ disturbed : KeyOf(c) \notin evicted.keys => Sampled(c)

LEMMA CallTimes ==
  ASSUME NEW c \in Calls
  PROVE  /\ Call[c].ts \in Nat /\ LatencyLife \in Nat /\ Ahead \in Nat
         /\ KeyOf(c) \in Keys
  BY CallFields, LifePositive, TimesAssumption

(* What a step that neither stores, pushes nor sets the deadline of a list  *)
(* does to a call it leaves in order.                                       *)
LEMMA SampledKept ==
  ASSUME TypeInv, NEW c \in Calls, Sampled(c),
         clock' = clock, task' = task,
         \/ samples'[KeyOf(c)] # << >> /\ fades'[KeyOf(c)] = fades[KeyOf(c)]
         \/ samples[KeyOf(c)] = << >>,
         \A w \in Workers : task[w] = c => pc'[w] = pc[w]
  PROVE  Sampled(c)'
  <1>1. CASE Unpushed(c)
    BY <1>1 DEF Sampled, Unpushed
  <1>2. CASE Pushed(c)
    BY <1>2 DEF Sampled, Pushed
  <1>3. CASE Lasting(c)
    BY <1>3 DEF Sampled, Lasting
  <1>4. CASE Outlived(c)
    BY <1>4 DEF Sampled, Outlived
  <1> QED
    BY <1>1, <1>2, <1>3, <1>4 DEF Sampled

(* The commands of an update take no time.                                  *)
LEMMA ClockStays ==
  ASSUME NEW w \in Workers, NEW from, NEW to, Step(w, from, to)
  PROVE  clock' = clock /\ rows' = rows
  BY DEF Step

LEMMA LatencyStore ==
  ASSUME TypeInv, LatencyInv, NEW w \in Workers, NEW d \in Calls, Store(w, d),
         NEW c \in rows' \ disturbed', KeyOf(c) \notin evicted'.keys
  PROVE  Sampled(c)'
  <1>1. /\ UNCHANGED <<clock, samples, fades, disturbed, evicted>>
        /\ rows' = rows \union {d}
        /\ pc[w] = "idle" /\ pc'[w] = "incr" /\ task'[w] = d
        /\ \A v \in Workers : v # w => pc'[v] = pc[v] /\ task'[v] = task[v]
    BY DEF Store, listVars, TypeInv, TypeOK
  <1>2. CASE c = d
    BY <1>1, <1>2 DEF Sampled, Unpushed
  <1>3. CASE c # d
    <2>1. Sampled(c)
      BY <1>1, <1>3 DEF LatencyInv
    <2>2. Unpushed(c) => Unpushed(c)'
      BY <1>1 DEF Unpushed
    <2>3. Pushed(c) => Pushed(c)'
      BY <1>1 DEF Pushed
    <2>4. Lasting(c) => Lasting(c)'
      BY <1>1 DEF Lasting
    <2>5. Outlived(c) => Outlived(c)'
      BY <1>1 DEF Outlived
    <2> QED
      BY <2>1, <2>2, <2>3, <2>4, <2>5 DEF Sampled
  <1> QED
    BY <1>2, <1>3

LEMMA LatencyBuckets ==
  ASSUME TypeInv, NEW w \in Workers, Incr(w) \/ ExpireCalls(w),
         NEW c \in Calls, Sampled(c)
  PROVE  Sampled(c)'
  <1>1. /\ UNCHANGED <<clock, samples, fades, task>>
        /\ pc[w] \in {"incr", "expireCalls"} /\ pc'[w] \in {"expireCalls", "push"}
        /\ \A v \in Workers : v # w => pc'[v] = pc[v]
    BY OthersStay, ClockStays DEF Incr, ExpireCalls, listVars
  <1>2. Unpushed(c) => Unpushed(c)'
    BY <1>1 DEF Unpushed
  <1>3. Pushed(c) => Pushed(c)'
    BY <1>1 DEF Pushed
  <1>4. Lasting(c) => Lasting(c)'
    BY <1>1 DEF Lasting
  <1>5. Outlived(c) => Outlived(c)'
    BY <1>1 DEF Outlived
  <1> QED
    BY <1>2, <1>3, <1>4, <1>5 DEF Sampled

(* The worker that was to push has pushed.                                  *)
LEMMA LatencyPush ==
  ASSUME TypeInv, NEW w \in Workers, Push(w), NEW c \in Calls, Sampled(c)
  PROVE  Sampled(c)'
  <1>1. /\ pc[w] = "push" /\ pc'[w] = "trim"
        /\ UNCHANGED <<clock, fades, task>>
        /\ \A v \in Workers : v # w => pc'[v] = pc[v]
    BY OthersStay, ClockStays DEF Push
  <1>2. \A k \in Keys : k # TaskKey(w) => samples'[k] = samples[k]
    BY DEF Push, TypeInv, TypeOK
  <1>3. samples'[TaskKey(w)] # << >>
    <2>1. /\ samples'[TaskKey(w)] = Append(samples[TaskKey(w)], task[w])
          /\ samples[TaskKey(w)] \in Seq(Calls) /\ task[w] \in Calls
      BY CallFields DEF Push, TypeInv, TypeOK, TaskKey
    <2> QED
      BY <2>1
  <1>4. KeyOf(c) \in Keys
    BY CallFields
  <1>5. samples[KeyOf(c)] # << >> => samples'[KeyOf(c)] # << >>
    BY <1>2, <1>3, <1>4
  <1>6. CASE Unpushed(c)
    <2>1. PICK v \in Workers :
            task[v] = c /\ pc[v] \in {"incr", "expireCalls", "push"}
      BY <1>6 DEF Unpushed
    <2>2. CASE v = w
      BY <1>1, <1>3, <2>1, <2>2 DEF Sampled, Pushed, TaskKey
    <2>3. CASE v # w
      BY <1>1, <2>1, <2>3 DEF Sampled, Unpushed
    <2> QED
      BY <2>2, <2>3
  <1>7. CASE Pushed(c)
    BY <1>1, <1>5, <1>7 DEF Sampled, Pushed
  <1>8. CASE Lasting(c)
    BY <1>1, <1>5, <1>8 DEF Sampled, Lasting
  <1>9. CASE Outlived(c)
    BY <1>1, <1>9 DEF Sampled, Outlived
  <1> QED
    BY <1>6, <1>7, <1>8, <1>9 DEF Sampled

(* A trim leaves at least one sample.                                       *)
LEMMA TrimKeeps ==
  ASSUME NEW list \in Seq(Calls), list # << >>
  PROVE  KeepLast(list) # << >>
  <1>1. CASE Len(list) <= MaxSamples
    BY <1>1 DEF KeepLast
  <1>2. CASE ~(Len(list) <= MaxSamples)
    <2> DEFINE first == Len(list) - MaxSamples + 1
    <2>1. /\ Len(list) \in Nat /\ first \in 1 .. Len(list)
          /\ KeepLast(list) = SubSeq(list, first, Len(list))
      BY <1>2, BoundsAssumption DEF KeepLast
    <2> HIDE DEF first
    <2> DEFINE rest == SubSeq(list, first, Len(list))
    <2>2. Len(rest) # 0
      BY <2>1
    <2> HIDE DEF rest
    <2>3. rest # << >>
      BY <2>2
    <2> QED
      BY <2>1, <2>3 DEF rest
  <1> QED
    BY <1>1, <1>2

LEMMA LatencyTrim ==
  ASSUME TypeInv, NEW w \in Workers, Trim(w), NEW c \in Calls, Sampled(c)
  PROVE  Sampled(c)'
  <1>1. /\ pc[w] = "trim" /\ pc'[w] = "expireList"
        /\ UNCHANGED <<clock, fades, task>>
        /\ \A v \in Workers : v # w => pc'[v] = pc[v]
    BY OthersStay, ClockStays DEF Trim
  <1>2. KeyOf(c) \in Keys
    BY CallFields
  <1>3. samples[KeyOf(c)] # << >> => samples'[KeyOf(c)] # << >>
    <2>1. \/ samples'[KeyOf(c)] = samples[KeyOf(c)]
          \/ samples'[KeyOf(c)] = KeepLast(samples[KeyOf(c)])
      BY <1>2 DEF Trim, TypeInv, TypeOK
    <2>2. samples[KeyOf(c)] \in Seq(Calls)
      BY <1>2 DEF TypeInv, TypeOK
    <2> QED
      BY <2>1, <2>2, TrimKeeps
  <1>4. Unpushed(c) => Unpushed(c)'
    BY <1>1 DEF Unpushed
  <1>5. Pushed(c) => Pushed(c)'
    BY <1>1, <1>3 DEF Pushed
  <1>6. Lasting(c) => Lasting(c)'
    BY <1>1, <1>3 DEF Lasting
  <1>7. Outlived(c) => Outlived(c)'
    BY <1>1 DEF Outlived
  <1> QED
    BY <1>4, <1>5, <1>6, <1>7 DEF Sampled

(* A deadline set now is far enough for every call that is in the table.    *)
LEMMA LatencyExpireList ==
  ASSUME TypeInv, LatencyInv, NEW w \in Workers, ExpireList(w),
         NEW c \in rows, Sampled(c)
  PROVE  Sampled(c)'
  <1>1. /\ pc[w] = "expireList" /\ pc'[w] = "cost"
        /\ UNCHANGED <<clock, samples, task>>
        /\ \A v \in Workers : v # w => pc'[v] = pc[v]
    BY OthersStay, ClockStays DEF ExpireList
  <1>2. c \in Calls
    BY DEF TypeInv, TypeOK
  <1>3. /\ KeyOf(c) \in Keys /\ Call[c].ts \in Nat /\ LatencyLife \in Nat
        /\ Ahead \in Nat /\ clock \in Nat /\ Call[c].ts <= clock + Ahead
    BY <1>2, CallTimes DEF TypeInv, TypeOK, LatencyInv
  <1>4. \/ fades'[KeyOf(c)] = fades[KeyOf(c)]
        \/ fades'[KeyOf(c)] = clock + LatencyLife
    BY <1>3 DEF ExpireList, TypeInv, TypeOK
  <1>5. Call[c].ts + LatencyLife <= (clock + LatencyLife) + Ahead
    BY <1>3
  <1>6. CASE Unpushed(c)
    BY <1>1, <1>6 DEF Sampled, Unpushed
  <1>7. CASE Pushed(c)
    <2>1. PICK v \in Workers : task[v] = c /\ pc[v] \in {"trim", "expireList"}
      BY <1>7 DEF Pushed
    <2>2. CASE v = w
      <3>1. TaskKey(w) = KeyOf(c) /\ samples[TaskKey(w)] # << >>
        BY <1>7, <2>1, <2>2 DEF Pushed, TaskKey
      <3>2. fades'[KeyOf(c)] = clock + LatencyLife
        BY <1>3, <3>1 DEF ExpireList, TypeInv, TypeOK
      <3> QED
        BY <1>1, <1>5, <3>1, <3>2 DEF Sampled, Lasting
    <2>3. CASE v # w
      BY <1>1, <1>7, <2>1, <2>3 DEF Sampled, Pushed
    <2> QED
      BY <2>2, <2>3
  <1>8. CASE Lasting(c)
    BY <1>1, <1>4, <1>5, <1>8 DEF Sampled, Lasting
  <1>9. CASE Outlived(c)
    BY <1>1, <1>9 DEF Sampled, Outlived
  <1> QED
    BY <1>6, <1>7, <1>8, <1>9 DEF Sampled

(* A list that goes takes no sample with it of a call that is neither past  *)
(* its latency life nor disturbed.                                          *)
LEMMA LatencyTick ==
  ASSUME TypeInv, Tick, NEW c \in Calls, Sampled(c), c \notin disturbed'
  PROVE  Sampled(c)'
  <1>1. clock' = clock + 1 /\ UNCHANGED <<pc, task>>
    BY DEF Tick
  <1>2. /\ KeyOf(c) \in Keys /\ Call[c].ts \in Nat /\ LatencyLife \in Nat
        /\ Ahead \in Nat /\ clock \in Nat
    BY CallTimes DEF TypeInv, TypeOK
  <1>3. fades[KeyOf(c)] # clock + 1 =>
          samples'[KeyOf(c)] = samples[KeyOf(c)] /\ fades'[KeyOf(c)] = fades[KeyOf(c)]
    BY <1>2 DEF Tick
  <1>4. CASE Unpushed(c)
    BY <1>1, <1>4 DEF Sampled, Unpushed
  <1>5. CASE Pushed(c)
    <2>1. PICK v \in Workers : task[v] = c /\ pc[v] \in {"trim", "expireList"}
      BY <1>5 DEF Pushed
    <2>2. fades[KeyOf(c)] # clock + 1
      BY <1>2, <2>1 DEF Tick, TaskKey
    <2> QED
      BY <1>1, <1>3, <1>5, <2>1, <2>2 DEF Sampled, Pushed
  <1>6. CASE Lasting(c)
    <2>1. CASE fades[KeyOf(c)] = clock + 1
      <3>1. Call[c].ts + LatencyLife <= clock' + Ahead
        BY <1>1, <1>2, <1>6, <2>1 DEF Lasting
      <3> QED
        BY <3>1 DEF Sampled, Outlived
    <2>2. CASE fades[KeyOf(c)] # clock + 1
      BY <1>3, <1>6, <2>2 DEF Sampled, Lasting
    <2> QED
      BY <2>1, <2>2
  <1>7. CASE Outlived(c)
    BY <1>1, <1>2, <1>7 DEF Sampled, Outlived
  <1> QED
    BY <1>4, <1>5, <1>6, <1>7 DEF Sampled

LEMMA LatencyRest ==
  ASSUME TypeInv, NEW c \in Calls, Sampled(c), c \notin disturbed',
         KeyOf(c) \notin evicted'.keys,
         \/ \E w \in Workers : IncrCost(w) \/ Abandon(w) \/ Resend(w)
         \/ \E m \in Minutes : EvictBucket(m)
         \/ \E k \in Keys : EvictList(k)
         \/ EvictCosts \/ UNCHANGED vars
  PROVE  Sampled(c)'
  <1>0. KeyOf(c) \in Keys
    BY CallFields
  <1>1. ASSUME NEW w \in Workers, IncrCost(w)
        PROVE  Sampled(c)'
    <2>1. /\ pc[w] = "cost" /\ UNCHANGED <<clock, samples, fades, task>>
          /\ \A v \in Workers : v # w => pc'[v] = pc[v]
      BY <1>1, OthersStay, ClockStays DEF IncrCost, listVars
    <2>2. Unpushed(c) => Unpushed(c)'
      BY <2>1 DEF Unpushed
    <2>3. Pushed(c) => Pushed(c)'
      BY <2>1 DEF Pushed
    <2>4. Lasting(c) => Lasting(c)'
      BY <2>1 DEF Lasting
    <2>5. Outlived(c) => Outlived(c)'
      BY <2>1 DEF Outlived
    <2> QED
      BY <2>2, <2>3, <2>4, <2>5 DEF Sampled
  <1>2. ASSUME NEW w \in Workers, Abandon(w) \/ Resend(w)
        PROVE  Sampled(c)'
    <2>1. /\ UNCHANGED <<clock, samples, fades, task>> /\ task[w] # c
          /\ \A v \in Workers : v # w => pc'[v] = pc[v]
      BY <1>2 DEF Abandon, Resend, listVars, TypeInv, TypeOK
    <2>2. \A v \in Workers : task[v] = c => pc'[v] = pc[v]
      BY <2>1
    <2> QED
      BY <2>1, <2>2, SampledKept
  <1>3. ASSUME NEW k \in Keys, EvictList(k)
        PROVE  Sampled(c)'
    <2>1. k # KeyOf(c)
      BY <1>3 DEF EvictList, TypeInv, TypeOK
    <2>2. /\ samples'[KeyOf(c)] = samples[KeyOf(c)]
          /\ fades'[KeyOf(c)] = fades[KeyOf(c)]
      BY <1>0, <1>3, <2>1 DEF EvictList, TypeInv, TypeOK
    <2>3. UNCHANGED <<clock, pc, task>>
      BY <1>3 DEF EvictList
    <2> QED
      BY <2>2, <2>3, SampledKept
  <1>4. CASE EvictCosts \/ UNCHANGED vars \/ \E m \in Minutes : EvictBucket(m)
    <2>1. UNCHANGED <<clock, pc, task, samples, fades>>
      BY <1>4 DEF EvictCosts, EvictBucket, vars, listVars
    <2> QED
      BY <2>1, SampledKept
  <1> QED
    BY <1>1, <1>2, <1>3, <1>4

(* Without an insert no row comes, and the history only grows.              *)
LEMMA WithoutStore ==
  ASSUME TypeInv, [Next]_vars, ~(\E w \in Workers, d \in Calls : Store(w, d))
  PROVE  /\ rows' = rows
         /\ disturbed \subseteq disturbed'
         /\ evicted.keys \subseteq evicted'.keys
  <1> DEFINE Grown == /\ rows' = rows
                      /\ disturbed \subseteq disturbed'
                      /\ evicted.keys \subseteq evicted'.keys
  <1>1. ASSUME NEW w \in Workers,
               \/ Incr(w) \/ ExpireCalls(w) \/ Push(w) \/ Trim(w)
               \/ ExpireList(w) \/ IncrCost(w)
        PROVE  Grown
    BY <1>1, ClockStays
       DEF Incr, ExpireCalls, Push, Trim, ExpireList, IncrCost
  <1>2. ASSUME NEW w \in Workers, Abandon(w) \/ Resend(w)
        PROVE  Grown
    BY <1>2 DEF Abandon, Resend
  <1>3. CASE Tick
    BY <1>3 DEF Tick
  <1>4. ASSUME NEW m \in Minutes, EvictBucket(m)
        PROVE  Grown
    BY <1>4 DEF EvictBucket, TypeInv, TypeOK
  <1>5. ASSUME NEW k \in Keys, EvictList(k)
        PROVE  Grown
    BY <1>5 DEF EvictList, TypeInv, TypeOK
  <1>6. CASE EvictCosts
    BY <1>6 DEF EvictCosts, TypeInv, TypeOK
  <1>7. CASE UNCHANGED vars
    BY <1>7 DEF vars
  <1> QED
    BY <1>1, <1>2, <1>3, <1>4, <1>5, <1>6, <1>7 DEF Next

LEMMA LatencyNext == TypeInv /\ LatencyInv /\ [Next]_vars => LatencyInv'
  <1> SUFFICES ASSUME TypeInv, LatencyInv, [Next]_vars
               PROVE  LatencyInv'
    OBVIOUS
  <1>1. ASSUME NEW c \in rows' PROVE Call[c].ts <= clock' + Ahead
    <2>1. /\ clock \in Nat /\ clock' \in {clock, clock + 1} /\ Ahead \in Nat
          /\ \A d \in rows : d \in Calls
      BY TimesAssumption
         DEF TypeInv, TypeOK, Next, Store, Incr, ExpireCalls, Push, Trim,
             ExpireList, IncrCost, Step, Abandon, Resend, Tick, EvictBucket,
             EvictList, EvictCosts, vars
    <2>2. \/ c \in rows
          \/ c \in Calls /\ Call[c].ts <= clock + Ahead
      BY <1>1 DEF Next, Store, Incr, ExpireCalls, Push, Trim, ExpireList,
                  IncrCost, Step, Abandon, Resend, Tick, EvictBucket, EvictList,
                  EvictCosts, vars
    <2>3. c \in Calls /\ Call[c].ts <= clock + Ahead
      BY <2>1, <2>2 DEF LatencyInv
    <2>4. Call[c].ts \in Nat
      BY <2>3, CallTimes
    <2> QED
      BY <2>1, <2>3, <2>4
  <1>2. ASSUME NEW c \in rows' \ disturbed', KeyOf(c) \notin evicted'.keys
        PROVE  Sampled(c)'
    <2>1. CASE \E w \in Workers, d \in Calls : Store(w, d)
      BY <1>2, <2>1, LatencyStore
    <2>2. CASE ~(\E w \in Workers, d \in Calls : Store(w, d))
      <3>1. c \in rows \ disturbed /\ KeyOf(c) \notin evicted.keys
        BY <1>2, <2>2, WithoutStore
      <3>2. Sampled(c) /\ c \in Calls
        BY <3>1 DEF LatencyInv, TypeInv, TypeOK
      <3>3. ASSUME NEW w \in Workers,
                   Incr(w) \/ ExpireCalls(w) \/ Push(w) \/ Trim(w)
            PROVE  Sampled(c)'
        BY <3>2, <3>3, LatencyBuckets, LatencyPush, LatencyTrim
      <3>4. ASSUME NEW w \in Workers, ExpireList(w)
            PROVE  Sampled(c)'
        BY <3>1, <3>2, <3>4, LatencyExpireList
      <3>5. CASE Tick
        BY <1>2, <3>2, <3>5, LatencyTick
      <3> QED
        BY <1>2, <2>2, <3>2, <3>3, <3>4, <3>5, LatencyRest DEF Next
    <2> QED
      BY <2>1, <2>2
  <1> QED
    BY <1>1, <1>2 DEF LatencyInv

(* The span of the error rates is shorter than a latency life.              *)
LEMMA SpanWithinLife ==
  /\ ModelSpan(0) \in Nat /\ LatencyLife \in Nat /\ Ahead \in Nat
  /\ ModelSpan(0) + Ahead < LatencyLife
  <1>1. DefaultHours \in Nat /\ DefaultHours * Hour < Half
    BY HoursAssumption, SpansAssumption
  <1>2. ModelSpan(0) = DefaultHours * Hour /\ DefaultHours * Hour \in Nat
    BY <1>1, DurationExact DEF ModelSpan
  <1> QED
    BY <1>2, LatencyAssumption, LifePositive, TimesAssumption DEF LatencyLife

(* A recent call whose update is over, and whole, has its list.             *)
LEMMA RecentSampled ==
  ASSUME TypeInv, LatencyInv, NEW c \in RowsSince(ModelSpan(0)),
         ~Busy({c}), c \notin disturbed, KeyOf(c) \notin evicted.keys
  PROVE  c \in Calls /\ KeyOf(c) \in LatencyKeys
  <1>1. c \in rows /\ Call[c].ts >= clock - ModelSpan(0)
    BY DEF RowsSince
  <1>2. c \in Calls /\ clock \in Nat
    BY <1>1 DEF TypeInv, TypeOK
  <1>3. Call[c].ts \in Nat /\ KeyOf(c) \in Keys
    BY <1>2, CallTimes
  <1>4. Sampled(c)
    BY <1>1 DEF LatencyInv
  <1>5. ~Unpushed(c) /\ ~Pushed(c)
    BY DEF Unpushed, Pushed, Busy
  <1>6. ~Outlived(c)
    BY <1>1, <1>2, <1>3, SpanWithinLife DEF Outlived
  <1>7. samples[KeyOf(c)] # << >>
    BY <1>4, <1>5, <1>6 DEF Sampled, Lasting
  <1> QED
    BY <1>2, <1>3, <1>7 DEF LatencyKeys

LEMMA EveryModelHolds == TypeInv /\ LatencyInv => EveryModelHasLatency
  <1> SUFFICES ASSUME TypeInv, LatencyInv,
                      NEW g \in GetErrorRates(ModelSpan(0)),
                      NEW c \in RowsSince(ModelSpan(0)),
                      ~Busy({c}), c \notin disturbed,
                      KeyOf(c) \notin evicted.keys,
                      Call[c].provider = g.provider, Call[c].model = g.model
               PROVE  <<(<<g.provider>>), SanitizeModel(g.model)>> \in
                        {<<a.provider, a.model>> : a \in GetLatencyPercentiles}
    BY DEF EveryModelHasLatency
  <1>1. c \in Calls /\ KeyOf(c) \in LatencyKeys
    BY RecentSampled
  <1> DEFINE k == KeyOf(c)
             a == [provider |-> ParseLatencyKey(k).provider,
                   model |-> ParseLatencyKey(k).model,
                   p50 |-> Percentile(Latencies(k), 50),
                   p95 |-> Percentile(Latencies(k), 95),
                   p99 |-> Percentile(Latencies(k), 99)]
  <1>2. a \in GetLatencyPercentiles
    BY <1>1 DEF GetLatencyPercentiles
  <1>3. ParseLatencyKey(k) = [provider |-> <<g.provider>>,
                              model |-> SanitizeModel(g.model)]
    BY <1>1, KeyIsNamed
  <1>4. a.provider = <<g.provider>> /\ a.model = SanitizeModel(g.model)
    BY <1>3
  <1> HIDE DEF a
  <1> QED
    BY <1>2, <1>4

(* However updates interleave, keys expire and clocks disagree, a model the *)
(* error rates list is not missing from the percentiles.                    *)
THEOREM RecentModelsHaveLatency == Spec => []EveryModelHasLatency
  <1>1. Init => TypeInv /\ LatencyInv
    BY TypeInit DEF TypeInv, Init, LatencyInv
  <1> QED
    BY <1>1, TypeNext, LatencyNext, EveryModelHolds, PTL DEF Spec

-----------------------------------------------------------------------------
(* Sums of costs.  The library's fold takes a set apart by CHOOSE; what it  *)
(* computes is the number of units the calls of the set gain less the number *)
(* they lose, in whatever order.                                            *)

Gains == [c \in Calls |-> IF Call[c].cost > 0 THEN Call[c].cost ELSE 0]

Losses == [c \in Calls |-> IF Call[c].cost > 0 THEN 0 ELSE -Call[c].cost]

Units(set, v) == {u \in set \X Nat : u[2] \in 1 .. v[u[1]]}

UnitsOf(c, v) == {c} \X (1 .. v[c])

Worth(set) == Cardinality(Units(set, Gains)) - Cardinality(Units(set, Losses))

LEMMA AmountsType ==
  /\ Gains \in [Calls -> Nat] /\ Losses \in [Calls -> Nat]
  /\ \A c \in Calls : Call[c].cost = Gains[c] - Losses[c]
  <1>1. \A c \in Calls : Call[c].cost \in Int
    BY CallFields
  <1> QED
    BY <1>1 DEF Gains, Losses

LEMMA IntervalSize ==
  ASSUME NEW n \in Nat
  PROVE  IsFiniteSet(1 .. n) /\ Cardinality(1 .. n) = n
  <1>1. /\ IsFiniteSet(1 .. n)
        /\ Cardinality(1 .. n) = IF 1 > n THEN 0 ELSE n - 1 + 1
    BY FS_Interval
  <1> QED
    BY <1>1

LEMMA UnitsOfCall ==
  ASSUME NEW v \in [Calls -> Nat], NEW c \in Calls
  PROVE  IsFiniteSet(UnitsOf(c, v)) /\ Cardinality(UnitsOf(c, v)) = v[c]
  <1>1. v[c] \in Nat
    OBVIOUS
  <1>2. IsFiniteSet(1 .. v[c]) /\ Cardinality(1 .. v[c]) = v[c]
    BY <1>1, IntervalSize
  <1>3. IsFiniteSet({c}) /\ Cardinality({c}) = 1
    BY FS_Singleton
  <1> DEFINE own == 1 .. v[c]
             me == {c}
  <1>4. IsFiniteSet(me) /\ IsFiniteSet(own) /\ UnitsOf(c, v) = me \X own
    BY <1>2, <1>3 DEF UnitsOf
  <1>5. Cardinality(me) * Cardinality(own) = v[c]
    BY <1>1, <1>2, <1>3
  <1> HIDE DEF me, own
  <1>6. /\ IsFiniteSet(me \X own)
        /\ Cardinality(me \X own) = Cardinality(me) * Cardinality(own)
    BY ONLY <1>4, FS_Product
  <1> QED
    BY ONLY <1>4, <1>5, <1>6

LEMMA UnitsAdd ==
  ASSUME NEW v \in [Calls -> Nat], NEW set \in SUBSET Calls,
         NEW c \in Calls \ set, IsFiniteSet(Units(set, v))
  PROVE  /\ IsFiniteSet(Units(set \union {c}, v))
         /\ Cardinality(Units(set \union {c}, v)) =
              v[c] + Cardinality(Units(set, v))
  <1>1. v[c] \in Nat /\ Cardinality(Units(set, v)) \in Nat
    BY FS_CardinalityType
  <1>2. IsFiniteSet(UnitsOf(c, v)) /\ Cardinality(UnitsOf(c, v)) = v[c]
    BY UnitsOfCall
  <1>3. Units(set \union {c}, v) = Units(set, v) \union UnitsOf(c, v)
    BY <1>1 DEF Units, UnitsOf
  <1>4. Units(set, v) \intersect UnitsOf(c, v) = {}
    BY DEF Units, UnitsOf
  <1>5. Cardinality({}) = 0
    BY FS_EmptySet
  <1>6. /\ IsFiniteSet(Units(set, v) \union UnitsOf(c, v))
        /\ Cardinality(Units(set, v) \union UnitsOf(c, v)) =
             Cardinality(Units(set, v)) + Cardinality(UnitsOf(c, v)) - 0
    BY <1>2, <1>4, <1>5, FS_Union
  <1>7. Cardinality(Units(set, v) \union UnitsOf(c, v)) =
          v[c] + Cardinality(Units(set, v))
    BY <1>1, <1>2, <1>6
  <1> QED
    BY <1>3, <1>6, <1>7

(* A collection of subsets of a finite set has a smallest member.           *)
LEMMA SmallestSubset ==
  ASSUME NEW S, IsFiniteSet(S), NEW B \in SUBSET SUBSET S, B # {}
  PROVE  \E T \in B : \A U \in B : U \subseteq T => U = T
  <1>1. IsWellFoundedOn(StrictSubsetOrdering(S), SUBSET S)
    BY FS_StrictSubsetOrderingWellFounded, FS_FiniteSubsetsOfFinite
  <1>2. PICK T \in B : \A U \in B : ~(<<U, T>> \in StrictSubsetOrdering(S))
    BY <1>1, WFMin
  <1>3. ASSUME NEW U \in B, U \subseteq T, U # T
        PROVE  FALSE
    BY <1>2, <1>3 DEF StrictSubsetOrdering
  <1> QED
    BY <1>3

LEMMA UnitsFinite ==
  ASSUME NEW v \in [Calls -> Nat], NEW set \in SUBSET Calls, IsFiniteSet(set)
  PROVE  IsFiniteSet(Units(set, v)) /\ Cardinality(Units(set, v)) \in Nat
  <1> DEFINE B == {T \in SUBSET set : ~IsFiniteSet(Units(T, v))}
  <1>1. B = {}
    <2> SUFFICES ASSUME B # {} PROVE FALSE
      OBVIOUS
    <2>0. B \in SUBSET SUBSET set
      OBVIOUS
    <2>1. PICK T \in B : \A U \in B : U \subseteq T => U = T
      <3> HIDE DEF B
      <3> QED
        BY <2>0, SmallestSubset
    <2>2. CASE T = {}
      <3>1. Units(T, v) = {}
        BY <2>2 DEF Units
      <3> QED
        BY <2>1, <3>1, FS_EmptySet
    <2>3. CASE T # {}
      <3>1. PICK c \in T : TRUE
        BY <2>3
      <3>2. T \ {c} \notin B
        BY <2>1, <3>1
      <3>3. IsFiniteSet(Units(T \ {c}, v)) /\ T \ {c} \in SUBSET Calls
        BY <3>2
      <3>4. IsFiniteSet(Units((T \ {c}) \union {c}, v))
        BY <3>3, <3>1, UnitsAdd
      <3>5. (T \ {c}) \union {c} = T
        BY <3>1
      <3> QED
        BY <2>1, <3>4, <3>5
    <2> QED
      BY <2>2, <2>3
  <1>2. set \in SUBSET set
    OBVIOUS
  <1>3. IsFiniteSet(Units(set, v))
    BY <1>1, <1>2
  <1> QED
    BY <1>3, FS_CardinalityType

LEMMA WorthAdd ==
  ASSUME NEW set \in SUBSET Calls, IsFiniteSet(set), NEW c \in Calls \ set
  PROVE  Worth(set) \in Int /\ Worth(set \union {c}) = Call[c].cost + Worth(set)
  <1>1. /\ IsFiniteSet(Units(set, Gains)) /\ IsFiniteSet(Units(set, Losses))
        /\ Cardinality(Units(set, Gains)) \in Nat
        /\ Cardinality(Units(set, Losses)) \in Nat
    BY UnitsFinite, AmountsType
  <1>2. /\ Cardinality(Units(set \union {c}, Gains)) =
             Gains[c] + Cardinality(Units(set, Gains))
        /\ Cardinality(Units(set \union {c}, Losses)) =
             Losses[c] + Cardinality(Units(set, Losses))
    BY <1>1, UnitsAdd, AmountsType
  <1>3. Gains[c] \in Nat /\ Losses[c] \in Nat /\ Call[c].cost = Gains[c] - Losses[c]
    BY AmountsType
  <1> QED
    BY <1>1, <1>2, <1>3 DEF Worth

(* The function the fold defines by recursion over the subsets of a set is  *)
(* the one that counts the worth: that one satisfies its equation, and no other *)
(* does.                                                                    *)
Pick(set) == CHOOSE c \in set : TRUE

Folded(set, g) ==
  g = [s \in SUBSET set |->
         IF s = {} THEN 0 ELSE Call[Pick(s)]["cost"] + g[s \ {Pick(s)}]]

Counted(set) == [s \in SUBSET set |-> Worth(s)]

LEMMA CountedStep ==
  ASSUME NEW set \in SUBSET Calls, IsFiniteSet(set), set # {}
  PROVE  /\ Pick(set) \in set
         /\ Worth(set) =
              Call[Pick(set)].cost + Worth(set \ {Pick(set)})
  <1>1. Pick(set) \in set
    BY DEF Pick
  <1>2. IsFiniteSet(set \ {Pick(set)})
    BY FS_RemoveElement
  <1>4. (set \ {Pick(set)}) \union {Pick(set)} = set
    BY <1>1
  <1>5. Pick(set) \in Calls \ (set \ {Pick(set)})
    BY <1>1
  <1> HIDE DEF Pick
  <1>6. Worth((set \ {Pick(set)}) \union {Pick(set)}) =
          Call[Pick(set)].cost + Worth(set \ {Pick(set)})
    BY <1>2, <1>5, WorthAdd
  <1> QED
    BY <1>1, <1>4, <1>6

LEMMA CountedEmpty == Worth({}) = 0
  <1>1. Units({}, Gains) = {} /\ Units({}, Losses) = {}
    BY DEF Units
  <1> QED
    BY <1>1, FS_EmptySet DEF Worth

LEMMA CountedFolded ==
  ASSUME NEW set \in SUBSET Calls, IsFiniteSet(set)
  PROVE  Folded(set, Counted(set))
  <1> SUFFICES ASSUME NEW s \in SUBSET set
               PROVE  Worth(s) =
                        IF s = {} THEN 0
                        ELSE Call[Pick(s)]["cost"]
                               + Counted(set)[s \ {Pick(s)}]
    BY DEF Folded, Counted
  <1>1. CASE s = {}
    BY <1>1, CountedEmpty
  <1>2. CASE s # {}
    <2>1. IsFiniteSet(s) /\ s \in SUBSET Calls
      BY FS_Subset
    <2>2. Worth(s) =
            Call[Pick(s)].cost + Worth(s \ {Pick(s)})
      BY <1>2, <2>1, CountedStep
    <2> QED
      BY <1>2, <2>2 DEF Counted
  <1> QED
    BY <1>1, <1>2

LEMMA FoldedUnique ==
  ASSUME NEW set \in SUBSET Calls, IsFiniteSet(set), NEW g, Folded(set, g)
  PROVE  g[set] = Worth(set)
  <1> DEFINE B == {s \in SUBSET set : g[s] # Worth(s)}
  <1>0. ASSUME NEW s \in SUBSET set
        PROVE  g[s] = IF s = {} THEN 0
                      ELSE Call[Pick(s)]["cost"] + g[s \ {Pick(s)}]
    BY DEF Folded
  <1>1. B = {}
    <2> SUFFICES ASSUME B # {} PROVE FALSE
      OBVIOUS
    <2>0. B \in SUBSET SUBSET set
      OBVIOUS
    <2>1. PICK T \in B : \A U \in B : U \subseteq T => U = T
      <3> HIDE DEF B
      <3> QED
        BY <2>0, SmallestSubset
    <2>2. CASE T = {}
      BY <1>0, <2>1, <2>2, CountedEmpty
    <2>3. CASE T # {}
      <3>1. IsFiniteSet(T) /\ T \in SUBSET Calls
        BY FS_Subset
      <3>2. /\ Pick(T) \in T
            /\ Worth(T) =
                 Call[Pick(T)].cost + Worth(T \ {Pick(T)})
        BY <2>3, <3>1, CountedStep
      <3>3. T \ {Pick(T)} \notin B
        BY <2>1, <3>2
      <3>4. g[T \ {Pick(T)}] = Worth(T \ {Pick(T)})
        BY <3>3
      <3>5. g[T] = Call[Pick(T)].cost + g[T \ {Pick(T)}]
        BY <1>0, <2>3
      <3> QED
        BY <2>1, <3>2, <3>4, <3>5
    <2> QED
      BY <2>2, <2>3
  <1>2. set \in SUBSET set
    OBVIOUS
  <1> QED
    BY <1>1, <1>2

LEMMA CostSum ==
  ASSUME NEW set \in SUBSET Calls, IsFiniteSet(set)
  PROVE  SumOf("cost", set) = Worth(set)
  <1> DEFINE iter == CHOOSE g : Folded(set, g)
  <1>1. SumOf("cost", set) = iter[set]
    BY DEF SumOf, MapThenSumSet, MapThenFoldSet, Folded, Pick
  <1>2. Folded(set, iter)
    BY CountedFolded
  <1> QED
    BY <1>1, <1>2, FoldedUnique

-----------------------------------------------------------------------------
(* The two stores agree, first half: the minutes.                           *)

(* The workers that have stored a call of a minute and not yet counted it.  *)
Incrementers(m) == {w \in Workers : pc[w] = "incr" /\ TaskMinute(w) = m}

Stored(m) == rows \intersect CallsIn(m)

(* What was counted and what is about to be is what is stored.              *)
CountOf(m) ==
  CallsIn(m) \intersect disturbed = {} =>
    applied[m] + Cardinality(Incrementers(m)) = Cardinality(Stored(m))

CountInv == IsFiniteSet(rows) /\ \A m \in Minutes : CountOf(m)

LEMMA IncrementersType ==
  ASSUME NEW m
  PROVE  /\ IsFiniteSet(Incrementers(m)) /\ Cardinality(Incrementers(m)) \in Nat
         /\ IsFiniteSet(Incrementers(m)') /\ Cardinality(Incrementers(m)') \in Nat
  <1>1. Incrementers(m) \subseteq Workers /\ Incrementers(m)' \subseteq Workers
    BY DEF Incrementers
  <1> QED
    BY <1>1, WorkersAssumption, FS_Subset, FS_CardinalityType

LEMMA StoredType ==
  ASSUME CountInv, NEW m
  PROVE  IsFiniteSet(Stored(m)) /\ Cardinality(Stored(m)) \in Nat
  <1>1. Stored(m) \subseteq rows /\ IsFiniteSet(rows)
    BY DEF Stored, CountInv
  <1> QED
    BY <1>1, FS_Subset, FS_CardinalityType

LEMMA CountInit == Init => CountInv
  <1> SUFFICES ASSUME Init PROVE CountInv
    OBVIOUS
  <1>1. IsFiniteSet(rows)
    BY FS_EmptySet DEF Init
  <1>2. ASSUME NEW m \in Minutes PROVE CountOf(m)
    <2>1. Incrementers(m) = {} /\ Stored(m) = {} /\ applied[m] = 0
      BY DEF Init, Incrementers, Stored
    <2> QED
      BY <2>1, FS_EmptySet DEF CountOf
  <1> QED
    BY <1>1, <1>2 DEF CountInv

LEMMA CountKept ==
  ASSUME NEW m \in Minutes, CountOf(m), rows' = rows,
         applied'[m] = applied[m], Incrementers(m)' = Incrementers(m),
         disturbed \subseteq disturbed'
  PROVE  CountOf(m)'
  BY DEF CountOf, Stored

LEMMA CountStore ==
  ASSUME TypeInv, CountInv, NEW w \in Workers, NEW c \in Calls, Store(w, c),
         NEW m \in Minutes
  PROVE  CountOf(m)'
  <1>1. /\ UNCHANGED <<applied, disturbed>> /\ c \notin rows
        /\ rows' = rows \union {c}
        /\ pc[w] = "idle" /\ pc'[w] = "incr" /\ task'[w] = c
        /\ \A v \in Workers : v # w => pc'[v] = pc[v] /\ task'[v] = task[v]
    BY DEF Store, bucketVars, TypeInv, TypeOK
  <1>2. CASE Bucket(Call[c].ts) = m
    <2>1. Stored(m)' = Stored(m) \union {c} /\ c \notin Stored(m)
      BY <1>1, <1>2 DEF Stored, CallsIn
    <2>2. Incrementers(m)' = Incrementers(m) \union {w} /\ w \notin Incrementers(m)
      BY <1>1, <1>2 DEF Incrementers, TaskMinute
    <2>3. Cardinality(Stored(m)') = Cardinality(Stored(m)) + 1
      BY <2>1, StoredType, FS_AddElement
    <2>4. Cardinality(Incrementers(m)') = Cardinality(Incrementers(m)) + 1
      BY <2>2, IncrementersType, FS_AddElement
    <2>5. applied[m] \in Nat
      BY DEF TypeInv, TypeOK
    <2> QED
      BY <1>1, <2>3, <2>4, <2>5, IncrementersType, StoredType DEF CountInv, CountOf
  <1>3. CASE Bucket(Call[c].ts) # m
    <2>1. Stored(m)' = Stored(m)
      BY <1>1, <1>3 DEF Stored, CallsIn
    <2>2. Incrementers(m)' = Incrementers(m)
      BY <1>1, <1>3 DEF Incrementers, TaskMinute
    <2> QED
      BY <1>1, <2>1, <2>2 DEF CountInv, CountOf
  <1> QED
    BY <1>2, <1>3

LEMMA CountIncr ==
  ASSUME TypeInv, CountInv, NEW w \in Workers, Incr(w), NEW m \in Minutes
  PROVE  CountOf(m)'
  <1>1. /\ UNCHANGED <<rows, task, disturbed>>
        /\ pc[w] = "incr" /\ pc'[w] = "expireCalls"
        /\ \A v \in Workers : v # w => pc'[v] = pc[v]
    BY OthersStay, ClockStays DEF Incr
  <1>2. applied[m] \in Nat
    BY DEF TypeInv, TypeOK
  <1>3. CASE TaskMinute(w) = m
    <2>1. applied'[m] = applied[m] + 1
      BY <1>3 DEF Incr, TypeInv, TypeOK
    <2>2. Incrementers(m)' = Incrementers(m) \ {w} /\ w \in Incrementers(m)
      BY <1>1, <1>3 DEF Incrementers, TaskMinute
    <2>3. Cardinality(Incrementers(m)') = Cardinality(Incrementers(m)) - 1
      BY <2>2, IncrementersType, FS_RemoveElement
    <2>4. Stored(m)' = Stored(m)
      BY <1>1 DEF Stored
    <2> QED
      BY <1>1, <1>2, <2>1, <2>3, <2>4, IncrementersType DEF CountInv, CountOf
  <1>4. CASE TaskMinute(w) # m
    <2>1. applied'[m] = applied[m]
      BY <1>4 DEF Incr, TypeInv, TypeOK
    <2>2. Incrementers(m)' = Incrementers(m)
      BY <1>1, <1>4 DEF Incrementers, TaskMinute
    <2> QED
      BY <1>1, <2>1, <2>2, CountKept DEF CountInv
  <1> QED
    BY <1>3, <1>4

(* A worker a fault stops or sends back disturbs the minute of its call.    *)
LEMMA CountFault ==
  ASSUME TypeInv, CountInv, NEW w \in Workers, Abandon(w) \/ Resend(w),
         NEW m \in Minutes
  PROVE  CountOf(m)'
  <1>1. /\ UNCHANGED <<rows, task, applied>>
        /\ disturbed' = disturbed \union {task[w]}
        /\ \A v \in Workers : v # w => pc'[v] = pc[v]
    BY DEF Abandon, Resend, bucketVars, TypeInv, TypeOK
  <1>2. CASE TaskMinute(w) = m
    <2>1. task[w] \in CallsIn(m)
      BY <1>2 DEF CallsIn, TaskMinute, TypeInv, TypeOK
    <2> QED
      BY <1>1, <2>1 DEF CountOf
  <1>3. CASE TaskMinute(w) # m
    <2>1. Incrementers(m)' = Incrementers(m)
      BY <1>1, <1>3 DEF Incrementers, TaskMinute
    <2> QED
      BY <1>1, <2>1, CountKept DEF CountInv
  <1> QED
    BY <1>2, <1>3

LEMMA CountNext == TypeInv /\ CountInv /\ [Next]_vars => CountInv'
  <1> SUFFICES ASSUME TypeInv, CountInv, [Next]_vars
               PROVE  CountInv'
    OBVIOUS
  <1>1. IsFiniteSet(rows')
    <2>1. rows' = rows \/ \E c \in Calls : rows' = rows \union {c}
      <3>1. CASE \E w \in Workers, c \in Calls : Store(w, c)
        BY <3>1 DEF Store
      <3> QED
        BY <3>1, WithoutStore
    <2> QED
      BY <2>1, FS_AddElement DEF CountInv
  <1>2. ASSUME NEW m \in Minutes PROVE CountOf(m)'
    <2>1. ASSUME NEW w \in Workers, NEW c \in Calls, Store(w, c)
          PROVE  CountOf(m)'
      BY <2>1, CountStore
    <2>2. ASSUME NEW w \in Workers, Incr(w) \/ Abandon(w) \/ Resend(w)
          PROVE  CountOf(m)'
      BY <2>2, CountIncr, CountFault
    <2>3. ASSUME NEW w \in Workers,
                 \/ ExpireCalls(w) \/ Push(w) \/ Trim(w)
                 \/ ExpireList(w) \/ IncrCost(w)
          PROVE  CountOf(m)'
      <3>1. UNCHANGED <<rows, task, applied, disturbed>>
        BY <2>3, ClockStays
           DEF ExpireCalls, Push, Trim, ExpireList, IncrCost, Step, bucketVars
      <3>2. /\ pc[w] # "incr" /\ pc'[w] # "incr"
            /\ \A v \in Workers : v # w => pc'[v] = pc[v]
        BY <2>3, OthersStay DEF ExpireCalls, Push, Trim, ExpireList, IncrCost
      <3>3. Incrementers(m)' = Incrementers(m)
        BY <3>1, <3>2 DEF Incrementers, TaskMinute
      <3> QED
        BY <3>1, <3>3, CountKept DEF CountInv
    <2>4. CASE \/ Tick \/ EvictCosts \/ UNCHANGED vars
               \/ \E n \in Minutes : EvictBucket(n)
               \/ \E k \in Keys : EvictList(k)
      <3>1. UNCHANGED <<rows, pc, task, applied>> /\ disturbed \subseteq disturbed'
        BY <2>4 DEF Tick, EvictCosts, EvictBucket, EvictList, vars, bucketVars
      <3>2. Incrementers(m)' = Incrementers(m)
        BY <3>1 DEF Incrementers, TaskMinute
      <3> QED
        BY <3>1, <3>2, CountKept DEF CountInv
    <2> QED
      BY <2>1, <2>2, <2>3, <2>4 DEF Next
  <1> QED
    BY <1>1, <1>2 DEF CountInv

(* A minute the window still names, with nobody at work on it.              *)
LEMMA CountsAgree ==
  ASSUME TypeInv, WindowInv, CountInv, NEW m \in Minutes \ evicted.minutes,
         m * Minute - Ahead + Life > clock, ~Busy(CallsIn(m)),
         CallsIn(m) \intersect disturbed = {}
  PROVE  counts[m] = Cardinality(Stored(m))
  <1>1. Incrementers(m) = {}
    BY DEF Incrementers, Busy, CallsIn, TaskMinute, TypeInv, TypeOK
  <1>2. applied[m] = Cardinality(Stored(m))
    <2>1. applied[m] \in Nat /\ Cardinality({}) = 0
      BY FS_EmptySet DEF TypeInv, TypeOK
    <2> QED
      BY <1>1, <2>1 DEF CountInv, CountOf
  <1>3. ~(Due(m) <= clock + Ahead)
    <2>1. /\ m * Minute \in Nat /\ Life \in Nat /\ Ahead \in Nat
          /\ clock \in Nat
      BY DueType, LifeType, TimesAssumption DEF TypeInv, TypeOK
    <2> QED
      BY <2>1 DEF Due
  <1> QED
    BY <1>2, <1>3 DEF WindowInv

-----------------------------------------------------------------------------
(* Second half: the costs.                                                  *)

(* No two workers work on one call.                                         *)
Alone ==
  \A v, w \in Workers :
    pc[v] # "idle" /\ pc[w] # "idle" /\ task[v] = task[w] => v = w

(* Stored calls of a provider that no worker works on any more.             *)
Settled(p) == {c \in rows \intersect CallsOf(p) : ~Busy({c})}

CostOf(p) ==
  ~evicted.costs /\ CallsOf(p) \intersect disturbed = {} =>
    costs[p] = SumOf("cost", Settled(p))

CostInv == Alone /\ \A p \in Providers : CostOf(p)

LEMMA SettledType ==
  ASSUME CountInv, NEW p
  PROVE  IsFiniteSet(Settled(p)) /\ Settled(p) \in SUBSET Calls
  <1>1. Settled(p) \subseteq rows /\ IsFiniteSet(rows)
    BY DEF Settled, CountInv
  <1>2. Settled(p) \subseteq Calls
    BY DEF Settled, CallsOf
  <1> QED
    BY <1>1, <1>2, FS_Subset

LEMMA SumAdd ==
  ASSUME NEW set \in SUBSET Calls, IsFiniteSet(set), NEW c \in Calls \ set
  PROVE  SumOf("cost", set \union {c}) = Call[c].cost + SumOf("cost", set)
  <1>1. IsFiniteSet(set \union {c}) /\ set \union {c} \in SUBSET Calls
    BY FS_AddElement
  <1> QED
    BY <1>1, CostSum, WorthAdd

LEMMA CostInit == Init => CostInv
  <1> SUFFICES ASSUME Init, NEW p \in Providers PROVE CostOf(p)
    BY DEF Init, CostInv, Alone
  <1>1. Settled(p) = {} /\ costs[p] = 0
    BY DEF Init, Settled
  <1>2. SumOf("cost", {}) = 0
    BY CostSum, CountedEmpty, FS_EmptySet
  <1> QED
    BY <1>1, <1>2 DEF CostOf

LEMMA CostKept ==
  ASSUME NEW p \in Providers, CostOf(p), costs'[p] = costs[p],
         Settled(p)' = Settled(p), disturbed \subseteq disturbed',
         evicted.costs => evicted'.costs
  PROVE  CostOf(p)'
  BY DEF CostOf

(* Who works on what is as before.                                          *)
LEMMA SettledKept ==
  ASSUME rows' = rows, task' = task,
         \A v \in Workers : pc[v] # "idle" <=> pc'[v] # "idle"
  PROVE  (Alone => Alone') /\ \A p : Settled(p)' = Settled(p)
  <1>1. \A c : Busy({c}) <=> Busy({c})'
    BY DEF Busy
  <1>2. \A p : Settled(p)' = Settled(p)
    BY <1>1 DEF Settled
  <1>3. Alone => Alone'
    BY DEF Alone
  <1> QED
    BY <1>2, <1>3

LEMMA CostStore ==
  ASSUME TypeInv, CostInv, NEW w \in Workers, NEW c \in Calls, Store(w, c)
  PROVE  CostInv'
  <1>1. /\ UNCHANGED <<costs, disturbed, evicted>> /\ c \notin rows
        /\ rows' = rows \union {c}
        /\ pc[w] = "idle" /\ pc'[w] = "incr" /\ task'[w] = c
        /\ \A v \in Workers : v # w => pc'[v] = pc[v] /\ task'[v] = task[v]
    BY DEF Store, TypeInv, TypeOK
  <1>2. \A v \in Workers : pc[v] # "idle" => task[v] \in rows
    BY DEF TypeInv, Underway
  <1>3. Alone'
    BY <1>1, <1>2 DEF CostInv, Alone
  <1>4. ASSUME NEW p \in Providers PROVE CostOf(p)'
    <2>1. Busy({c})'
      BY <1>1 DEF Busy
    <2>2. \A d \in rows : Busy({d}) <=> Busy({d})'
      BY <1>1 DEF Busy
    <2>3. Settled(p)' = Settled(p)
      BY <1>1, <2>1, <2>2 DEF Settled
    <2> QED
      BY <1>1, <2>3, CostKept DEF CostInv
  <1> QED
    BY <1>3, <1>4 DEF CostInv

(* The call becomes settled with the step that charges it.                  *)
LEMMA CostCharge ==
  ASSUME TypeInv, CountInv, CostInv, NEW w \in Workers, IncrCost(w)
  PROVE  CostInv'
  <1>1. /\ UNCHANGED <<rows, task, disturbed, evicted>>
        /\ pc[w] = "cost" /\ pc'[w] = "idle"
        /\ \A v \in Workers : v # w => pc'[v] = pc[v]
    BY OthersStay, ClockStays DEF IncrCost
  <1> DEFINE c == task[w]
  <1>2. c \in rows /\ c \in Calls /\ Call[c].provider \in Providers
    BY <1>1, CallFields DEF TypeInv, TypeOK, Underway
  <1>3. Alone'
    BY <1>1 DEF CostInv, Alone
  <1>4. Busy({c}) /\ ~Busy({c})'
    <2>1. \A v \in Workers : pc[v] # "idle" /\ task[v] = task[w] => v = w
      BY <1>1 DEF CostInv, Alone
    <2> QED
      BY <1>1, <2>1 DEF Busy
  <1>5. \A d : d # c => (Busy({d}) <=> Busy({d})')
    BY <1>1 DEF Busy
  <1>6. \A p \in Providers :
          costs'[p] = IF p = Call[c].provider THEN costs[p] + Call[c].cost
                                              ELSE costs[p]
    BY DEF IncrCost, AddCost, TypeInv, TypeOK
  <1>7. ASSUME NEW p \in Providers PROVE CostOf(p)'
    <2>1. CASE p = Call[c].provider
      <3>1. c \in CallsOf(p)
        BY <1>2, <2>1 DEF CallsOf
      <3>2. Settled(p)' = Settled(p) \union {c} /\ c \notin Settled(p)
        BY <1>1, <1>2, <1>4, <1>5, <3>1 DEF Settled
      <3>3. SumOf("cost", Settled(p) \union {c}) =
              Call[c].cost + SumOf("cost", Settled(p))
        BY <1>2, <3>2, SettledType, SumAdd
      <3>4. costs'[p] = costs[p] + Call[c].cost
        BY <1>6, <2>1
      <3>5. costs[p] \in Int /\ Call[c].cost \in Int
        BY <1>2, CallFields DEF TypeInv, TypeOK
      <3>6. CostOf(p)
        BY DEF CostInv
      <3> HIDE DEF c
      <3> QED
        BY <1>1, <3>2, <3>3, <3>4, <3>5, <3>6 DEF CostOf
    <2>2. CASE p # Call[c].provider
      <3>1. c \notin CallsOf(p)
        BY <2>2 DEF CallsOf
      <3>2. Settled(p)' = Settled(p)
        BY <1>1, <1>5, <3>1 DEF Settled
      <3> QED
        BY <1>1, <1>6, <2>2, <3>2, CostKept DEF CostInv
    <2> QED
      BY <2>1, <2>2
  <1> QED
    BY <1>3, <1>7 DEF CostInv

(* A fault disturbs the provider of the call.                               *)
LEMMA CostFault ==
  ASSUME TypeInv, CostInv, NEW w \in Workers, Abandon(w) \/ Resend(w)
  PROVE  CostInv'
  <1>1. /\ UNCHANGED <<rows, task, evicted>>
        /\ disturbed' = disturbed \union {task[w]}
        /\ \A v \in Workers : v # w => pc'[v] = pc[v]
        /\ pc[w] # "idle"
    BY DEF Abandon, Resend, TypeInv, TypeOK
  <1>2. Alone'
    BY <1>1 DEF CostInv, Alone
  <1>3. ASSUME NEW p \in Providers PROVE CostOf(p)'
    <2>1. CASE task[w] \in CallsOf(p)
      BY <1>1, <2>1 DEF CostOf
    <2>2. CASE task[w] \notin CallsOf(p)
      <3>1. \A d \in CallsOf(p) : Busy({d}) <=> Busy({d})'
        BY <1>1, <2>2 DEF Busy
      <3>2. Settled(p)' = Settled(p)
        BY <1>1, <3>1 DEF Settled
      <3>3. p # Call[task[w]].provider
        BY <2>2 DEF CallsOf, TypeInv, TypeOK
      <3>4. costs'[p] = costs[p]
        BY <3>3 DEF Abandon, Resend, AddCost, TypeInv, TypeOK
      <3> QED
        BY <1>1, <3>2, <3>4, CostKept DEF CostInv
    <2> QED
      BY <2>1, <2>2
  <1> QED
    BY <1>2, <1>3 DEF CostInv

LEMMA CostNext == TypeInv /\ CountInv /\ CostInv /\ [Next]_vars => CostInv'
  <1> SUFFICES ASSUME TypeInv, CountInv, CostInv, [Next]_vars
               PROVE  CostInv'
    OBVIOUS
  <1>1. ASSUME NEW w \in Workers, NEW c \in Calls, Store(w, c)
        PROVE  CostInv'
    BY <1>1, CostStore
  <1>2. ASSUME NEW w \in Workers, IncrCost(w) \/ Abandon(w) \/ Resend(w)
        PROVE  CostInv'
    BY <1>2, CostCharge, CostFault
  <1>3. ASSUME NEW w \in Workers,
               \/ Incr(w) \/ ExpireCalls(w) \/ Push(w) \/ Trim(w)
               \/ ExpireList(w)
        PROVE  CostInv'
    <2>1. UNCHANGED <<rows, task, costs, disturbed, evicted>>
      BY <1>3, ClockStays
         DEF Incr, ExpireCalls, Push, Trim, ExpireList, Step
    <2>2. /\ pc[w] # "idle" /\ pc'[w] # "idle"
          /\ \A v \in Workers : v # w => pc'[v] = pc[v]
      BY <1>3, OthersStay DEF Incr, ExpireCalls, Push, Trim, ExpireList
    <2>3. Alone' /\ \A p : Settled(p)' = Settled(p)
      BY <2>1, <2>2, SettledKept DEF CostInv
    <2> QED
      BY <2>1, <2>3, CostKept DEF CostInv
  <1>4. CASE \/ Tick \/ UNCHANGED vars
             \/ \E m \in Minutes : EvictBucket(m)
             \/ \E k \in Keys : EvictList(k)
    <2>1. /\ UNCHANGED <<rows, pc, task, costs>>
          /\ disturbed \subseteq disturbed'
          /\ evicted'.costs = evicted.costs
      BY <1>4 DEF Tick, EvictBucket, EvictList, vars, TypeInv, TypeOK
    <2>2. Alone' /\ \A p : Settled(p)' = Settled(p)
      BY <2>1, SettledKept DEF CostInv
    <2> QED
      BY <2>1, <2>2, CostKept DEF CostInv
  <1>5. CASE EvictCosts
    <2>1. UNCHANGED <<rows, pc, task>> /\ evicted'.costs
      BY <1>5 DEF EvictCosts, TypeInv, TypeOK
    <2>2. Alone'
      BY <2>1, SettledKept DEF CostInv
    <2> QED
      BY <2>1, <2>2 DEF CostInv, CostOf
  <1> QED
    BY <1>1, <1>2, <1>3, <1>4, <1>5 DEF Next

LEMMA CostsAgree ==
  ASSUME CostInv, NEW p \in Providers, ~evicted.costs, ~Busy(CallsOf(p)),
         CallsOf(p) \intersect disturbed = {}
  PROVE  costs[p] = SumOf("cost", rows \intersect CallsOf(p))
  <1>1. Settled(p) = rows \intersect CallsOf(p)
    BY DEF Settled, Busy
  <1> QED
    BY <1>1 DEF CostInv, CostOf

LEMMA MinutesAskedType == \A v : MinutesAsked(v) \in Nat
  BY HoursAssumption DEF MinutesAsked

LEMMA StoresAgreeHolds ==
  TypeInv /\ WindowInv /\ CountInv /\ CostInv => StoresAgree
  <1> SUFFICES ASSUME TypeInv, WindowInv, CountInv, CostInv
               PROVE  StoresAgree
    OBVIOUS
  <1>1. ASSUME NEW n \in Nat, NEW i \in 1 .. n, NEW m,
               m = Oldest(clock, n) + i - 1,
               m \in Minutes \ evicted.minutes,
               m * Minute - Ahead + Life > clock, ~Busy(CallsIn(m)),
               CallsIn(m) \intersect disturbed = {}
        PROVE  CallsPerMinute(clock, n)[i].count = Total(rows \intersect CallsIn(m))
    <2>1. CallsPerMinute(clock, n)[i].count = counts[m]
      BY <1>1 DEF CallsPerMinute
    <2> QED
      BY <1>1, <2>1, CountsAgree DEF Stored, Total
  <1>2. \A n, i : i \in 1 .. n =>
          CallsPerMinute(clock, n)[i].minute = Oldest(clock, n) + i - 1
    BY DEF CallsPerMinute
  <1>3. \A n \in {MinutesAsked(v) : v \in Asked} :
          LET answer == CallsPerMinute(clock, n) IN
          \A i \in 1 .. n :
            LET m == answer[i].minute IN
            (/\ m \in Minutes \ evicted.minutes
             /\ m * Minute - Ahead + Life > clock
             /\ ~Busy(CallsIn(m))
             /\ CallsIn(m) \intersect disturbed = {})
              => answer[i].count = Total(rows \intersect CallsIn(m))
    <2> SUFFICES ASSUME NEW v \in Asked, NEW i \in 1 .. MinutesAsked(v),
                        NEW m, m = Oldest(clock, MinutesAsked(v)) + i - 1,
                        m \in Minutes \ evicted.minutes,
                        m * Minute - Ahead + Life > clock, ~Busy(CallsIn(m)),
                        CallsIn(m) \intersect disturbed = {}
                 PROVE  CallsPerMinute(clock, MinutesAsked(v))[i].count =
                          Total(rows \intersect CallsIn(m))
      BY <1>2
    <2> QED
      BY <1>1, MinutesAskedType
  <1>4. \A p \in Providers :
          (~evicted.costs /\ ~Busy(CallsOf(p))
             /\ CallsOf(p) \intersect disturbed = {})
            => costs[p] = SumOf("cost", rows \intersect CallsOf(p))
    BY CostsAgree
  <1> QED
    BY <1>3, <1>4 DEF StoresAgree

(* For any calls, workers and interleaving of their updates: what Redis     *)
(* counts for a minute it still answers for, and what it charges a provider,*)
(* is what the table holds, unless a fault touched one of the calls.        *)
THEOREM TheStoresAgree == Spec => []StoresAgree
  <1>1. Init => TypeInv /\ WindowInv /\ CountInv /\ CostInv
    BY TypeInit, WindowInit, CountInit, CostInit DEF TypeInv
  <1> QED
    BY <1>1, TypeNext, WindowNext, CountNext, CostNext, StoresAgreeHolds,
       PTL DEF Spec

-----------------------------------------------------------------------------
(* Sorting: every list has its values in ascending order.                   *)

LEMMA BijectionMeans ==
  ASSUME NEW S, NEW T, NEW f \in Bijection(S, T)
  PROVE  /\ f \in [S -> T]
         /\ \A i, j \in S : f[i] = f[j] => i = j
         /\ \A t \in T : \E i \in S : f[i] = t
  BY DEF Bijection, Injection, Surjection, IsInjective

LEMMA BijectionMade ==
  ASSUME NEW S, NEW T, NEW f \in [S -> T],
         \A i, j \in S : f[i] = f[j] => i = j,
         \A t \in T : \E i \in S : f[i] = t
  PROVE  f \in Bijection(S, T)
  BY DEF Bijection, Injection, Surjection, IsInjective

LEMMA Permuted ==
  ASSUME NEW n, NEW f \in Bijection(1 .. n, 1 .. n)
  PROVE  /\ f \in [1 .. n -> 1 .. n]
         /\ \A i, j \in 1 .. n : f[i] = f[j] => i = j
         /\ \A t \in 1 .. n : \E i \in 1 .. n : f[i] = t
  BY DEF Bijection, Injection, Surjection, IsInjective

LEMMA Largest ==
  ASSUME NEW S, IsFiniteSet(S), S # {}, NEW v \in [S -> Nat]
  PROVE  \E m \in S : \A i \in S : v[i] <= v[m]
  <1> DEFINE Top(T, m) == m \in T /\ \A i \in T : v[i] <= v[m]
             B == {T \in SUBSET S : T # {} /\ ~(\E m \in S : Top(T, m))}
  <1>1. B = {}
    <2> SUFFICES ASSUME B # {} PROVE FALSE
      OBVIOUS
    <2>0. B \in SUBSET SUBSET S
      OBVIOUS
    <2>1. PICK T \in B : \A U \in B : U \subseteq T => U = T
      <3> HIDE DEF B
      <3> QED
        BY <2>0, SmallestSubset
    <2>2. PICK c \in T : c \in S
      BY <2>1
    <2>3. CASE T \ {c} = {}
      BY <2>1, <2>2, <2>3
    <2>4. CASE T \ {c} # {}
      <3>0. T \ {c} \notin B /\ T \ {c} \in SUBSET S
        <4>1. T \in SUBSET S /\ T \ {c} # T /\ T \ {c} \subseteq T
          BY <2>1
        <4> HIDE DEF B
        <4> QED
          BY <2>1, <4>1
      <3>1. PICK m \in S : Top(T \ {c}, m)
        <4> HIDE DEF Top
        <4> QED
          BY <2>4, <3>0
      <3>2. v[m] \in Nat /\ v[c] \in Nat
        BY <2>2
      <3>3. CASE v[c] <= v[m]
        <4>1. Top(T, m)
          BY <2>2, <3>1, <3>3
        <4> QED
          BY <2>1, <4>1
      <3>4. CASE v[m] <= v[c]
        <4>1. \A i \in T : v[i] \in Nat
          BY <2>1
        <4>2. Top(T, c)
          BY <2>2, <3>1, <3>2, <3>4, <4>1
        <4> QED
          BY <2>1, <2>2, <4>2
      <3> QED
        BY <3>2, <3>3, <3>4
    <2> QED
      BY <2>3, <2>4
  <1>2. S \in SUBSET S
    OBVIOUS
  <1>3. PICK m \in S : Top(S, m)
    BY <1>1, <1>2
  <1> QED
    BY <1>3

Rising(n, list, order) ==
  /\ order \in Bijection(1 .. n, 1 .. n)
  /\ \A i, j \in 1 .. n : i <= j => list[order[i]] <= list[order[j]]

Sortable(n) == \A list \in [1 .. n -> Nat] : \E order : Rising(n, list, order)

(* Sort the others after moving the last value to where the largest was.    *)
LEMMA SortMore ==
  ASSUME NEW n \in Nat, Sortable(n)
  PROVE  Sortable(n + 1)
  <1> SUFFICES ASSUME NEW list \in [1 .. n + 1 -> Nat]
               PROVE  \E order : Rising(n + 1, list, order)
    BY DEF Sortable
  <1>1. IsFiniteSet(1 .. n + 1) /\ 1 .. n + 1 # {}
    <2>1. n + 1 \in Nat /\ n + 1 \in 1 .. n + 1
      OBVIOUS
    <2> QED
      BY <2>1, IntervalSize
  <1>2. PICK m \in 1 .. n + 1 : \A i \in 1 .. n + 1 : list[i] <= list[m]
    BY <1>1, Largest
  <1> DEFINE rest == [i \in 1 .. n |-> IF i = m THEN list[n + 1] ELSE list[i]]
  <1>3. rest \in [1 .. n -> Nat]
    OBVIOUS
  <1>4. PICK by : Rising(n, rest, by)
    BY <1>3 DEF Sortable
  <1>5. /\ by \in [1 .. n -> 1 .. n]
        /\ \A i, j \in 1 .. n : by[i] = by[j] => i = j
        /\ \A t \in 1 .. n : \E i \in 1 .. n : by[i] = t
    <2>1. by \in Bijection(1 .. n, 1 .. n)
      BY <1>4 DEF Rising
    <2> QED
      BY ONLY <2>1, Permuted
  <1> DEFINE order == [i \in 1 .. n + 1 |->
                         IF i = n + 1 THEN m
                         ELSE IF by[i] = m THEN n + 1 ELSE by[i]]
  <1>0. \A i \in 1 .. n + 1 : i # n + 1 => i \in 1 .. n
    OBVIOUS
  <1>6. order \in [1 .. n + 1 -> 1 .. n + 1]
    <2> SUFFICES ASSUME NEW i \in 1 .. n + 1 PROVE order[i] \in 1 .. n + 1
      OBVIOUS
    <2>1. CASE i = n + 1
      BY <2>1
    <2>2. CASE i # n + 1
      <3>1. i \in 1 .. n /\ by[i] \in 1 .. n
        BY <1>0, <1>5, <2>2
      <3>2. by[i] \in 1 .. n + 1 /\ n + 1 \in 1 .. n + 1
        BY <3>1
      <3> QED
        BY <2>2, <3>2
    <2> QED
      BY <2>1, <2>2
  <1>7. \A i \in 1 .. n : /\ i \in 1 .. n + 1 /\ i # n + 1
                          /\ order[i] = IF by[i] = m THEN n + 1 ELSE by[i]
                          /\ list[order[i]] = rest[by[i]]
                          /\ order[i] # m
    <2> SUFFICES ASSUME NEW i \in 1 .. n
                 PROVE  /\ i \in 1 .. n + 1 /\ i # n + 1
                        /\ order[i] = IF by[i] = m THEN n + 1 ELSE by[i]
                        /\ list[order[i]] = rest[by[i]]
                        /\ order[i] # m
      OBVIOUS
    <2>0. by[i] \in 1 .. n
      BY <1>5
    <2>1. i \in 1 .. n + 1 /\ i # n + 1 /\ by[i] \in 1 .. n
      BY <2>0
    <2>2. order[i] = IF by[i] = m THEN n + 1 ELSE by[i]
      BY <2>1
    <2>3. rest[by[i]] = IF by[i] = m THEN list[n + 1] ELSE list[by[i]]
      BY <2>1
    <2>4. by[i] # n + 1
      BY <2>1
    <2> HIDE DEF order, rest
    <2> QED
      BY <2>1, <2>2, <2>3, <2>4
  <1>8. order[n + 1] = m
    OBVIOUS
  <1>9. ASSUME NEW i \in 1 .. n + 1, NEW j \in 1 .. n + 1, order[i] = order[j]
        PROVE  i = j
    <2>1. CASE i = n + 1 \/ j = n + 1
      <3> HIDE DEF order, rest
      <3> QED
        BY <1>0, <1>7, <1>8, <1>9, <2>1
    <2>2. CASE i \in 1 .. n /\ j \in 1 .. n
      <3>1. by[i] \in 1 .. n /\ by[j] \in 1 .. n
        BY <1>5, <2>2
      <3>2. by[i] = by[j]
        BY <1>7, <1>9, <2>2, <3>1
      <3> QED
        BY <1>5, <2>2, <3>2
    <2> QED
      BY <1>0, <2>1, <2>2
  <1>10. ASSUME NEW t \in 1 .. n + 1 PROVE \E i \in 1 .. n + 1 : order[i] = t
    <2>1. CASE t = m
      BY <1>8, <2>1
    <2>2. CASE t # m /\ t \in 1 .. n
      BY <1>5, <1>7, <2>2
    <2>3. CASE t # m /\ t = n + 1
      <3>1. m \in 1 .. n
        BY <2>3
      <3>2. PICK i \in 1 .. n : by[i] = m
        BY <1>5, <3>1
      <3> QED
        BY <1>7, <2>3, <3>2
    <2> QED
      BY <2>1, <2>2, <2>3
  <1>11. ASSUME NEW i \in 1 .. n + 1, NEW j \in 1 .. n + 1, i <= j
         PROVE  list[order[i]] <= list[order[j]]
    <2>1. CASE j = n + 1
      <3>1. order[i] \in 1 .. n + 1
        BY <1>6
      <3> QED
        BY <1>2, <1>8, <2>1, <3>1
    <2>2. CASE j # n + 1
      <3>1. i \in 1 .. n /\ j \in 1 .. n
        BY <1>11, <2>2
      <3> QED
        BY <1>4, <1>7, <1>11, <3>1 DEF Rising
    <2> QED
      BY <2>1, <2>2
  <1> HIDE DEF order
  <1>12. order \in Bijection(1 .. n + 1, 1 .. n + 1)
    BY ONLY <1>6, <1>9, <1>10, BijectionMade
  <1> QED
    BY <1>11, <1>12 DEF Rising

LEMMA AllSortable == \A n \in Nat : Sortable(n)
  <1> DEFINE B == {n \in Nat : ~Sortable(n)}
  <1> SUFFICES ASSUME B # {} PROVE FALSE
    OBVIOUS
  <1>0. B \subseteq Nat
    OBVIOUS
  <1>1. PICK n \in B : \A k \in B : ~(<<k, n>> \in OpToRel(<, Nat))
    <2> HIDE DEF B
    <2> QED
      BY <1>0, NatLessThanWellFounded, WFMin
  <1>4. n \in Nat /\ ~Sortable(n)
    OBVIOUS
  <1>2. CASE n = 0
    <2>1. Sortable(0)
      <3> DEFINE none == [i \in 1 .. 0 |-> i]
      <3>0. 1 .. 0 = {} /\ none \in [1 .. 0 -> 1 .. 0]
        OBVIOUS
      <3> HIDE DEF none
      <3>1. none \in Bijection(1 .. 0, 1 .. 0)
        BY ONLY <3>0, BijectionMade
      <3> QED
        BY <3>1 DEF Sortable, Rising
    <2> QED
      BY <1>2, <1>4, <2>1
  <1>3. CASE n # 0
    <2>1. n - 1 \in Nat /\ n - 1 < n /\ (n - 1) + 1 = n
      BY <1>3, <1>4
    <2>2. <<n - 1, n>> \in OpToRel(<, Nat)
      BY <1>4, <2>1 DEF OpToRel
    <2>3. n - 1 \notin B
      <3> HIDE DEF B
      <3> QED
        BY ONLY <1>1, <2>2
    <2>4. Sortable(n - 1)
      BY <2>1, <2>3
    <2> QED
      BY ONLY <1>4, <2>1, <2>4, SortMore
  <1> QED
    BY <1>2, <1>3

LEMMA AscendingRight ==
  ASSUME NEW n \in Nat, NEW list \in [1 .. n -> Nat]
  PROVE  \E order : /\ Rising(n, list, order)
                    /\ Ascending(list) = [i \in 1 .. n |-> list[order[i]]]
  <1> DEFINE D == DOMAIN list
             All == {[i \in D |-> list[order[i]]] : order \in Bijection(D, D)}
             Ordered(s) == \A i, j \in D : i <= j => s[i] <= s[j]
  <1>1. Ascending(list) = CHOOSE s \in All : Ordered(s)
    BY DEF Ascending
  <1>2. D = 1 .. n
    OBVIOUS
  <1> HIDE DEF D
  <1>3. \E s \in All : Ordered(s)
    <2>1. PICK order : Rising(n, list, order)
      BY AllSortable DEF Sortable
    <2>2. /\ order \in Bijection(D, D)
          /\ \A i, j \in D : i <= j => list[order[i]] <= list[order[j]]
      BY <1>2, <2>1 DEF Rising
    <2> DEFINE s == [i \in D |-> list[order[i]]]
    <2>3. s \in All /\ Ordered(s)
      BY <2>2
    <2> QED
      BY <2>3
  <1>4. Ascending(list) \in All /\ Ordered(Ascending(list))
    <2> HIDE DEF All, Ordered
    <2> QED
      BY <1>1, <1>3
  <1>5. PICK order \in Bijection(D, D) :
          Ascending(list) = [i \in D |-> list[order[i]]]
    BY <1>4
  <1>6. \A i, j \in D : i <= j => list[order[i]] <= list[order[j]]
    BY <1>4, <1>5
  <1> QED
    BY <1>2, <1>5, <1>6 DEF Rising

-----------------------------------------------------------------------------
(* Interpolation between the values of an ascending list.                   *)

(* The point at a rank given in hundredths, 0 for the first value.          *)
Cell(s, a) == s[a \div 100 + 1]

NextCell(s, a) == s[(a + 99) \div 100 + 1]

Point(s, a) ==
  100 * Cell(s, a) + (a - 100 * (a \div 100)) * (NextCell(s, a) - Cell(s, a))

Climbs(n, s) ==
  s \in [1 .. n -> Nat] /\ \A i, j \in 1 .. n : i <= j => s[i] <= s[j]

LEMMA RankCells ==
  ASSUME NEW n \in Nat \ {0}, NEW a \in 0 .. 100 * (n - 1)
  PROVE  /\ a \div 100 + 1 \in 1 .. n
         /\ (a + 99) \div 100 + 1 \in 1 .. n
         /\ a - 100 * (a \div 100) \in 0 .. 99
         /\ \/ a - 100 * (a \div 100) = 0 /\ (a + 99) \div 100 = a \div 100
            \/ a - 100 * (a \div 100) # 0 /\ (a + 99) \div 100 = a \div 100 + 1
  OBVIOUS

(* A larger share of a difference is larger.                                *)
LEMMA Shares ==
  ASSUME NEW d \in Nat, NEW f \in Nat, NEW g \in Nat, f <= g
  PROVE  f * d <= g * d /\ f * d \in Nat /\ g * d \in Nat
  <1>1. PICK h \in Nat : g = f + h
    <2>1. g - f \in Nat /\ g = f + (g - f)
      OBVIOUS
    <2> QED
      BY <2>1
  <1>2. g * d = f * d + h * d
    BY <1>1, SMT
  <1>3. f * d \in Nat /\ h * d \in Nat
    BY SMT
  <1> QED
    BY <1>2, <1>3

LEMMA PointBetween ==
  ASSUME NEW n \in Nat \ {0}, NEW s, Climbs(n, s), NEW a \in 0 .. 100 * (n - 1)
  PROVE  /\ Cell(s, a) \in Nat /\ NextCell(s, a) \in Nat /\ Point(s, a) \in Nat
         /\ Cell(s, a) <= NextCell(s, a)
         /\ 100 * Cell(s, a) <= Point(s, a)
         /\ Point(s, a) <= 100 * NextCell(s, a)
  <1>1. /\ a \div 100 + 1 \in 1 .. n /\ (a + 99) \div 100 + 1 \in 1 .. n
        /\ a \div 100 + 1 <= (a + 99) \div 100 + 1
    BY RankCells
  <1>2. /\ Cell(s, a) \in Nat /\ NextCell(s, a) \in Nat
        /\ Cell(s, a) <= NextCell(s, a)
    BY <1>1 DEF Climbs, Cell, NextCell
  <1> DEFINE f == a - 100 * (a \div 100)
             d == NextCell(s, a) - Cell(s, a)
  <1>3. f \in Nat /\ f <= 100 /\ d \in Nat
    BY <1>2, RankCells
  <1>4. Point(s, a) = 100 * Cell(s, a) + f * d
    BY DEF Point
  <1> HIDE DEF f
  <1>5. f * d <= 100 * d /\ f * d \in Nat
    <2> HIDE DEF d
    <2> QED
      BY <1>3, Shares
  <1>6. 100 * Cell(s, a) + 100 * d = 100 * NextCell(s, a)
    BY <1>2
  <1> HIDE DEF d
  <1> QED
    BY <1>2, <1>3, <1>4, <1>5, <1>6

LEMMA PointGrows ==
  ASSUME NEW n \in Nat \ {0}, NEW s, Climbs(n, s),
         NEW a \in 0 .. 100 * (n - 1), NEW b \in 0 .. 100 * (n - 1), a <= b
  PROVE  Point(s, a) <= Point(s, b)
  <1>1. /\ Point(s, a) \in Nat /\ Point(s, b) \in Nat
        /\ Cell(s, b) \in Nat /\ NextCell(s, a) \in Nat
        /\ Point(s, a) <= 100 * NextCell(s, a)
        /\ 100 * Cell(s, b) <= Point(s, b)
    BY PointBetween
  <1>2. CASE a \div 100 = b \div 100
    <2> DEFINE f == a - 100 * (a \div 100)
               g == b - 100 * (b \div 100)
               d == NextCell(s, b) - Cell(s, b)
    <2>1. f \in Nat /\ g \in Nat /\ f <= g
      BY <1>2, RankCells
    <2>2. d \in Nat /\ Cell(s, a) = Cell(s, b) /\ Cell(s, b) \in Nat
      BY <1>2, PointBetween DEF Cell
    <2>3. Point(s, b) = 100 * Cell(s, b) + g * d
      BY DEF Point
    <2>4. Point(s, a) = 100 * Cell(s, b) + f * d
      <3>1. CASE f = 0
        <4>1. Point(s, a) = 100 * Cell(s, a) + 0 * (NextCell(s, a) - Cell(s, a))
          BY <3>1 DEF Point
        <4>2. NextCell(s, a) - Cell(s, a) \in Int
          BY PointBetween
        <4> HIDE DEF d
        <4> QED
          BY <2>2, <3>1, <4>1, <4>2
      <3>2. CASE f # 0
        <4>1. (a + 99) \div 100 = a \div 100 + 1
          BY <3>2, RankCells
        <4>2. (b + 99) \div 100 = b \div 100 + 1
          BY <2>1, <3>2, RankCells
        <4>3. NextCell(s, a) = NextCell(s, b)
          BY <1>2, <4>1, <4>2 DEF NextCell
        <4> QED
          BY <2>2, <4>3 DEF Point
      <3> QED
        BY <3>1, <3>2
    <2> HIDE DEF f, g, d
    <2>5. f * d <= g * d /\ f * d \in Nat /\ g * d \in Nat
      BY <2>1, <2>2, Shares
    <2> QED
      BY <2>2, <2>3, <2>4, <2>5
  <1>3. CASE a \div 100 # b \div 100
    <2>1. /\ (a + 99) \div 100 + 1 \in 1 .. n /\ b \div 100 + 1 \in 1 .. n
          /\ (a + 99) \div 100 + 1 <= b \div 100 + 1
      BY <1>3, RankCells
    <2>2. NextCell(s, a) <= Cell(s, b)
      BY <2>1 DEF Climbs, Cell, NextCell
    <2> QED
      BY <1>1, <2>2
  <1> QED
    BY <1>2, <1>3

(* A percentile is the point at its share of n - 1.                         *)
LEMMA ShareOfRanks ==
  ASSUME NEW n \in Nat \ {0}, NEW p \in 0 .. 100
  PROVE  p * (n - 1) \in 0 .. 100 * (n - 1)
  BY Shares

LEMMA PercentileIsPoint ==
  ASSUME NEW n \in Nat \ {0}, NEW s, Climbs(n, s), NEW p \in 0 .. 100
  PROVE  Percentile(s, p) = Point(s, p * (n - 1))
  <1>1. Len(s) = n
    BY DEF Climbs
  <1> DEFINE rank == p * (n - 1)
  <1>2. rank \in 0 .. 100 * (n - 1)
    BY ShareOfRanks
  <1>3. Percentile(s, p) =
          CASE n = 0 -> 0
            [] n = 1 -> 100 * s[1]
            [] n > 1 /\ rank \div 100 = (rank + 99) \div 100 -> 100 * Cell(s, rank)
            [] OTHER -> Point(s, rank)
    BY <1>1 DEF Percentile, Point, Cell, NextCell
  <1>4. Cell(s, rank) \in Nat /\ NextCell(s, rank) \in Nat
    BY <1>2, PointBetween
  <1>5. CASE n = 1
    <2>1. rank = 0 /\ 0 \div 100 = 0 /\ 0 + 99 = 99 /\ 99 \div 100 = 0
      BY <1>5
    <2> HIDE DEF rank
    <2>2. Point(s, rank) = 100 * s[1] /\ Percentile(s, p) = 100 * s[1]
      BY <1>3, <1>4, <1>5, <2>1 DEF Point, Cell, NextCell
    <2> QED
      BY <2>2 DEF rank
  <1>6. CASE n # 1
    <2> HIDE DEF rank
    <2>1. CASE rank \div 100 = (rank + 99) \div 100
      <3>1. rank - 100 * (rank \div 100) = 0
        BY <1>2, <2>1, RankCells
      <3>2. Point(s, rank) = 100 * Cell(s, rank)
        BY <1>4, <3>1 DEF Point
      <3>3. Percentile(s, p) = 100 * Cell(s, rank)
        BY <1>3, <1>6, <2>1
      <3> QED
        BY <3>2, <3>3 DEF rank
    <2>2. CASE rank \div 100 # (rank + 99) \div 100
      <3>1. Percentile(s, p) = Point(s, rank)
        BY <1>3, <1>6, <2>2
      <3> QED
        BY <3>1 DEF rank
    <2> QED
      BY <2>1, <2>2
  <1> QED
    BY <1>5, <1>6

LEMMA PercentilesClimb ==
  ASSUME NEW n \in Nat \ {0}, NEW s, Climbs(n, s)
  PROVE  /\ 100 * s[1] <= Percentile(s, 50)
         /\ Percentile(s, 50) <= Percentile(s, 95)
         /\ Percentile(s, 95) <= Percentile(s, 99)
         /\ Percentile(s, 99) <= 100 * s[n]
  <1>1. ASSUME NEW p \in 0 .. 100, NEW q \in 0 .. 100, p <= q
        PROVE  Percentile(s, p) <= Percentile(s, q)
    <2>1. p * (n - 1) <= q * (n - 1)
      BY <1>1, Shares
    <2>2. Point(s, p * (n - 1)) <= Point(s, q * (n - 1))
      BY <2>1, ShareOfRanks, PointGrows
    <2> QED
      BY <2>2, PercentileIsPoint
  <1>2. 50 \in 0 .. 100 /\ 95 \in 0 .. 100 /\ 99 \in 0 .. 100
    OBVIOUS
  <1>3. 100 * s[1] <= Percentile(s, 50)
    <2>1. 0 \in 0 .. 100 * (n - 1) /\ 50 * (n - 1) \in 0 .. 100 * (n - 1)
      OBVIOUS
    <2>2. 100 * Cell(s, 0) <= Point(s, 0) /\ Cell(s, 0) = s[1]
      BY <2>1, PointBetween DEF Cell
    <2>3. Point(s, 0) <= Point(s, 50 * (n - 1))
      BY <2>1, PointGrows
    <2>4. Point(s, 0) \in Nat /\ Point(s, 50 * (n - 1)) \in Nat /\ s[1] \in Nat
      BY <2>1, <2>2, PointBetween
    <2>5. Percentile(s, 50) = Point(s, 50 * (n - 1))
      BY <1>2, PercentileIsPoint
    <2> QED
      BY <2>2, <2>3, <2>4, <2>5
  <1>4. Percentile(s, 99) <= 100 * s[n]
    <2>1. 99 * (n - 1) \in 0 .. 100 * (n - 1)
      OBVIOUS
    <2>2. /\ Point(s, 99 * (n - 1)) <= 100 * NextCell(s, 99 * (n - 1))
          /\ Point(s, 99 * (n - 1)) \in Nat /\ NextCell(s, 99 * (n - 1)) \in Nat
      BY <2>1, PointBetween
    <2>3. (99 * (n - 1) + 99) \div 100 + 1 \in 1 .. n
      BY <2>1, RankCells
    <2>4. NextCell(s, 99 * (n - 1)) <= s[n] /\ s[n] \in Nat
      BY <2>3 DEF NextCell, Climbs
    <2>5. Percentile(s, 99) = Point(s, 99 * (n - 1))
      BY <1>2, PercentileIsPoint
    <2> QED
      BY <2>2, <2>4, <2>5
  <1> QED
    BY <1>1, <1>2, <1>3, <1>4

-----------------------------------------------------------------------------
(* What PostgreSQL ranks and what the cache sorts.                          *)

(* The calls of a set, in the order of their latencies.                     *)
Lined(n, set, line) ==
  /\ line \in Bijection(1 .. n, set)
  /\ \A i, j \in 1 .. n : i <= j => Call[line[i]].latency <= Call[line[j]].latency

Below(set, v) == {c \in set : Call[c].latency < v}

UpTo(set, v) == {c \in set : Call[c].latency <= v}

LEMMA LatencyType == \A c \in Calls : Call[c].latency \in Nat
  BY CallAssumption DEF CallType

(* The first m of a line of n are m.                                        *)
LEMMA FirstOfLine ==
  ASSUME NEW n \in Nat, NEW set, NEW line \in Bijection(1 .. n, set),
         NEW m \in 0 .. n
  PROVE  /\ IsFiniteSet({line[i] : i \in 1 .. m})
         /\ Cardinality({line[i] : i \in 1 .. m}) = m
  <1> DEFINE first == [i \in 1 .. m |-> line[i]]
             image == {line[i] : i \in 1 .. m}
  <1>1. line \in [1 .. n -> set] /\ \A i, j \in 1 .. n : line[i] = line[j] => i = j
    BY DEF Bijection, Injection, IsInjective
  <1>2. \A i \in 1 .. m : i \in 1 .. n
    OBVIOUS
  <1>3. first \in Bijection(1 .. m, image)
    BY <1>1, <1>2 DEF Bijection, Injection, Surjection, IsInjective
  <1>4. IsFiniteSet(1 .. m) /\ Cardinality(1 .. m) = m
    BY IntervalSize
  <1>5. ExistsBijection(1 .. m, image)
    BY <1>3 DEF ExistsBijection
  <1> HIDE DEF image
  <1>6. IsFiniteSet(image) /\ Cardinality(image) = m
    BY <1>4, <1>5, FS_Bijection
  <1> QED
    BY <1>6 DEF image

LEMMA RankedIsLined ==
  ASSUME NEW n \in Nat, NEW set \in SUBSET Calls, NEW line, Lined(n, set, line),
         NEW r \in 1 .. n
  PROVE  Ranked(set, r) = Call[line[r]].latency
  <1> DEFINE values == {Call[c].latency : c \in set}
             Right(v) == /\ Cardinality(Below(set, v)) < r
                         /\ Cardinality(UpTo(set, v)) >= r
             own == Call[line[r]].latency
  <1>1. /\ line \in [1 .. n -> set]
        /\ \A c \in set : \E i \in 1 .. n : line[i] = c
    BY DEF Lined, Bijection, Injection, Surjection
  <1>0. \A m \in 0 .. n : /\ IsFiniteSet({line[i] : i \in 1 .. m})
                          /\ Cardinality({line[i] : i \in 1 .. m}) = m
    <2>1. line \in Bijection(1 .. n, set)
      BY DEF Lined
    <2> QED
      BY ONLY <2>1, n \in Nat, FirstOfLine
  <1>2. line[r] \in set /\ own \in values
    BY <1>1
  <1>3. IsFiniteSet(set)
    <2>1. IsFiniteSet({line[i] : i \in 1 .. n})
      BY <1>0
    <2>2. set \subseteq {line[i] : i \in 1 .. n}
      BY <1>1
    <2> QED
      BY <2>1, <2>2, FS_Subset
  <1>4. ASSUME NEW v
        PROVE  /\ IsFiniteSet(Below(set, v)) /\ Cardinality(Below(set, v)) \in Nat
               /\ IsFiniteSet(UpTo(set, v)) /\ Cardinality(UpTo(set, v)) \in Nat
    <2>1. Below(set, v) \subseteq set /\ UpTo(set, v) \subseteq set
      BY DEF Below, UpTo
    <2> QED
      BY <1>3, <2>1, FS_Subset, FS_CardinalityType
  <1>5. Right(own)
    <2>1. Below(set, own) \subseteq {line[i] : i \in 1 .. r - 1}
      <3> SUFFICES ASSUME NEW c \in set, Call[c].latency < own
                   PROVE  c \in {line[i] : i \in 1 .. r - 1}
        BY DEF Below
      <3>1. PICK i \in 1 .. n : line[i] = c
        BY <1>1
      <3>2. Call[line[i]].latency \in Nat /\ own \in Nat
        BY <1>2, <3>1, LatencyType
      <3>3. ~(r <= i)
        BY <3>1, <3>2 DEF Lined
      <3>4. i \in 1 .. r - 1
        BY <3>3
      <3> QED
        BY <3>1, <3>4
    <2>2. /\ IsFiniteSet({line[i] : i \in 1 .. r - 1})
          /\ Cardinality({line[i] : i \in 1 .. r - 1}) = r - 1
      <3>1. r - 1 \in 0 .. n
        OBVIOUS
      <3> QED
        BY <1>0, <3>1
    <2>3. Cardinality(Below(set, own)) <= r - 1
      BY <2>1, <2>2, FS_Subset
    <2>4. {line[i] : i \in 1 .. r} \subseteq UpTo(set, own)
      <3> SUFFICES ASSUME NEW i \in 1 .. r PROVE line[i] \in UpTo(set, own)
        OBVIOUS
      <3>1. i \in 1 .. n /\ i <= r
        OBVIOUS
      <3> QED
        BY <1>1, <3>1 DEF Lined, UpTo
    <2>5. Cardinality({line[i] : i \in 1 .. r}) = r
      <3>1. r \in 0 .. n
        OBVIOUS
      <3> QED
        BY <1>0, <3>1
    <2>6. r <= Cardinality(UpTo(set, own))
      BY <1>4, <2>4, <2>5, FS_Subset
    <2> QED
      BY <1>4, <2>3, <2>6
  <1>6. ASSUME NEW v \in values, NEW u \in values, Right(v), Right(u), v < u
        PROVE  FALSE
    <2>1. UpTo(set, v) \subseteq Below(set, u)
      <3>1. \A c \in set : Call[c].latency \in Nat
        BY LatencyType
      <3>2. v \in Nat /\ u \in Nat
        BY <3>1
      <3> QED
        BY <1>6, <3>1, <3>2 DEF UpTo, Below
    <2>2. Cardinality(UpTo(set, v)) <= Cardinality(Below(set, u))
      BY <1>4, <2>1, FS_Subset
    <2> QED
      BY <1>4, <1>6, <2>2
  <1>7. Ranked(set, r) = CHOOSE v \in values : Right(v)
    BY DEF Ranked, Total, Below, UpTo
  <1>8. Ranked(set, r) \in values /\ Right(Ranked(set, r))
    <2> HIDE DEF values, Right, own
    <2> QED
      BY <1>2, <1>5, <1>7
  <1>9. Ranked(set, r) \in Nat /\ own \in Nat
    BY <1>2, <1>8, LatencyType
  <1> HIDE DEF values, Right, own
  <1>10. ~(Ranked(set, r) < own) /\ ~(own < Ranked(set, r))
    BY <1>2, <1>5, <1>6, <1>8
  <1>11. Ranked(set, r) = own
    BY <1>9, <1>10
  <1> QED
    BY <1>11 DEF own

(* PERCENTILE_CONT of a set is the point among its latencies in order.      *)
LEMMA ContIsPoint ==
  ASSUME NEW n \in Nat \ {0}, NEW set \in SUBSET Calls, NEW line,
         Lined(n, set, line), NEW s, Climbs(n, s), Cardinality(set) = n,
         \A i \in 1 .. n : s[i] = Call[line[i]].latency, NEW p \in 0 .. 100
  PROVE  PercentileCont(set, p) = Point(s, p * (n - 1))
  <1> DEFINE a == p * (n - 1)
             row == 100 + a
  <1>1. a \in 0 .. 100 * (n - 1)
    BY ShareOfRanks
  <1>2. PercentileCont(set, p) =
          IF row \div 100 = (row + 99) \div 100
          THEN 100 * Ranked(set, row \div 100)
          ELSE (100 * ((row + 99) \div 100) - row) * Ranked(set, row \div 100)
                 + (row - 100 * (row \div 100)) * Ranked(set, (row + 99) \div 100)
    BY DEF PercentileCont, Total
  <1> HIDE DEF a
  <1>3. /\ row \div 100 = a \div 100 + 1
        /\ (row + 99) \div 100 = (a + 99) \div 100 + 1
    BY <1>1
  <1>4. /\ row \div 100 \in 1 .. n /\ (row + 99) \div 100 \in 1 .. n
    BY <1>1, <1>3, RankCells
  <1>5. /\ Ranked(set, row \div 100) = Cell(s, a)
        /\ Ranked(set, (row + 99) \div 100) = NextCell(s, a)
    <2>1. \A r \in 1 .. n : Ranked(set, r) = s[r]
      BY RankedIsLined
    <2> QED
      BY <1>3, <1>4, <2>1 DEF Cell, NextCell
  <1>6. Cell(s, a) \in Nat /\ NextCell(s, a) \in Nat
    BY <1>1, PointBetween
  <1> DEFINE f == a - 100 * (a \div 100)
  <1>7. CASE f = 0
    <2>1. row \div 100 = (row + 99) \div 100
      BY <1>1, <1>3, <1>7, RankCells
    <2>2. Point(s, a) = 100 * Cell(s, a)
      BY <1>6, <1>7 DEF Point
    <2> QED
      BY <1>2, <1>5, <2>1, <2>2 DEF a
  <1>8. CASE f # 0
    <2>1. (a + 99) \div 100 = a \div 100 + 1 /\ f \in 0 .. 99
      BY <1>1, <1>8, RankCells
    <2>2. row - 100 * (row \div 100) = f
      BY <1>1, <1>3
    <2>3. 100 * ((row + 99) \div 100) - row = 100 - f
      BY <1>1, <1>3, <2>1
    <2>4. row \div 100 # (row + 99) \div 100
      BY <1>1, <1>3, <2>1
    <2>5. PercentileCont(set, p) = (100 - f) * Cell(s, a) + f * NextCell(s, a)
      BY <1>2, <1>5, <2>2, <2>3, <2>4
    <2>6. Point(s, a) = 100 * Cell(s, a) + f * (NextCell(s, a) - Cell(s, a))
      BY DEF Point
    <2> HIDE DEF f
    <2>7. (100 - f) * Cell(s, a) + f * NextCell(s, a) =
            100 * Cell(s, a) + f * (NextCell(s, a) - Cell(s, a))
      BY <1>6, <2>1, SMT
    <2> QED
      BY <2>5, <2>6, <2>7 DEF a
  <1> QED
    BY <1>7, <1>8

(* The latencies of a list are its samples' in some order.                  *)
LEMMA LatenciesRight ==
  ASSUME TypeInv, NEW k \in LatencyKeys
  PROVE  \E order :
           /\ Len(samples[k]) \in Nat \ {0}
           /\ order \in Bijection(1 .. Len(samples[k]), 1 .. Len(samples[k]))
           /\ Climbs(Len(samples[k]), Latencies(k))
           /\ \A i \in 1 .. Len(samples[k]) :
                Latencies(k)[i] = Call[samples[k][order[i]]].latency
  <1> DEFINE n == Len(samples[k])
             list == [i \in 1 .. n |-> Call[samples[k][i]].latency]
  <1>1. samples[k] \in Seq(Calls) /\ samples[k] # << >>
    BY DEF LatencyKeys, TypeInv, TypeOK
  <1>2. n \in Nat \ {0} /\ DOMAIN samples[k] = 1 .. n
    BY <1>1
  <1>3. \A i \in 1 .. n : samples[k][i] \in Calls
    BY <1>1
  <1>4. list \in [1 .. n -> Nat]
    BY <1>3, LatencyType
  <1>5. Latencies(k) = Ascending(list)
    BY <1>2 DEF Latencies
  <1> HIDE DEF n
  <1>6. PICK order : /\ Rising(n, list, order)
                     /\ Ascending(list) = [i \in 1 .. n |-> list[order[i]]]
    <2> HIDE DEF list
    <2> QED
      BY <1>2, <1>4, AscendingRight
  <1>7. /\ order \in Bijection(1 .. n, 1 .. n)
        /\ \A i, j \in 1 .. n : i <= j => list[order[i]] <= list[order[j]]
    BY <1>6 DEF Rising
  <1>8. order \in [1 .. n -> 1 .. n]
    BY <1>7, Permuted
  <1>9. \A i \in 1 .. n : Latencies(k)[i] = Call[samples[k][order[i]]].latency
    BY <1>5, <1>6, <1>8
  <1>10. Climbs(n, Latencies(k))
    <2>1. Latencies(k) = [i \in 1 .. n |-> list[order[i]]]
      BY <1>5, <1>6
    <2> HIDE DEF list
    <2>2. Latencies(k) \in [1 .. n -> Nat]
      BY <1>4, <1>8, <2>1
    <2> QED
      BY <1>7, <2>1, <2>2 DEF Climbs
  <1> QED
    BY <1>2, <1>7, <1>9, <1>10 DEF n

(* A list with the calls of a set, each once, lines them up.                *)
LEMMA ListLinesUp ==
  ASSUME NEW n \in Nat, NEW list \in [1 .. n -> Calls], NEW set,
         set = {list[i] : i \in 1 .. n}, Cardinality(set) = n,
         NEW order \in Bijection(1 .. n, 1 .. n),
         \A i, j \in 1 .. n :
           i <= j => Call[list[order[i]]].latency <= Call[list[order[j]]].latency,
         NEW line, line = [i \in 1 .. n |-> list[order[i]]]
  PROVE  Lined(n, set, line)
  <1>1. /\ order \in [1 .. n -> 1 .. n]
        /\ \A i, j \in 1 .. n : order[i] = order[j] => i = j
        /\ \A t \in 1 .. n : \E i \in 1 .. n : order[i] = t
    BY Permuted
  <1>2. IsFiniteSet(1 .. n) /\ Cardinality(1 .. n) = n
    BY IntervalSize
  <1>3. list \in Surjection(1 .. n, set)
    BY DEF Surjection
  <1>4. list \in Injection(1 .. n, set)
    BY <1>2, <1>3, FS_Surjection
  <1>5. \A i, j \in 1 .. n : list[i] = list[j] => i = j
    BY <1>4 DEF Injection, IsInjective
  <1>6. line \in [1 .. n -> set]
    BY <1>1
  <1>7. \A i, j \in 1 .. n : line[i] = line[j] => i = j
    <2> SUFFICES ASSUME NEW i \in 1 .. n, NEW j \in 1 .. n, line[i] = line[j]
                 PROVE  i = j
      OBVIOUS
    <2>1. order[i] \in 1 .. n /\ order[j] \in 1 .. n
      BY ONLY <1>1, i \in 1 .. n, j \in 1 .. n
    <2>2. line[i] = list[order[i]] /\ line[j] = list[order[j]]
      OBVIOUS
    <2>3. order[i] = order[j]
      BY <1>5, <2>1, <2>2
    <2> QED
      BY <1>1, <2>3
  <1>8. \A c \in set : \E i \in 1 .. n : line[i] = c
    BY <1>1
  <1>9. \A i, j \in 1 .. n : i <= j => Call[line[i]].latency <= Call[line[j]].latency
    OBVIOUS
  <1>10. line \in Bijection(1 .. n, set)
    BY ONLY <1>6, <1>7, <1>8, BijectionMade
  <1> QED
    BY <1>9, <1>10 DEF Lined

LEMMA SamePercentile ==
  ASSUME TypeInv, NEW k \in LatencyKeys, NEW set,
         ToSet(samples[k]) = set, Len(samples[k]) = Total(set)
  PROVE  Percentile(Latencies(k), 95) = PercentileCont(set, 95)
  <1> DEFINE n == Len(samples[k])
             s == Latencies(k)
  <1>1. PICK order :
          /\ n \in Nat \ {0} /\ order \in Bijection(1 .. n, 1 .. n)
          /\ Climbs(n, s)
          /\ \A i \in 1 .. n : s[i] = Call[samples[k][order[i]]].latency
    BY LatenciesRight
  <1>2. samples[k] \in Seq(Calls)
    BY DEF LatencyKeys, TypeInv, TypeOK
  <1>3. samples[k] \in [1 .. n -> Calls] /\ set = {samples[k][i] : i \in 1 .. n}
    BY <1>2 DEF ToSet
  <1>4. set \in SUBSET Calls /\ Cardinality(set) = n
    BY <1>3 DEF Total
  <1>5. order \in [1 .. n -> 1 .. n]
    BY <1>1, Permuted
  <1>6. \A i, j \in 1 .. n : i <= j =>
          Call[samples[k][order[i]]].latency <= Call[samples[k][order[j]]].latency
    BY <1>1 DEF Climbs
  <1> DEFINE list == samples[k]
             line == [i \in 1 .. n |-> list[order[i]]]
  <1>11. \A i, j \in 1 .. n :
          i <= j => Call[list[order[i]]].latency <= Call[list[order[j]]].latency
    BY <1>6
  <1>12. list \in [1 .. n -> Calls] /\ set = {list[i] : i \in 1 .. n}
    BY <1>3
  <1>13. line = [i \in 1 .. n |-> list[order[i]]]
    OBVIOUS
  <1> HIDE DEF n, s, list, line
  <1>7. Lined(n, set, line)
    BY ONLY <1>1, <1>4, <1>11, <1>12, <1>13, ListLinesUp
  <1>8. \A i \in 1 .. n : s[i] = Call[line[i]].latency
    BY <1>1 DEF list, line
  <1>9. PercentileCont(set, 95) = Point(s, 95 * (n - 1))
    BY <1>1, <1>4, <1>7, <1>8, ContIsPoint
  <1>10. Percentile(s, 95) = Point(s, 95 * (n - 1))
    BY <1>1, PercentileIsPoint
  <1> QED
    BY <1>9, <1>10 DEF s

LEMMA PercentilesHold == TypeInv => PercentilesRight
  <1> SUFFICES ASSUME TypeInv PROVE PercentilesRight
    OBVIOUS
  <1>1. ASSUME NEW k \in LatencyKeys
        PROVE  /\ 100 * Latencies(k)[1] <= Percentile(Latencies(k), 50)
               /\ Percentile(Latencies(k), 50) <= Percentile(Latencies(k), 95)
               /\ Percentile(Latencies(k), 95) <= Percentile(Latencies(k), 99)
               /\ Percentile(Latencies(k), 99)
                    <= 100 * Latencies(k)[Len(Latencies(k))]
    <2> DEFINE n == Len(samples[k])
               s == Latencies(k)
    <2>1. n \in Nat \ {0} /\ Climbs(n, s)
      BY LatenciesRight
    <2> HIDE DEF n, s
    <2>2. Len(s) = n
      BY <2>1 DEF Climbs
    <2>3. /\ 100 * s[1] <= Percentile(s, 50)
          /\ Percentile(s, 50) <= Percentile(s, 95)
          /\ Percentile(s, 95) <= Percentile(s, 99)
          /\ Percentile(s, 99) <= 100 * s[n]
      BY <2>1, PercentilesClimb
    <2> QED
      BY <2>2, <2>3 DEF s
  <1>2. ASSUME NEW k \in LatencyKeys,
               NEW g \in GetProviderComparison(SummarySpan(0)),
               NEW group,
               group = {c \in RowsSince(SummarySpan(0)) :
                          Call[c].provider = g.provider},
               ToSet(samples[k]) = group, Len(samples[k]) = g.total
        PROVE  Percentile(Latencies(k), 95) = g.p95
    <2>1. g.total = Total(group) /\ g.p95 = PercentileCont(group, 95)
      <3> DEFINE Group(p) == {c \in RowsSince(SummarySpan(0)) :
                                Call[c].provider = p}
      <3>1. PICK p : g = [provider |-> p, total |-> Total(Group(p)),
                          latency |-> SumOf("latency", Group(p)),
                          cost |-> SumOf("cost", Group(p)),
                          errors |-> Errors(Group(p)),
                          p95 |-> PercentileCont(Group(p), 95)]
        BY <1>2, Zenon DEF GetProviderComparison
      <3> HIDE DEF Group
      <3>2. /\ g.provider = p /\ g.total = Total(Group(p))
            /\ g.p95 = PercentileCont(Group(p), 95)
        BY <3>1
      <3>3. group = Group(p)
        BY <1>2, <3>2 DEF Group
      <3> QED
        BY <3>2, <3>3
    <2> QED
      BY <1>2, <2>1, SamePercentile
  <1> QED
    BY <1>1, <1>2 DEF PercentilesRight

(* For any latencies and list lengths: percentiles are in order, within the *)
(* samples, and p95 over the same calls is what PERCENTILE_CONT gives.      *)
THEOREM PercentilesAreRight == Spec => []PercentilesRight
  <1>1. Init => TypeInv
    BY TypeInit DEF TypeInv
  <1> QED
    BY <1>1, TypeNext, PercentilesHold, PTL DEF Spec
=============================================================================
