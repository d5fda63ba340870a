--------------------------- MODULE PartitionedCalls ---------------------------
(***************************************************************************)
(* The day partitions of llm_calls (internal/db): the table is created by  *)
(* the migrations the API server runs when it starts, with a default       *)
(* partition; the partition of a day is created by EnsurePartition, which  *)
(* the API calls when it starts, the consumer before every insert, and the *)
(* consumer's maintenance goroutine every hour for some days ahead.  Each  *)
(* process remembers in memory which partitions it has ensured.            *)
(*                                                                         *)
(* A step is one statement sent to PostgreSQL with what the code does up   *)
(* to the next one; the consume loop and the maintenance of one process    *)
(* interleave.  PostgreSQL routes a row to the partition of its day, or to *)
(* the default one, and refuses to create a partition for a day of which   *)
(* the default one holds rows.  An event is its day here: whether it is new *)
(* or stored already is EventConsumer's matter.                            *)
(***************************************************************************)
EXTENDS Integers, FiniteSets

CONSTANTS
  Consumers,   (* consumer processes                                       *)
  Api,         (* the API server                                           *)
  LastDay,     (* bound: the last day the clock reaches                    *)
  EventDays,   (* days on which the clients' stamps fall                   *)
  MaxFaults    (* bound: statements PostgreSQL fails to answer             *)

ASSUME ApiAssumption == Api \notin Consumers
ASSUME DaysAssumption == LastDay \in Nat /\ MaxFaults \in Nat

Processes == Consumers \union {Api}

(* Partitions are kept for today, tomorrow and the day after. *)
DaysAhead == 3

Days == 0 .. LastDay + 2

ASSUME EventDaysAssumption == EventDays \subseteq Days

VARIABLES
  today,      (* the day of the clock                                      *)
  migrated,   (* llm_calls and its default partition exist                 *)
  parts,      (* days whose partition exists                               *)
  inDefault,  (* days of the rows in the default partition                 *)
  known,      (* PostgresStore.partitions of each process                  *)
  api,        (* the start of the API server, and the day it began         *)
  published,  (* days of the events in the topic                           *)
  task,       (* the event a consumer is at, and the call it makes next    *)
  sweep,      (* maintenance: the day it began, days it has ensured        *)
  failed,     (* history: days whose EnsurePartition once went unanswered  *)
  faults      (* faults so far                                             *)

tableVars == <<migrated, parts, inDefault>>
vars == <<today, tableVars, known, api, published, task, sweep, failed, faults>>

NoTask == [stage |-> "idle", day |-> 0]

Init ==
  /\ today = 0
  /\ migrated = FALSE
  /\ parts = {}
  /\ inDefault = {}
  /\ known = [p \in Processes |-> {}]
  /\ api = [stage |-> "migrate", day |-> 0]
  /\ published = {}
  /\ task = [w \in Consumers |-> NoTask]
  /\ sweep = [w \in Consumers |-> [day |-> 0, at |-> 0]]
  /\ failed = {}
  /\ faults = 0

Fault == faults < MaxFaults /\ faults' = faults + 1

-----------------------------------------------------------------------------
(* EnsurePartition for the day d in the process p, its statement. *)

(* CREATE TABLE IF NOT EXISTS ... PARTITION OF llm_calls goes through. *)
Creatable(d) ==
  /\ migrated
  /\ d \in parts \/ d \notin inDefault

(* Wrong variant: the day is remembered whatever the answer. *)
NotEnsuredRemembered(p, d) ==
  /\ \/ ~Creatable(d) /\ UNCHANGED <<parts, failed, faults>>
     \/ /\ Fault
        /\ failed' = failed \union {d}
        /\ parts' \in {parts} \union (IF Creatable(d) THEN {parts \union {d}} ELSE {})
  /\ known' = [known EXCEPT ![p] = @ \union {d}]

Created(p, d) ==
  /\ Creatable(d)
  /\ parts' = parts \union {d}
  /\ known' = [known EXCEPT ![p] = @ \union {d}]
  /\ UNCHANGED <<failed, faults>>

(* It does not, or its outcome is lost; the day is not remembered. *)
NotEnsured(p, d) ==
  /\ \/ ~Creatable(d) /\ UNCHANGED <<parts, failed, faults>>
     \/ /\ Fault
        /\ failed' = failed \union {d}
        /\ parts' \in {parts} \union (IF Creatable(d) THEN {parts \union {d}} ELSE {})
  /\ UNCHANGED known

EnsurePartition(p, d) ==
  /\ Created(p, d) \/ NotEnsured(p, d)
  /\ UNCHANGED <<today, migrated, inDefault, published>>

-----------------------------------------------------------------------------
(* The start of the API server: migrations, the partitions of today and     *)
(* tomorrow, the HTTP server.  An error of the migrations ends the process. *)

ApiAt(stage) == api' = [api EXCEPT !.stage = stage]

(* Wrong variant: an error of the migrations is only logged. *)
RunMigrationsLogged ==
  /\ api.stage = "migrate"
  /\ migrated' \in {migrated, TRUE}
  /\ api' = [stage |-> "today", day |-> today]
  /\ UNCHANGED <<today, parts, inDefault, known, published, task, sweep,
                 failed, faults>>

RunMigrations ==
  /\ api.stage = "migrate"
  /\ migrated' = TRUE
  /\ api' = [stage |-> "today", day |-> today]
  /\ UNCHANGED <<today, parts, inDefault, known, published, task, sweep,
                 failed, faults>>

EnsureToday ==
  /\ api.stage = "today"
  /\ ApiAt("tomorrow")
  /\ EnsurePartition(Api, api.day)
  /\ UNCHANGED <<task, sweep>>

EnsureTomorrow ==
  /\ api.stage = "tomorrow"
  /\ ApiAt("serving")
  /\ EnsurePartition(Api, api.day + 1)
  /\ UNCHANGED <<task, sweep>>

(* A client chooses the stamp of its event, and so the day. *)
Publish(d) ==
  /\ api.stage = "serving"
  /\ published' = published \union {d}
  /\ UNCHANGED <<today, tableVars, known, api, task, sweep, failed, faults>>

-----------------------------------------------------------------------------
(* Process: the partition of the event's day, then the row. *)

(* Wrong variant: the maintenance is trusted with the partition. *)
TakeTrusting(w, d) ==
  /\ task[w].stage = "idle"
  /\ d \in published
  /\ task' = [task EXCEPT ![w] = [stage |-> "insert", day |-> d]]
  /\ UNCHANGED <<today, tableVars, known, api, published, sweep, failed, faults>>

(* An event is handed to the processor, a redelivered one again. *)
Take(w, d) ==
  /\ task[w].stage = "idle"
  /\ d \in published
  /\ task' = [task EXCEPT ![w] =
                [stage |-> IF d \in known[w] THEN "insert" ELSE "ensure", day |-> d]]
  /\ UNCHANGED <<today, tableVars, known, api, published, sweep, failed, faults>>

(* The error of EnsurePartition is only logged. *)
EnsureRow(w) ==
  /\ task[w].stage = "ensure"
  /\ task' = [task EXCEPT ![w].stage = "insert"]
  /\ EnsurePartition(w, task[w].day)
  /\ UNCHANGED <<api, sweep>>

(* PostgreSQL puts the row into the partition of its day, or the default one. *)
Routed(d) == inDefault' = IF d \in parts THEN inDefault ELSE inDefault \union {d}

InsertEvent(w) ==
  /\ task[w].stage = "insert"
  /\ task' = [task EXCEPT ![w] = NoTask]
  /\ \/ migrated /\ Routed(task[w].day) /\ UNCHANGED faults
     \/ ~migrated /\ UNCHANGED <<inDefault, faults>>
     \/ Fault /\ UNCHANGED inDefault
  /\ UNCHANGED <<today, migrated, parts, known, api, published, sweep, failed>>

-----------------------------------------------------------------------------
(* runHourlyMaintenance and doMaintenance. *)

(* Wrong variant: the pass goes one day further than it should. *)
SweepOneMore(w) ==
  /\ sweep[w].at <= DaysAhead
  /\ sweep' = [sweep EXCEPT ![w].at = @ + 1]
  /\ UNCHANGED <<api, task>>
  /\ LET d == sweep[w].day + sweep[w].at IN
     IF d \in known[w]
     THEN UNCHANGED <<today, tableVars, known, published, failed, faults>>
     ELSE EnsurePartition(w, d)

(* Wrong variant: the pass leaves out its last day. *)
SweepOneLess(w) ==
  /\ sweep[w].at < DaysAhead
  /\ sweep' = [sweep EXCEPT ![w].at = IF @ = DaysAhead - 2 THEN DaysAhead ELSE @ + 1]
  /\ UNCHANGED <<api, task>>
  /\ LET d == sweep[w].day + sweep[w].at IN
     IF d \in known[w]
     THEN UNCHANGED <<today, tableVars, known, published, failed, faults>>
     ELSE EnsurePartition(w, d)

(* One day of a pass; nothing is sent for a day that is remembered. *)
SweepDay(w) ==
  /\ sweep[w].at < DaysAhead
  /\ sweep' = [sweep EXCEPT ![w].at = @ + 1]
  /\ UNCHANGED <<api, task>>
  /\ LET d == sweep[w].day + sweep[w].at IN
     IF d \in known[w]
     THEN UNCHANGED <<today, tableVars, known, published, failed, faults>>
     ELSE EnsurePartition(w, d)

(* The ticker begins the next pass. *)
BeginSweep(w) ==
  /\ sweep[w].at = DaysAhead
  /\ sweep' = [sweep EXCEPT ![w] = [day |-> today, at |-> 0]]
  /\ UNCHANGED <<today, tableVars, known, api, published, task, failed, faults>>

-----------------------------------------------------------------------------
NextDay ==
  /\ today < LastDay
  /\ today' = today + 1
  /\ UNCHANGED <<tableVars, known, api, published, task, sweep, failed, faults>>

(* A process dies and is started again: it remembers nothing, a consumer    *)
(* begins with a pass, the API with the migrations.                         *)
RestartConsumer(w) ==
  /\ Fault
  /\ known' = [known EXCEPT ![w] = {}]
  /\ task' = [task EXCEPT ![w] = NoTask]
  /\ sweep' = [sweep EXCEPT ![w] = [day |-> today, at |-> 0]]
  /\ UNCHANGED <<today, tableVars, api, published, failed>>

RestartApi ==
  /\ Fault
  /\ known' = [known EXCEPT ![Api] = {}]
  /\ api' = [api EXCEPT !.stage = "migrate"]
  /\ UNCHANGED <<today, tableVars, published, task, sweep, failed>>

Start == RunMigrations \/ EnsureToday \/ EnsureTomorrow

Process(w) == EnsureRow(w) \/ InsertEvent(w)

Maintain(w) == SweepDay(w) \/ BeginSweep(w)

Next ==
  \/ Start \/ RestartApi \/ NextDay
  \/ \E d \in EventDays : Publish(d)
  \/ \E w \in Consumers :
       \/ \E d \in EventDays : Take(w, d)
       \/ Process(w) \/ Maintain(w) \/ RestartConsumer(w)

Spec == Init /\ [][Next]_vars

(* Processes that are started run, the ticker ticks. *)
Fairness ==
  /\ WF_vars(Start)
  /\ \A w \in Consumers : WF_vars(Process(w)) /\ WF_vars(Maintain(w))

FairSpec == Spec /\ Fairness

-----------------------------------------------------------------------------
(* Types; a pass of the maintenance goes through DaysAhead days, no more     *)
(* (doMaintenance of cmd/consumer).                                         *)
TypeOK ==
  /\ today \in 0 .. LastDay
  /\ migrated \in BOOLEAN
  /\ parts \subseteq Days /\ inDefault \subseteq Days
  /\ known \in [Processes -> SUBSET Days]
  /\ api \in [stage : {"migrate", "today", "tomorrow", "serving"}, day : 0 .. LastDay]
  /\ published \subseteq EventDays
  /\ task \in [Consumers -> [stage : {"idle", "ensure", "insert"}, day : Days]]
  /\ sweep \in [Consumers -> [day : 0 .. LastDay, at : 0 .. DaysAhead]]
  /\ failed \subseteq Days
  /\ faults \in 0 .. MaxFaults

(* A process remembers no partition that does not exist: the loop and the   *)
(* maintenance share the cache, and an answer that was lost leaves no entry *)
(* (EnsurePartition of internal/db).                                        *)
KnownExist == \A p \in Processes : known[p] \subseteq parts

(* A row is in the default partition only when a statement that was to      *)
(* create the partition of its day went wrong: the days the API, the loops  *)
(* and the maintenance ensure miss none, past and future stamps included    *)
(* (Process, whose ensure error is only logged).                            *)
DefaultOnlyAfterFault == inDefault \subseteq failed

(* The rows of a day are all in its partition or all in the default one, so *)
(* that what is read of a day's partition is all of the day; PostgreSQL and *)
(* the order of statements keep them apart (EnsurePartition, InsertEvent).  *)
DaysApart == inDefault \intersect parts = {}

(* A day with a row in the default partition never gets a partition of its  *)
(* own any more, whoever tries and however often (doMaintenance).           *)
BlockedForGood == [][inDefault \ parts \subseteq (inDefault \ parts)']_vars

(* A consumer does not wait for the migrations of the API, yet it never     *)
(* inserts into a table that is not there (run of cmd/api, cmd/consumer).   *)
InsertFindsTable ==
  \A w \in Consumers : task[w].stage = "insert" => migrated

(* While a day lasts its partition and those of the two days after it come  *)
(* to exist, or a statement for the missing one failed (doMaintenance of    *)
(* cmd/consumer): a pass that came too early, before the migrations or      *)
(* before midnight, is made up for by a later one.                          *)
MaintenanceEnsures ==
  \A d \in 0 .. LastDay :
    today = d ~> (today > d \/ d .. d + DaysAhead - 1 \subseteq parts \union failed)

(* "Ensure partitions exist for today, tomorrow, and the day after": a day  *)
(* that lasts gets them, and a pass that failed is made up for.             *)
DaysAheadExist ==
  \A d \in 0 .. LastDay :
    today = d ~> (today > d \/ d .. d + DaysAhead - 1 \subseteq parts)
=============================================================================
