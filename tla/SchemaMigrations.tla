--------------------------- MODULE SchemaMigrations ---------------------------
(***************************************************************************)
(* How the payroll database gets its schema (src/mysqlDatabase.js).  The   *)
(* payroll and the dashboard service and the migration command run         *)
(* runBootstrapMigration when they start, and the aggregation and seeding  *)
(* scripts run syncDatabase alone, all of them with nothing between them   *)
(* but the database.  MySQL commits every DDL statement at once, so what a *)
(* process looked up is old when it acts on it, and what it has done stays *)
(* when it dies or fails.                                                  *)
(*                                                                         *)
(* A process runs the instructions of Bootstrap, or of a part of it: "ask" *)
(* skips a migration that is recorded, "look" reads the schema and makes   *)
(* the statements of one step from what it reads, "record" writes the      *)
(* migration down.  Of the summary tables one stands for the three, of the *)
(* legacy columns of pay_rates the rate and its type; the log is that of   *)
(* one mutation.                                                           *)
(***************************************************************************)
EXTENDS Naturals, Sequences

CONSTANTS
  Procs,        \* processes that may be starting at one time
  Olds,         \* the databases there may be at first, names of Databases
  MaxStarts,    \* bound: starts of a process
  MaxWrites     \* bound: writes of the log by the running services

VARIABLES
  db,       \* the schema, the data a migration rewrites, and the record
  proc,     \* where each process is, and what it has left to do there
  starts, writes,
  severed,  \* a process left that had the index of the summaries yet to make,
            \* while it was recorded as made or another process was starting
  rewritten \* the log was written between the choice of its rows to delete
            \* and their deletion

vars == <<db, proc, starts, writes, severed, rewritten>>

-----------------------------------------------------------------------------
(* The schema.                                                             *)

RateColumns == {"employee_id", "pay_rate", "pay_type"}
LegacyColumns == {"value", "type"}
ScopeColumns == {"scope_type", "scope_value"}

\* Two indexes of one name are told apart by their columns.
NameOf(i) == IF i = "scope_other" THEN "scope" ELSE i
Names(idx) == {NameOf(i) : i \in idx}

ColumnsOf(i) ==
  CASE i \in {"scope"}                               -> ScopeColumns
    [] i \in {"log_trace", "log_trace_by_model", "log_unique"} -> {"correlation_id"}
    [] i \in {"history", "history_by_model"}        -> {"employee_id"}
    [] OTHER                                         -> {}

\* What sequelize.sync makes for the models: the tables that are not there,
\* and the indexes whose name no index of the table has.
ModelIndexes == {"history_by_model", "scope", "log_trace_by_model"}

\* A row of the log, with the time of its last write.
Row(id, status, at) == [id |-> id, status |-> status, at |-> at]
Written(log) == {Row(n, log[n], n) : n \in DOMAIN log}

Blank == [present |-> FALSE, cols |-> {}, idx |-> {}, rate |-> "none", kind |-> "none",
          unscoped |-> FALSE, log |-> {}, applied |-> {}]

Full == RateColumns \cup ScopeColumns \cup {"correlation_id"}

\* The databases the code and its tests speak of: none yet; one of an
\* earlier version, bootstrapped before the later migrations were written;
\* one whose summary table was half migrated, with an index of the new
\* name; one made by a script, with nothing recorded.
Databases ==
  [fresh   |-> Blank,
   earlier |-> [Blank EXCEPT !.present = TRUE, !.cols = LegacyColumns,
                  !.idx = {"scope_legacy", "employee_unique"},
                  !.log = Written(<<"FAILED", "PENDING">>), !.applied = {"bootstrap"}],
   partial |-> [Blank EXCEPT !.present = TRUE, !.cols = RateColumns \cup ScopeColumns,
                  !.idx = {"scope_other", "history_by_model"}, !.rate = "kept", !.kind = "kept",
                  !.unscoped = TRUE, !.log = Written(<<"SUCCESS", "FAILED">>),
                  !.applied = {"bootstrap", "payRates"}],
   scripted |-> [Blank EXCEPT !.present = TRUE, !.cols = Full \cup {"value"},
                  !.idx = {"scope_legacy", "history_by_model", "log_trace_by_model",
                           "employee_unique"}, !.rate = "zero", !.kind = "kept",
                  !.log = Written(<<"FAILED", "FAILED">>)]]

-----------------------------------------------------------------------------
(* The statements a step makes of what it reads.                           *)

Add(c) == [do |-> "add", on |-> c]
DropColumn(c) == [do |-> "drop_column", on |-> c]
Create(i) == [do |-> "create", on |-> i]
Drop(i) == [do |-> "drop", on |-> i]
Update(what) == [do |-> "update", on |-> what]

\* The order in which a step runs its statements.
Order ==
  <<Update("tables"),
    Add("employee_id"), Add("pay_rate"), Add("pay_type"),
    Add("scope_type"), Add("scope_value"),
    Update("pay_rate"), Update("pay_type"), Update("scope"),
    DropColumn("value"), DropColumn("type"),
    Drop("scope_other"), Drop("scope_legacy"),
    Drop("employee_unique"), Drop("history_by_model"),
    Create("history_by_model"), Create("scope"), Create("log_trace_by_model"),
    Create("history")>>

Before(s, t) == \E n \in DOMAIN Order : Order[n] = t /\ \E m \in 1 .. n - 1 : Order[m] = s

\* Mutant: the rate is taken over, its type is forgotten.
PayRateStatementsOfRateAlone(d) ==
  {Add(c) : c \in RateColumns \ d.cols}
    \cup (IF "value" \in d.cols THEN {Update("pay_rate")} ELSE {})
    \cup {DropColumn(c) : c \in LegacyColumns \cap d.cols}

\* repairLegacyPayRatesSchema
PayRateStatements(d) ==
  {Add(c) : c \in RateColumns \ d.cols}
    \cup (IF "value" \in d.cols THEN {Update("pay_rate")} ELSE {})
    \cup (IF "type" \in d.cols THEN {Update("pay_type")} ELSE {})
    \cup {DropColumn(c) : c \in LegacyColumns \cap d.cols}

\* ensureDashboardSummaryScopeSupport, up to its indexes
ScopeColumnStatements(d) == {Add(c) : c \in ScopeColumns \ d.cols} \cup {Update("scope")}

\* ensureExactUniqueIndex: all that is not the index wanted but has its
\* name, its columns or those of an earlier version is dropped.
ScopeIndexStatements(d) ==
  {Drop(i) : i \in {"scope_other", "scope_legacy"} \cap d.idx}
    \cup {Create(i) : i \in {"scope"} \ d.idx}

\* ensurePayRateHistorySupport: one index of the history is kept, by
\* preference the one with the name of the migration.
HistoryStatements(d) ==
  {Drop(i) : i \in {"employee_unique"} \cap d.idx}
    \cup (IF "history" \in d.idx THEN {Drop(i) : i \in {"history_by_model"} \cap d.idx}
          ELSE IF "history_by_model" \in d.idx THEN {} ELSE {Create("history")})

\* ensureSyncLogCorrelationTraceSupport
TraceColumnStatements(d) == {Add(c) : c \in {"correlation_id"} \ d.cols}
TraceIndexStatements(d) == {Create(i) : i \in {"log_trace"} \ d.idx}

\* deduplicateSyncLogCorrelationRows: the row with the best status stays, of
\* several the one written last.
Weight(status) == CASE status = "SUCCESS" -> 3 [] status = "PENDING" -> 2 [] OTHER -> 1

Outranks(q, r) ==
  \/ Weight(q.status) > Weight(r.status)
  \/ Weight(q.status) = Weight(r.status) /\ q.at > r.at

DedupeStatements(d) ==
  LET beaten == {r \in d.log : \E q \in d.log : Outranks(q, r)}
  IN IF "correlation_id" \in d.cols /\ beaten # {}
     THEN {[do |-> "delete_rows", on |-> {r.id : r \in beaten}]}
     ELSE {}

\* ensureSyncLogIdempotencySupport, after the rows
LogIndexStatements(d) == {Create(i) : i \in {"log_unique"} \ d.idx}

\* Model.sync of Sequelize
ModelStatements(d) ==
  (IF d.present THEN {} ELSE {Update("tables")})
    \cup {Create(i) : i \in ModelIndexes \ Names(d.idx)}

Statements(step, d) ==
  IF step # "models" /\ ~d.present THEN {}
  ELSE CASE step = "models"        -> ModelStatements(d)
         [] step = "pay_rates"     -> PayRateStatements(d)
         [] step = "scope_columns" -> ScopeColumnStatements(d)
         [] step = "scope_index"   -> ScopeIndexStatements(d)
         [] step = "history"       -> HistoryStatements(d)
         [] step = "trace_column"  -> TraceColumnStatements(d)
         [] step = "trace_index"   -> TraceIndexStatements(d)
         [] step = "dedupe"        -> DedupeStatements(d)
         [] step = "log_index"     -> LogIndexStatements(d)

-----------------------------------------------------------------------------
(* What MySQL makes of a statement: an error, or the database after it.    *)

OneRow(d) == \A q, r \in d.log : q = r

Possible(s, d) ==
  CASE s.do = "add"         -> s.on \notin d.cols
    [] s.do = "drop_column" -> s.on \in d.cols
    [] s.do = "drop"        -> NameOf(s.on) \in Names(d.idx)
    [] s.do = "create"      -> /\ s.on \notin Names(d.idx)
                               /\ ColumnsOf(s.on) \subseteq d.cols
                               /\ s.on = "log_unique" => OneRow(d)
    [] s.do = "update"      -> /\ s.on = "pay_rate" => {"value", "pay_rate"} \subseteq d.cols
                               /\ s.on = "pay_type" => {"type", "pay_type"} \subseteq d.cols
    [] s.do = "delete_rows" -> TRUE

\* A column that is added holds its default.
Added(c, d) ==
  [d EXCEPT !.cols = @ \cup {c},
            !.rate = IF c = "pay_rate" THEN "zero" ELSE @,
            !.kind = IF c = "pay_type" THEN "default" ELSE @]

Updated(what, d) ==
  CASE what = "tables"   -> IF d.present THEN d
                            ELSE [d EXCEPT !.present = TRUE, !.cols = Full,
                                           !.rate = "kept", !.kind = "kept"]
    [] what = "pay_rate" -> [d EXCEPT !.rate = "kept"]
    [] what = "pay_type" -> [d EXCEPT !.kind = "kept"]
    [] what = "scope"    -> [d EXCEPT !.unscoped = FALSE]

After(s, d) ==
  CASE s.do = "add"         -> Added(s.on, d)
    [] s.do = "drop_column" -> [d EXCEPT !.cols = @ \ {s.on}]
    [] s.do = "drop"        -> [d EXCEPT !.idx = {i \in @ : NameOf(i) # NameOf(s.on)}]
    [] s.do = "create"      -> [d EXCEPT !.idx = @ \cup {s.on}]
    [] s.do = "update"      -> Updated(s.on, d)
    [] s.do = "delete_rows" -> [d EXCEPT !.log = {r \in @ : r.id \notin s.on}]

-----------------------------------------------------------------------------
(* The program.                                                            *)

Asks(m) == [op |-> "ask", at |-> m]
Look(step) == [op |-> "look", at |-> step]
Records(m) == [op |-> "record", at |-> m]

\* runBootstrapMigration: syncDatabase as the first migration, then the
\* incremental ones.
Bootstrap ==
  <<Asks("bootstrap"),
      Look("pay_rates"), Look("models"), Look("scope_columns"), Look("scope_index"),
      Look("history"), Look("trace_column"), Look("trace_index"),
      Look("dedupe"), Look("log_index"),
    Records("bootstrap"),
    Asks("payRates"), Look("pay_rates"), Records("payRates"),
    Asks("scope"), Look("scope_columns"), Look("scope_index"), Records("scope"),
    Asks("trace"), Look("trace_column"), Look("trace_index"), Records("trace"),
    Asks("idempotency"), Look("dedupe"), Look("log_index"), Records("idempotency")>>

\* What a process may be started for, from one instruction to another: all,
\* or syncDatabase alone.
Whole == <<1, Len(Bootstrap)>>
SyncOnly == <<2, 10>>

\* Where the program goes on once migration m is found recorded.
PastRecord(m) ==
  1 + CHOOSE k \in DOMAIN Bootstrap : Bootstrap[k] = Records(m)

Away == [up |-> FALSE, alone |-> FALSE, next |-> 0, last |-> 0, todo |-> {}]

-----------------------------------------------------------------------------

Init ==
  /\ db \in {Databases[o] : o \in Olds}
  /\ proc = [p \in Procs |-> Away]
  /\ starts = 0 /\ writes = 0
  /\ severed = FALSE /\ rewritten = FALSE

\* "alone" is history: nobody else has been up since.
Start(p, part) ==
  /\ ~proc[p].up
  /\ starts < MaxStarts
  /\ proc' = [q \in Procs |->
       IF q # p THEN [proc[q] EXCEPT !.alone = FALSE]
       ELSE [up |-> TRUE, alone |-> \A r \in Procs : ~proc[r].up,
             next |-> part[1], last |-> part[2], todo |-> {}]]
  /\ starts' = starts + 1
  /\ UNCHANGED <<db, writes, severed, rewritten>>

\* p has an instruction to run.
Ready(p) ==
  /\ proc[p].up /\ proc[p].todo = {}
  /\ proc[p].next <= proc[p].last

\* hasAppliedMigration
Ask(p) ==
  /\ Ready(p)
  /\ LET i == Bootstrap[proc[p].next]
     IN  /\ i.op = "ask"
         /\ proc' = [proc EXCEPT ![p].next = IF i.at \in db.applied THEN PastRecord(i.at) ELSE @ + 1]
  /\ UNCHANGED <<db, starts, writes, severed, rewritten>>

\* A step reads the tables, columns, indexes or rows it is about.
LookUp(p) ==
  /\ Ready(p)
  /\ LET i == Bootstrap[proc[p].next]
     IN  /\ i.op = "look"
         /\ proc' = [proc EXCEPT ![p].next = @ + 1, ![p].todo = Statements(i.at, db)]
  /\ UNCHANGED <<db, starts, writes, severed, rewritten>>

\* recordAppliedMigration
Record(p) ==
  /\ Ready(p)
  /\ LET i == Bootstrap[proc[p].next]
     IN  /\ i.op = "record"
         /\ db' = [db EXCEPT !.applied = @ \cup {i.at}]
  /\ proc' = [proc EXCEPT ![p].next = @ + 1]
  /\ UNCHANGED <<starts, writes, severed, rewritten>>

\* The process is gone, with what it had left to do.
Leaves(p) ==
  /\ proc' = [proc EXCEPT ![p] = Away]
  /\ severed' = (severed \/ /\ Create("scope") \in proc[p].todo
                            /\ \/ "scope" \in db.applied
                               \/ \E q \in Procs \ {p} : proc[q].up)

\* s is the next statement of p.
Due(p, s) == s \in proc[p].todo /\ \A t \in proc[p].todo : ~Before(t, s)

\* The next statement, or the error that ends the start.
Execute(p) ==
  /\ proc[p].up
  /\ \E s \in proc[p].todo :
       /\ Due(p, s)
       /\ IF Possible(s, db)
          THEN /\ db' = After(s, db)
               /\ proc' = [proc EXCEPT ![p].todo = @ \ {s}]
               /\ UNCHANGED severed
          ELSE Leaves(p) /\ UNCHANGED db
  /\ UNCHANGED <<starts, writes, rewritten>>

\* The schema is ready and the process goes on with its start.
Finish(p) ==
  /\ proc[p].up /\ proc[p].todo = {} /\ proc[p].next > proc[p].last
  /\ proc' = [proc EXCEPT ![p] = Away]
  /\ UNCHANGED <<db, starts, writes, severed, rewritten>>

Die(p) ==
  /\ proc[p].up
  /\ proc[p].todo # {} \/ proc[p].next <= proc[p].last
  /\ Leaves(p)
  /\ UNCHANGED <<db, starts, writes, rewritten>>

\* The service that writes the log runs all the while: a row that failed is
\* retried.
WriteLog(r) ==
  /\ writes < MaxWrites
  /\ r.status # "SUCCESS"
  /\ db' = [db EXCEPT !.log = (@ \ {r}) \cup {Row(r.id, "SUCCESS", 3 + writes)}]
  /\ writes' = writes + 1
  /\ rewritten' = (rewritten \/ \E p \in Procs : \E s \in proc[p].todo : s.do = "delete_rows")
  /\ UNCHANGED <<proc, starts, severed>>

Next ==
  \/ \E p \in Procs :
       \/ Start(p, Whole) \/ Start(p, SyncOnly)
       \/ Ask(p) \/ LookUp(p) \/ Record(p) \/ Execute(p) \/ Finish(p) \/ Die(p)
  \/ \E r \in db.log : WriteLog(r)

Spec == Init /\ [][Next]_vars

-----------------------------------------------------------------------------

\* What each migration is for.
InPlace(m) ==
  CASE m = "payRates"    -> RateColumns \subseteq db.cols /\ LegacyColumns \cap db.cols = {}
    [] m = "scope"       -> /\ ScopeColumns \subseteq db.cols
                            /\ ~db.unscoped
                            /\ {"scope_legacy", "scope_other"} \cap db.idx = {}
                            /\ "scope" \in db.idx
    [] m = "trace"       -> "correlation_id" \in db.cols /\ "log_trace" \in db.idx
    [] m = "idempotency" -> OneRow(db) /\ "log_unique" \in db.idx
    [] OTHER             -> TRUE

\* A migration is recorded once it is done, whatever starts, fails and dies
\* beside it: once no process is starting, what is recorded is in place.
\* Otherwise no later start would do it, as a recorded migration is
\* skipped.  Except where a process left with the index of the summaries yet
\* to make, while that was recorded or another process was starting
\* (severed): it may have dropped the index that the other had just made,
\* which is then missing for good.
RecordedIsInPlace ==
  (~severed /\ \A p \in Procs : ~proc[p].up) => \A m \in db.applied : InPlace(m)

\* The pay rates survive the change of their table: the columns of the
\* earlier version are gone only once their values have been taken over,
\* wherever a start stopped before, and however many ran at once.  And of
\* the rows of the log that are one mutation's, the one that tells of its
\* success is left, unless the log was written between the choice of the
\* rows to delete and their deletion.
DataSurvives ==
  /\ db.present /\ "pay_rate" \in db.cols /\ "value" \notin db.cols => db.rate = "kept"
  /\ db.present /\ "pay_type" \in db.cols /\ "type" \notin db.cols => db.kind = "kept"
  /\ ~rewritten /\ writes > 0 => \E r \in db.log : r.status = "SUCCESS"

\* Nothing that a start leaves behind when it fails or dies stops the next
\* one: from wherever the database was left, a start that runs alone meets
\* no error.
NextStartSucceeds ==
  \A p \in Procs : \A s \in proc[p].todo :
    proc[p].alone /\ proc[p].last = Len(Bootstrap) /\ Due(p, s) => Possible(s, db)
=============================================================================
