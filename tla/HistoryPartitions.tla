-------------------------- MODULE HistoryPartitions --------------------------
(***************************************************************************)
(* The table of RequestHistory is partitioned by the month of rq_time, and  *)
(* a row whose month has no partition cannot be inserted.  Every gateway    *)
(* creates the partitions of this month and the next ones when it starts    *)
(* and then once a day (RequestHistoryPartitionsDBInitializer), in one      *)
(* statement, whatever the other gateways are doing.                        *)
(*                                                                          *)
(* A runner is one caller of createPartitions: a gateway's start or its     *)
(* scheduled task.  Gateways may share the database and have schemas of     *)
(* their own in it.  Postgres is external: read committed, and a transaction *)
(* that creates a partition locks the parent table until its end.           *)
(***************************************************************************)
EXTENDS Integers

CONSTANTS
    Runners,
    Rows,          \* rows that are inserted at the same time
    Schemas,
    Deployments,   \* which gateway may have which schema
    MonthDelta,    \* partitions-init-month-delta
    MonthLength,   \* in ticks of partitions-init-scheduler-delay
    MaxTime, MaxFails   \* bounds of the model

ASSUME PartitionsAssumption ==
    /\ Schemas # {} /\ Deployments \subseteq [Runners -> Schemas]
    /\ {MonthDelta, MonthLength, MaxTime, MaxFails} \subseteq Nat
    /\ MonthLength > 0

VARIABLES
    schemaOf,   \* spring.r2dbc.properties.schema of each runner's gateway
    clock,
    tables,     \* the partitions that are there: pairs of a schema and a month
    run,        \* each runner's statement
    row,        \* each row's statement
    fails,      \* failures so far, other than those of the statements themselves
    promised    \* history: what successful runs said is there

vars == <<schemaOf, clock, tables, run, row, fails, promised>>

Month(t) == t \div MonthLength
Months == 0..(Month(MaxTime) + MonthDelta)

Waiting == [pc |-> "idle", from |-> 0, next |-> 0, made |-> {}]

NoRow == [pc |-> "none", schema |-> CHOOSE s \in Schemas : TRUE, month |-> 0, sure |-> FALSE]

Init ==
    /\ schemaOf \in Deployments
    /\ clock = 0
    /\ tables = {}
    /\ run = [r \in Runners |-> Waiting]
    /\ row = [w \in Rows |-> NoRow]
    /\ fails = 0
    /\ promised = {}

-----------------------------------------------------------------------------
(* createPartitions.                                                        *)

\* Mutant: the series of months does not begin with the current one.
Begin_FromNext(r) ==
    /\ run[r].pc = "idle"
    /\ run' = [run EXCEPT ![r] = [Waiting EXCEPT !.pc = "checking", !.from = Month(clock) + 1]]
    /\ UNCHANGED <<schemaOf, clock, tables, row, fails, promised>>

\* current_timestamp is the time at which the statement began.
Begin(r) ==
    /\ run[r].pc = "idle"
    /\ run' = [run EXCEPT ![r] = [Waiting EXCEPT !.pc = "checking", !.from = Month(clock)]]
    /\ UNCHANGED <<schemaOf, clock, tables, row, fails, promised>>

Period(r) == run[r].from + run[r].next

\* What r created, and nobody else sees before r commits.
Created(r) == {schemaOf[r]} \X run[r].made

\* Mutant: what others have not committed counts as well.
Exists_Uncommitted(r) ==
    \E s \in Schemas : <<s, Period(r)>> \in tables \cup UNION {Created(q) : q \in Runners}

\* pg_class has the tables of all schemas, and the name is all that is compared.
Exists(r) == \E s \in Schemas : <<s, Period(r)>> \in tables

\* The statement after the last month ends, and with it its transaction.
Step(r, made) ==
    run' = [run EXCEPT ![r].pc = IF run[r].next = MonthDelta THEN "committing" ELSE "checking",
                       ![r].next = IF run[r].next = MonthDelta THEN @ ELSE @ + 1,
                       ![r].made = made]

Check(r) ==
    /\ run[r].pc = "checking"
    /\ IF Exists(r) THEN Step(r, run[r].made)
       ELSE run' = [run EXCEPT ![r].pc = "creating"]
    /\ UNCHANGED <<schemaOf, clock, tables, row, fails, promised>>

Locked(s) == \E r \in Runners : schemaOf[r] = s /\ run[r].made # {}

\* The parent table is free for r.
Unlocked(r) == \A q \in Runners \ {r} : schemaOf[q] = schemaOf[r] => run[q].made = {}

Create(r) ==
    /\ run[r].pc = "creating"
    /\ Unlocked(r)
    /\ <<schemaOf[r], Period(r)>> \notin tables
    /\ Step(r, run[r].made \cup {Period(r)})
    /\ UNCHANGED <<schemaOf, clock, tables, row, fails, promised>>

\* Somebody else was faster: the relation already exists.  All that this
\* statement has created is gone with it; the error is logged.
CreateFailed(r) ==
    /\ run[r].pc = "creating"
    /\ Unlocked(r)
    /\ <<schemaOf[r], Period(r)>> \in tables
    /\ run' = [run EXCEPT ![r] = Waiting]
    /\ UNCHANGED <<schemaOf, clock, tables, row, fails, promised>>

\* The result has been read, and "Created: ..." is logged.
Commit(r) ==
    /\ run[r].pc = "committing"
    /\ tables' = tables \cup Created(r)
    /\ promised' = promised \cup ({schemaOf[r]} \X (run[r].from..Period(r)))
    /\ run' = [run EXCEPT ![r] = Waiting]
    /\ UNCHANGED <<schemaOf, clock, row, fails>>

\* The gateway stops, or the connection or the database fails, at the end
\* perhaps with only the answer lost; the gateway tries again when it is back,
\* or on the next day.
Break(r) ==
    /\ run[r].pc # "idle"
    /\ fails < MaxFails
    /\ fails' = fails + 1
    /\ run' = [run EXCEPT ![r] = Waiting]
    /\ tables' \in {tables} \cup (IF run[r].pc = "committing" THEN {tables \cup Created(r)} ELSE {})
    /\ UNCHANGED <<schemaOf, clock, row, promised>>

-----------------------------------------------------------------------------
(* The rows of RequestHistory.                                              *)

\* saveRequest: the row's rq_time is set, and its insert is on the way.
Save(w, r) ==
    /\ row[w].pc = "none"
    /\ row' = [row EXCEPT ![w] = [pc |-> "inserting", schema |-> schemaOf[r], month |-> Month(clock),
                                  sure |-> <<schemaOf[r], Month(clock)>> \in promised]]
    /\ UNCHANGED <<schemaOf, clock, tables, run, fails, promised>>

\* It waits for the lock on the table, and needs a partition by then.  What is
\* inserted makes room for another row; what has failed is lost.
Insert(w) ==
    /\ row[w].pc = "inserting"
    /\ ~Locked(row[w].schema)
    /\ row' = [row EXCEPT ![w] = IF <<@.schema, @.month>> \in tables THEN NoRow
                                 ELSE [@ EXCEPT !.pc = "failed"]]
    /\ UNCHANGED <<schemaOf, clock, tables, run, fails, promised>>

Tick ==
    /\ clock < MaxTime
    /\ clock' = clock + 1
    /\ UNCHANGED <<schemaOf, tables, run, row, fails, promised>>

CreatePartitions(r) == Begin(r) \/ Check(r) \/ Create(r) \/ CreateFailed(r) \/ Commit(r)

Next ==
    \/ \E r \in Runners : CreatePartitions(r) \/ Break(r)
    \/ \E w \in Rows : (\E r \in Runners : Save(w, r)) \/ Insert(w)
    \/ Tick

\* The scheduler starts the task again and again, and the database goes on
\* with a statement that it can go on with.
Spec ==
    /\ Init /\ [][Next]_vars
    /\ \A r \in Runners : WF_vars(CreatePartitions(r))

-----------------------------------------------------------------------------
(* Properties.                                                              *)

TypeOK ==
    /\ schemaOf \in Deployments
    /\ clock \in 0..MaxTime
    /\ tables \subseteq Schemas \X Months
    /\ run \in [Runners -> [pc : {"idle", "checking", "creating", "committing"},
                            from : 0..Month(MaxTime), next : 0..MonthDelta, made : SUBSET Months]]
    /\ row \in [Rows -> [pc : {"none", "inserting", "failed"}, schema : Schemas,
                         month : Months, sure : BOOLEAN]]
    /\ fails \in 0..MaxFails
    /\ promised \subseteq Schemas \X Months

\* Another schema of the database has a table of that name.
Taken(s, m) == \E other \in Schemas \ {s} : <<other, m>> \in tables

\* A run that reports success has left a partition for each of its months, so
\* no row made after that is lost: not when runs collide, not when one breaks
\* off half-way.  The one exception is a table of the same name in another
\* schema, for which create_partition_by_interval creates nothing.
RowsAreKept ==
    \A w \in Rows :
        row[w].pc = "failed" /\ row[w].sure => Taken(row[w].schema, row[w].month)

\* After runs that collided or failed there is a partition for the current
\* month again, unless another schema has one (createPartitions catches all,
\* and is run again).
MonthIsServed ==
    \A r \in Runners : []<>(<<schemaOf[r], Month(clock)>> \in tables \/ Taken(schemaOf[r], Month(clock)))
=============================================================================
