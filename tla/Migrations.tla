----------------------------- MODULE Migrations -----------------------------
(***************************************************************************)
(* MigrationExecutor (src/src/typeorm/migration/MigrationExecutor.ts):     *)
(* executePendingMigrations and undoLastMigration, run one after another   *)
(* by processes that may die at any point, over the query runners of       *)
(* QueryRunner.                                                            *)
(*                                                                         *)
(* A migration is the number its timestamp orders it by.  The database is  *)
(* the set of migrations whose changes are in place and the set of the     *)
(* rows of the migrations table, which their ids order.                    *)
(***************************************************************************)
EXTENDS QueryRunner, FiniteSets, SequencesExt

CONSTANTS LastMigration,         \* the last migration
          MaxRuns,      \* executions of the executor
          MaxFaults     \* refused or lost statements, and crashes

Migrations == 1..LastMigration

\* The rows of the migrations table.
Rows == [id : Nat, migration : Migrations]

ASSUME ConstantsAssumption ==
    /\ LastMigration \in Nat /\ MaxRuns \in Nat /\ MaxFaults \in Nat
    /\ Work = {"up", "record", "down", "erase"} \X Migrations

VARIABLES
    vendor,     \* the database
    override,   \* [Migrations -> the transaction property of the class]
    known,      \* the migrations of the source code that runs
    task,       \* "run" or "undo"
    mode,       \* the executor's transaction option
    fake,       \* the executor's fake option
    pc,         \* where the execution is
    base,       \* the rows loaded by this execution
    pending,    \* the migrations it has to deal with, in order
    next,       \* the position in pending
    runner,     \* the query runner
    session,    \* the session of its connection
    started,    \* transactionStartedByUs
    schema,     \* the migrations that are in place
    records,    \* the migrations table
    loose,      \* history: migrations dealt with outside a transaction
    doubtful,   \* history: those of them that were faked, or undone
    runs,       \* executions so far
    faults      \* failures so far

codeVars == <<vendor, override, known, task, mode, fake>>
dbVars == <<schema, records>>
vars == <<vendor, override, known, task, mode, fake, pc, base, pending, next,
          runner, session, started, schema, records, loose, doubtful, runs,
          faults>>

Places == {"idle", "prepare", "begin", "loop", "up", "record", "commit",
           "commitAll", "down", "erase", "undoCommit", "catch", "release",
           "resolved"}

TypeOK ==
    /\ vendor \in Vendors
    /\ override \in [Migrations -> {"default", "in", "out"}]
    /\ known \subseteq Migrations
    /\ task \in {"run", "undo"}
    /\ mode \in {"all", "each", "none"}
    /\ fake \in BOOLEAN
    /\ pc \in Places
    /\ base \subseteq Rows /\ records \subseteq Rows
    /\ pending \in Seq(Migrations)
    /\ next \in 1..(Len(pending) + 1)
    /\ runner \in Runners
    /\ session \in Sessions
    /\ started \in BOOLEAN
    /\ schema \subseteq Migrations
    /\ doubtful \subseteq loose /\ loose \subseteq Migrations
    /\ runs \in 0..MaxRuns
    /\ faults \in 0..MaxFaults

Init ==
    /\ vendor \in Vendors
    /\ override \in [Migrations -> {"default", "in", "out"}]
    /\ known = {} /\ task = "run" /\ mode = "all" /\ fake = FALSE
    /\ pc = "idle"
    /\ base = {} /\ pending = <<>> /\ next = 1
    /\ runner = NewRunner /\ session = DeadSession /\ started = FALSE
    /\ schema = {} /\ records = {}
    /\ loose = {} /\ doubtful = {}
    /\ runs = 0 /\ faults = 0

-----------------------------------------------------------------------------
(* Statements and what they leave behind.                                  *)

Current == pending[next]

\* The migrations that the durable units of work ws concern in this way.
Concerned(way, ws) == {m \in Migrations : <<way, m>> \in ws}

\* The migrations that have a row among rs.
Executed(rs) == {r.migration : r \in rs}

HighestId(rs) == Max({0} \cup {r.id : r \in rs})

\* The row that pending[i] gets: the generated ids go on from the rows that
\* are there, in the order in which the rows are inserted.
NewRow(i) == [id |-> HighestId(base) + i, migration |-> pending[i]]

Durable(ws) ==
    /\ schema' = (schema \cup Concerned("up", ws)) \ Concerned("down", ws)
    /\ records' =
         {r \in records \cup {NewRow(i) : i \in {j \in DOMAIN pending :
                                               <<"record", pending[j]>> \in ws}} :
            r.migration \notin Concerned("erase", ws)}

\* What an answer a of the database changes, and that it may be a fault.
Answered(a) ==
    /\ a.cause # "none" => faults < MaxFaults
    /\ faults' = faults + (IF a.cause = "none" THEN 0 ELSE 1)
    /\ session' = a.session
    /\ Durable(a.durable)

\* The outcomes of a method of the runner that no subscriber interferes with.
Undisturbed(outcomes) == {o \in outcomes : o.cause \notin {"before", "after"}}

(***************************************************************************)
(* The statements of up or down.  Oracle commits before and after each of  *)
(* them; outside a transaction a failure may come after they took effect.  *)
(***************************************************************************)
ChangeSchema(w) ==
    LET alone == vendor = "postgres" /\ ~InTransaction(session)
    IN  IF vendor = "postgres" /\ ~alone
        THEN Execute(vendor, runner, session, w)
        ELSE UNION {Query(runner, session,
                          Reply(TRUE, Ended(vendor, session),
                                WorkOf(session) \cup {w}),
                          Reply(FALSE, Ended(vendor, session),
                                WorkOf(session) \cup done)) :
                      done \in {{}, {w}}}

\* Mutant of InsertExecutedMigration: the row is inserted by another
\* connection than the runner's.
InsertElsewhere(m) ==
    Query(runner, session, Reply(TRUE, session, {<<"record", m>>}),
          Refuse(vendor, session))

\* insertExecutedMigration and deleteExecutedMigration.
InsertExecutedMigration(m) == Execute(vendor, runner, session, <<"record", m>>)

DeleteExecutedMigration(m) == Execute(vendor, runner, session, <<"erase", m>>)

\* A migration dealt with where a failure may come between its two halves.
Loosely(m) ==
    IF vendor = "oracle" \/ ~runner.active THEN loose \cup {m} ELSE loose

-----------------------------------------------------------------------------
(* The start of an execution: everything that comes before the try block.  *)

\* A process with some version of the source code runs the executor.
BeginExecution ==
    /\ pc = "idle" /\ runs < MaxRuns
    /\ known' \in SUBSET Migrations
    /\ task' \in {"run", "undo"} /\ mode' \in {"all", "each", "none"}
    /\ fake' \in BOOLEAN
    /\ pc' = "prepare"
    /\ base' = {} /\ pending' = <<>> /\ next' = 1
    /\ runner' = NewRunner /\ session' = FreshSession /\ started' = FALSE
    /\ runs' = runs + 1
    /\ UNCHANGED <<vendor, override, dbVars, loose, doubtful, faults>>

\* The migrations of S in an order, each of them once.
Sorted(S, Before(_, _)) ==
    CHOOSE f \in [1..Cardinality(S) -> S] :
        /\ S = ToSet(f)
        /\ \A i, j \in DOMAIN f : i < j => Before(f[i], f[j])

\* Mutant of PendingMigrations: sorted the other way round.
PendingDescending == Sorted(known \ Executed(records), >)

\* The migrations of the source code without a row, by timestamp.
PendingMigrations == Sorted(known \ Executed(records), <)

\* Mutant of MigrationToRevert: the latest by timestamp, not by id.
LatestTimestamp == IF records = {} THEN <<>> ELSE <<Max(Executed(records))>>

\* The first of the rows by descending id.
LastRow(rs) == CHOOSE r \in rs : \A q \in rs : q.id <= r.id

\* getLatestExecutedMigration
MigrationToRevert ==
    IF records = {} THEN <<>> ELSE <<LastRow(records).migration>>

\* The error that a migration may not choose its own transaction mode.
Conflict(todo) ==
    mode = "all" /\ \E i \in DOMAIN todo : override[todo[i]] # "default"

(***************************************************************************)
(* The table of migrations is created if need be and its rows are loaded.  *)
(* Whatever goes wrong before the try block ends the execution at once,    *)
(* without the release of its runner.                                      *)
(***************************************************************************)
Load ==
    LET todo == IF task = "run" THEN PendingMigrations ELSE MigrationToRevert
    IN  /\ pc = "prepare"
        /\ \E a \in Query(runner, session, Reply(TRUE, session, {}),
                          Refuse(vendor, session)) :
             /\ Answered(a)
             /\ IF ~a.ok THEN pc' = "idle" /\ UNCHANGED <<base, pending>>
                ELSE /\ base' = records /\ pending' = todo
                     /\ pc' = IF todo = <<>> THEN "release"
                              ELSE IF (task = "run" /\ Conflict(todo))
                                      \/ (task = "undo" /\ todo[1] \notin known)
                              THEN "idle" ELSE "begin"
        /\ UNCHANGED <<codeVars, next, runner, started, loose, doubtful, runs>>

\* One transaction for all, or for the migration to be reverted.
StartOne ==
    /\ pc = "begin"
    /\ LET first == IF task = "run" THEN "loop" ELSE "down"
       IN \/ /\ mode = "all" \/ (mode = "each" /\ task = "undo")
             /\ \E o \in Undisturbed(StartTransaction(vendor, runner, session)) :
                  /\ Answered(o)
                  /\ runner' = o.runner
                  /\ started' = o.ok
                  /\ pc' = IF o.ok THEN first ELSE "idle"
          \/ /\ mode = "none" \/ (mode = "each" /\ task = "run")
             /\ pc' = first
             /\ UNCHANGED <<runner, session, started, dbVars, faults>>
    /\ UNCHANGED <<codeVars, base, pending, next, loose, doubtful, runs>>

-----------------------------------------------------------------------------
(* The migrations of one execution.                                        *)

\* Whether a migration runs in a transaction of its own.
OwnTransaction(m) ==
    IF override[m] = "default" THEN mode = "each" ELSE override[m] = "in"

\* The next migration, or the end of the loop.
Loop ==
    /\ pc = "loop"
    /\ \/ /\ next > Len(pending)
          /\ pc' = IF mode = "all" /\ started THEN "commitAll" ELSE "release"
          /\ UNCHANGED <<runner, session, started, dbVars, faults>>
       \/ /\ next <= Len(pending) /\ fake
          /\ pc' = "record"
          /\ UNCHANGED <<runner, session, started, dbVars, faults>>
       \/ /\ next <= Len(pending) /\ ~fake
          /\ OwnTransaction(Current) /\ ~runner.active
          /\ \E o \in Undisturbed(StartTransaction(vendor, runner, session)) :
               /\ Answered(o)
               /\ runner' = o.runner
               /\ started' = (started \/ o.ok)
               /\ pc' = IF o.ok THEN "up" ELSE "catch"
       \/ /\ next <= Len(pending) /\ ~fake
          /\ ~OwnTransaction(Current) \/ runner.active
          /\ pc' = "up"
          /\ UNCHANGED <<runner, session, started, dbVars, faults>>
    /\ UNCHANGED <<codeVars, base, pending, next, loose, doubtful, runs>>

Up ==
    /\ pc = "up"
    /\ \E a \in ChangeSchema(<<"up", Current>>) :
         /\ Answered(a)
         /\ pc' = IF a.ok THEN "record" ELSE "catch"
    /\ loose' = Loosely(Current)
    /\ UNCHANGED <<codeVars, base, pending, next, runner, started, doubtful, runs>>

\* Mutant of CommitsEach: the commit that mode "each" asks for happens
\* whenever a transaction was started.
CommitsStarted(m) == started

CommitsEach(m) == OwnTransaction(m) /\ started

\* The row is inserted after up; a faked migration has nothing else.
Record ==
    /\ pc = "record"
    /\ \E a \in InsertExecutedMigration(Current) :
         /\ Answered(a)
         /\ IF ~a.ok THEN pc' = "catch" /\ UNCHANGED next
            ELSE IF ~fake /\ CommitsEach(Current) THEN pc' = "commit" /\ UNCHANGED next
            ELSE pc' = "loop" /\ next' = next + 1
    /\ loose' = IF fake THEN loose \cup {Current} ELSE loose
    /\ doubtful' = IF fake THEN doubtful \cup {Current} ELSE doubtful
    /\ UNCHANGED <<codeVars, base, pending, runner, started, runs>>

\* COMMIT after one migration, after all of them, or after the reversal.
CommitMigrations ==
    /\ pc \in {"commit", "commitAll", "undoCommit"}
    /\ \E o \in Undisturbed(CommitTransaction(vendor, runner, session)) :
         /\ Answered(o)
         /\ runner' = o.runner
         /\ pc' = IF ~o.ok THEN "catch"
                  ELSE IF pc = "commit" THEN "loop" ELSE "release"
         /\ next' = IF o.ok /\ pc = "commit" THEN next + 1 ELSE next
    /\ UNCHANGED <<codeVars, base, pending, started, loose, doubtful, runs>>

Down ==
    /\ pc = "down"
    /\ \/ /\ fake
          /\ pc' = "erase"
          /\ UNCHANGED <<session, dbVars, faults, loose, doubtful>>
       \/ /\ ~fake
          /\ \E a \in ChangeSchema(<<"down", Current>>) :
               /\ Answered(a)
               /\ pc' = IF a.ok THEN "erase" ELSE "catch"
          /\ loose' = Loosely(Current)
          /\ doubtful' = doubtful \cup (loose' \cap {Current})
    /\ UNCHANGED <<codeVars, base, pending, next, runner, started, runs>>

Erase ==
    /\ pc = "erase"
    /\ \E a \in DeleteExecutedMigration(Current) :
         /\ Answered(a)
         /\ pc' = IF ~a.ok THEN "catch" ELSE IF started THEN "undoCommit" ELSE "release"
    /\ loose' = IF fake THEN loose \cup {Current} ELSE loose
    /\ doubtful' = IF fake THEN doubtful \cup {Current} ELSE doubtful
    /\ UNCHANGED <<codeVars, base, pending, next, runner, started, runs>>

(***************************************************************************)
(* The catch block: a rollback if a transaction was ever started, whose    *)
(* own failure is not looked at.  The finally block returns the connection *)
(* and the pool ends what is left on it when it is closed.                 *)
(***************************************************************************)
Catch ==
    /\ pc = "catch"
    /\ \/ /\ started
          /\ \E o \in Undisturbed(RollbackTransaction(vendor, runner, session)) :
               Answered(o) /\ runner' = o.runner
       \/ /\ ~started
          /\ UNCHANGED <<runner, session, dbVars, faults>>
    /\ pc' = "idle"
    /\ UNCHANGED <<codeVars, base, pending, next, started, loose, doubtful, runs>>

\* The connection goes back and the execution resolves.
Finish ==
    /\ pc = "release"
    /\ pc' = "resolved"
    /\ UNCHANGED <<codeVars, base, pending, next, runner, session, started, dbVars,
                   loose, doubtful, runs, faults>>

\* Whoever ran it goes on.
Resolved ==
    /\ pc = "resolved"
    /\ pc' = "idle"
    /\ UNCHANGED <<codeVars, base, pending, next, runner, session, started, dbVars,
                   loose, doubtful, runs, faults>>

\* The process dies; the server ends its session.
Crash ==
    /\ pc \notin {"idle", "resolved"} /\ faults < MaxFaults
    /\ faults' = faults + 1
    /\ session' = DeadSession
    /\ pc' = "idle"
    /\ UNCHANGED <<codeVars, base, pending, next, runner, started, dbVars, loose,
                   doubtful, runs>>

Next ==
    \/ BeginExecution \/ Load \/ StartOne
    \/ Loop \/ Up \/ Record \/ CommitMigrations
    \/ Down \/ Erase
    \/ Catch \/ Finish \/ Resolved \/ Crash

Spec == Init /\ [][Next]_vars

-----------------------------------------------------------------------------
(* Properties.                                                             *)

(***************************************************************************)
(* The table and the schema stay in step.  A migration that was always     *)
(* dealt with in transactions of PostgreSQL has its row if and only if it  *)
(* is in place, whatever failed, crashed or was answered too late; without *)
(* a transaction its row still means that it is in place, since up comes   *)
(* before insertExecutedMigration, unless it was faked or its reversal     *)
(* was cut in two.                                                         *)
(***************************************************************************)
InStep ==
    \A m \in Migrations :
        /\ m \notin loose => (m \in schema <=> m \in Executed(records))
        /\ m \notin doubtful /\ m \in Executed(records) => m \in schema

(***************************************************************************)
(* An execution adds rows in the order of the timestamps and without gaps, *)
(* in every mode and wherever it stops; one that resolves has added all of *)
(* them (executePendingMigrations), or removed just the last row           *)
(* (undoLastMigration).                                                    *)
(***************************************************************************)
RowsInOrder ==
    pending # <<>> =>
        IF task = "undo"
        THEN /\ records \in {base, base \ {LastRow(base)}}
             /\ pc = "resolved" => records # base
        ELSE LET due   == known \ Executed(base)
                 added == records \ base
             IN  /\ base \subseteq records /\ Executed(added) \subseteq due
                 /\ \A m \in Executed(added), n \in due :
                        n < m => n \in Executed(added)
                 /\ \A r \in added, q \in base : q.id < r.id
                 /\ \A r, q \in added : q.id < r.id <=> q.migration < r.migration
                 /\ pc = "resolved" => Executed(added) = due

(***************************************************************************)
(* "all: all migrations are run in a single transaction" (line 29): on     *)
(* PostgreSQL no step leaves some of the pending migrations recorded and   *)
(* others not.                                                             *)
(***************************************************************************)
AllOrNothing ==
    [][vendor = "postgres" /\ task = "run" /\ mode = "all" /\ records' # records
       => /\ records \subseteq records'
          /\ Executed(records' \ records) = ToSet(pending)]_vars

\* Only the migration executed last is ever reverted, also when one with an
\* older timestamp was added to the source code and executed after others.
LastIsReverted ==
    [][\A r \in records \ records', q \in records : q.id <= r.id]_vars

=============================================================================
