# A TLA+ model of typeorm-procedure-kit

`typeorm-procedure-kit` is a Node.js library that calls stored procedures of
Oracle and PostgreSQL databases over an embedded fork of TypeORM. It keeps the
signatures of the procedures in memory and refreshes them when the database
announces that a package changed. The parts that are hard to get right are the
ones that wait: fetches that are coalesced and retried, a notification listener
that is restored behind the application's back, a callback queue that must be
drained within a limit, a start-up that may fail, be rolled back, or be
overtaken by a shutdown, and calls whose connection must come back to the pool
clean whatever failed. This directory models those parts in TLA+, checks them
with TLC on small instances, and proves the most important facts with TLAPS for
every instance.

Source paths are relative to the parent directory: `src/src/core/index.ts` is
the library's own `src/core/index.ts`.

## 1. The system

### 1.1 Components

| Component | State | Operations | Hard part |
|---|---|---|---|
| **Procedure metadata registry** `core/procedure-list-base.ts`, `core/notify-base.ts` | snapshot per package, `packageFetchStates`, `retryTimers`, `activeRefreshes`, two `isDestroyed` flags | initial fetch, fetch on a change event, rerun, retry timer, destroy | requests coalesced into a fetch in flight; late answers; a shutdown in the middle |
| **Notification channel** `adapters/abstract/database-notify.ts`, `adapters/postgres/postgre-notify.ts`, `postgre-connection.ts` | `notificationPool`, pending registrations, `restoreStates`, close promises, health check timers | `listenNotify`, `unlistenNotify`, restore loop, health check, `destroyNotifications` | all of them work on one channel concurrently, around awaits |
| **Callback queue** `postgre-notify.ts` (`enqueueNotificationPayload`) | one promise chain per channel, its size, `closingNotificationChannels` | event, callback, close and drain | a callback may hang or outlast the close |
| **Kit** `core/index.ts`, `core/database-initializer-base.ts`, `DataSource.ts`, `PostgresDriver.ts` | state of the kit, init and destroy promises, data source, pools, adapter | `initDatabase`, rollback, `destroy`, signal handlers | partial failure of the start, `destroy()` during it |
| **Oracle notifications** `adapters/oracle/oracle-notify.ts` | a connection and a queue per subscription, restore states, close promises | subscriptions per operation, messages, restore, `unlistenNotify`, `destroyNotifications` | partial registration; a deregistration event restores inside its own queue |
| **Execution** `core/execute-base.ts`, `core/connection-base.ts`, adapters | a query runner per call | acquire, execute, release, invalidate | several steps, each of which may fail; a pool that is closed meanwhile |
| **Query runners, transactions** `PostgresQueryRunner.ts`, `OracleQueryRunner.ts`, `EntityManager.ts` | `transactionDepth`, `isTransactionActive`, connection | begin, commit, rollback, savepoints, release | the runner's idea of the transaction against the server's |
| **Session options** `utils/database-options-executor.ts` | parameters changed for a call | apply, run, restore | a restore that fails must invalidate the connection |
| **Migrations** `typeorm/migration/MigrationExecutor.ts` | pending list, transaction mode, the migrations table | run, undo | modes `all`, `each`, `none`, overrides, failure in the middle |
| **Result materializers** `postgre-result-materializer.ts`, `oracle-result-materializer.ts`, `procedure-resource-tracker.ts` | open cursors and LOBs, rows and bytes used | fetch, close | resources closed exactly once under limits |
| **Utilities** `queue-manager.ts`, `event-bus.ts`, `async-utils.ts` | collections, handlers | | exported to applications, not used by the kit |
| **Binding and SQL builders, serializers, naming, logging, NestJS glue, decorators, embedded TypeORM core** | none of their own, or third-party | | text and value conversion |

### 1.2 Interactions

```
 application ── initDatabase / destroy / signals ──► Kit
      │                                               │ opens, closes
      │ listenNotify, unlistenNotify                  ▼
      │                                    DataSource and its pools
      ▼                                               ▲
 adapter (DatabaseNotify) ◄── createNotification ── NotifyBase
      │  dedicated client                             │ refreshPackage
      ▼                                               ▼
 callback queue ── packageNotifyCallback ──►  ProcedureListBase ── queries ──► pools
```

A call of the application (`call`, `callSqlTransaction`, an entity manager, a
repository's `save`) leases a connection of those pools:

```
 call ── acquire ──► pool ── connection ──► query runner ── statements ──► session
   │                                            ▲  isTransactionActive, depth
   └── EntityManager.transaction ── begin, commit, rollback
         └── DatabaseOptionsExecutor: apply ── operation ── restore
```

`initDatabaseInternal` connects, migrates, fetches all packages, and only then
subscribes to the change channel. `cleanupResources`, run by a rollback or by
`destroy()`, goes the other way: refreshes, channel, registry, pools.

Everything runs in one JavaScript thread. Interleavings happen at awaits, so
the steps of the models are the stretches of code between two awaits on I/O or
on a timer. A chain of promises without I/O between its links is one step.

### 1.3 What makes each component correct

* **Registry**: no requested refresh is lost by coalescing, failing or
  retrying; one fetch per package; metadata never goes back; nothing is
  published or left behind after `destroy()`; `destroy()` ends.
* **Channel**: one listener per channel; no client is forgotten; what
  `unlistenNotify` or `destroy` ended stays ended; what was not ended comes
  back after a loss, with the callback registered last.
* **Queue**: callbacks run one at a time and within the limit; a close drains
  them, but waits for a hanging one only so long; a closed listener is silent.
* **Kit**: it acquires resources only while it initializes, is ready only when
  complete, is new only when empty, answers every caller, and a destroyed kit
  holds nothing.

* **Execution, transactions, options**: a connection has one user at a time and
  comes back once; when it may be used again no transaction is open and no
  session option is left changed; what a call was told about its work is true;
  a call ends also when its connection or the pool is lost.
* **Migrations**: what is in place and what is recorded agree, wherever an
  execution fails or dies; rows are added in order and without gaps; mode `all`
  is all or nothing; only the last one is reverted.
* **Oracle notifications**: no dedicated connection is forgotten; a closed
  subscription stays closed (but see finding 6), and a call that rejects leaves
  none; a close ends
  although the queue it drains may hold a restore; a lost subscription comes
  back.

The hazards list in `PROJECT.json` names the line where each of these could go
wrong and the properties that would show it.

## 2. The plan

| Step | Modules | State |
|---|---|---|
| 1. Metadata registry: refresh, retry, shutdown | `ProcedureMetadata`, `ProcedureMetadata_proofs` | checked; safety proved |
| 2. Notification channel, against an abstract contract, and its queue | `DedicatedConnections`, `PostgreNotify`, `PostgreNotificationQueue`, and a `_proofs` module for the last two | checked; safety and refinement proved |
| 3. Kit life cycle, against an abstract contract | `ResourceLifecycle`, `KitLifecycle`, `KitLifecycle_proofs` | checked; refinement proved |
| 4. Server session, query runner, execution, session options, transactions | `DatabaseSession`, `QueryRunner`, `Transactions`, `Transactions_proofs`, `TransactionOutcomes_proofs` | checked; safety proved |
| 5. Migrations: `all`, `each`, `none`, overrides, undo, crashes | `Migrations` over the same session and runner, `Migrations_proofs` | checked; safety proved |
| 6. Oracle notifications, against the same contract | `OracleNotify`, `OracleNotify_proofs` | checked; safety and refinement proved |
| 7. Result materializers, utilities and resource limits, as operators against reference definitions | | last |

`DatabaseSession` and `QueryRunner` are pure operators that both `Transactions`
and `Migrations` are built from; `ResourceLifecycle` is the abstract
specification of the kit, `DedicatedConnections` that of both notification
adapters. An abstract connection that is *idle*, *leased* or
*closed*, once planned for step 4, would only have repeated
`LeasesAreExclusive`, which is stated and proved directly.

## 3. The modules and the code

`PROJECT.json` maps every definition to its lines. This section gives the
reading of the state and what was abstracted.

### 3.1 `ProcedureMetadata`

The content of a package is its *version*: the number of times it changed in
the database. A query reads the version that is current when the database
executes it (`QueryReads`), which may be long before its answer is processed
(`Publish`), so an answer can be stale when it arrives. A *run* is an activation
of `runPackageFetch`; `fetchState` is `packageFetchStates`, `rerunRequested` the
control flag that a second request sets. `EndIteration` is the bottom of its
loop: iterate again or settle, which at once releases whoever awaits the run
(the initial fetch, a refresh of `NotifyBase`). `FetchFails` is the catch of
`fetchProcedureListInternal` with `scheduleRetry`.

`phase` is how far the kit got: `new`, `fetching`, `subscribing`, `ready` or
`failed`, and then the steps of a destroy: `refreshes` (NotifyBase waits for the
refreshes it started), `channel` (its channel is closed), `fetches`
(ProcedureListBase waits for the fetches), `destroyed`. `awaited` is the set of
promises that the current step captured with `Promise.allSettled`; what starts
after the capture is not waited for, as in the code.

`requested[p]` is history: the version that was current when a fetch of `p` was
last asked for. "No refresh is lost" is stated with it.

Not in the module: an event about a package that is not configured (the code
ignores it) and the decoding of rows, which may fail and then is `FetchFails` of
an answered run. An Oracle event that names several packages is one
`DeliverChange` per package.

### 3.2 `PostgreNotify`

One channel; channels share only `isDestroyed`. `reg[a]` says where a
`listenNotify` call is: *queued* (a microtask), *connecting*, *listening*
(LISTEN was sent), *closing* (it failed and closes its client). The restore loop
calls `listenNotify` too: it is the actor `Restorer`. `restore` is where that
loop is: closing the old client, registering, waiting for the next attempt, or
undoing a registration that was cancelled under it. `closeState` is the shared
close promise; several callers may await it (`closeWaiters`). A client is
`dead` when its connection broke and `reported` once the driver told the
handler: whether and when that happens is open, so the health check has to find
losses too.

JavaScript runs microtasks before I/O callbacks and timers. `Quiet` and
`CloseIsImmediate` give this priority to a queued registration and to a close
that has no client to close. Client numbers are reused once nothing refers to
them. The delay between attempts and the long delay after too many of them are
one state, so the number of retries does not matter. The time limits of the
code (5 s for a drain and for a destroy) are nondeterministic: the wait may end
at any time.

History: `subscribed` (the last callback registered and not unlistened),
`unlistened`, `overlapped` (the application did not await one of its calls, or
did not end a subscription before it asked for the next) and `missed` (one of
its `unlistenNotify` calls joined the close of an older client and left the
published one alone: finding 2). Two properties are promised only to
applications that are `Undisturbed`, that is to whom neither happened, and
carry that in their statement, not as a restriction of the model.

### 3.3 `PostgreNotificationQueue`

Events and callbacks of a channel whose clients come and go. A queue object is
a chain of promises: `size` counts its events and the head is running.
`active` is the entry of the map `notificationQueues`; an older queue lives on
while a callback of it runs. `CallbackDone` ends the running callback; the rest
of a chain whose client has left the pool settles at once, without I/O, in the
same step. A callback may take for ever: no fairness is assumed for it. `gaveUp`
is history: a close stopped waiting for a callback.

The module is separate from `PostgreNotify` because they share only "is this
client the one of the pool": `PostgreNotify` lets a close drain or not, and this
module lets a client be published whenever the channel has none.

### 3.4 `ResourceLifecycle` and `KitLifecycle`

`ResourceLifecycle` is the abstract contract: a phase, whether an
initialization runs, whether anything is held, and whether the last release
failed. `KitLifecycle` is the code: `init` is where `initDatabaseInternal` is
(connecting, preparing metadata and schema, the data source's own abort after a
failure, migrating, fetching, subscribing, rollback), `cleanup` where
`cleanupResources` is, `destroy` where `destroyInternal` is. `pools` counts the
open pools of the current data source and `orphans` those of data sources that
a rollback dropped. `answer` is what each caller of `initDatabase` was told.

The configuration modelled is the fullest one, with dynamic metadata and so a
channel. Left out: `destroy` of the case strategy (synchronous), and failures
of the notification and metadata cleanup, which their own modules show to end.
`DataSource.destroy` may fail at any call and leave some pools open.

`PartialConnect` says whether a `connect` that fails leaves pools open. The
code can (see the findings); with `FALSE` the other properties are checked
without that known defect, with `TRUE` the run `kit_lifecycle_pools` shows it.

### 3.5 `DatabaseSession` and `QueryRunner`

`DatabaseSession` is what the runners rely on the server for, and external to
the repository. A session is a stack of frames (the transaction and its
savepoints) with the work done in each, whether PostgreSQL has given the
transaction up (`failed`), whether a session option differs from the pool's
(`changed`), and whether the connection lives. A statement is an operator from
a session to a reply. `Replies` adds what may happen to it: it is refused, or
the connection is lost before or after the server executed it. So a COMMIT may
be durable although the client sees an error.

`QueryRunner` is the transaction protocol of `PostgresQueryRunner` and
`OracleQueryRunner`: `StartTransaction`, `CommitTransaction`,
`RollbackTransaction` and `Execute` map a runner (`active`, `depth`, `released`)
and a session to the set of outcomes, those in which a subscriber throws before
or after the statement included. The order in which the code sets its two fields
and sends its statement is kept, and with it the states that follow from it:
after a START TRANSACTION that failed the runner is active at depth 0, and a
rollback makes that depth -1.

### 3.6 `Transactions`

Calls over one pool. `kind[k]` is which code the call runs: *execute* (`call`,
`callSqlTransaction`), *configured* (the same with `optionsCommands`), *manager*
(an application that nests `transaction()` on an entity manager and may catch
what it throws) or *persist* (`EntityPersistExecutor` with a runner of its own).
`at[k]` is where it is; a step is one call of a query runner with its outcome
and what the code does with it before it awaits again. `open[k]` is the stack
of `transaction()` calls with the work done in each; `invalid[k]` is the mark of
an error that invalidates the connection; `opts[k]` is how far
`DatabaseOptionsExecutor` got. One option stands for all, and a failure may
leave any part of several in force (`before` in `ApplyOptions`).

From outside, a connection may break under a call (`ConnectionError`) and the
pool may be closed (`ClosePool`); both release the runner in the middle of what
the call does, which then goes on with a runner that has no connection.

History: `kept` and `undone` are the work of transactions that resolved and that
were rejected; `swallowed` are calls whose callback went on in a transaction
that PostgreSQL had given up, or whose connection is gone; `astray` are calls
whose callback went on after the failure of a nested `transaction()` had rolled
back more than that one: everything, or at a deeper level the work of the
callback itself, so that the runner counts one level too few and the COMMIT of
the outermost one goes out too early (finding 5); `tainted` says that a subscriber
threw at one of two places where the code forgets about it: before a nested
transaction starts (`isTransactionActive` is then false while the outer one is
open), or before the rollback of `EntityPersistExecutor`, which ignores the
failure. What happens afterwards is left open: `IdleIsClean` and
`OutcomesAreTrue` promise nothing once a subscriber did that.

### 3.7 `Migrations`

Executions of `executePendingMigrations` and `undoLastMigration` one after
another, by processes that may die at any step (`Crash`). `BeginExecution` picks
the migrations that the source code of this process knows, the task, the mode
and `fake`; `override` is the `transaction` property of each class. `pc` is where
the execution is; `session` is the connection of its runner, and `schema` and
`records` are what is durable: the migrations in place and the rows of the
migrations table. The table is a set of rows: what the code relies on is the order
of the generated ids (`orderBy('id', 'DESC')`), so that a row that is inserted
gets an id above those that are there (`NewRow`), and `LastRow` is the one with
the highest. `Sorted` is the order of `getMigrations` by timestamps. On Oracle
each statement of `up` or `down` that changes the schema commits what is open
(`ChangeSchema`).
`InsertElsewhere` is a mutant. `loose` and `doubtful` are history: migrations
that were dealt with outside of a transaction, for which a failure may separate
the change and its row, and those of them that were faked or undone.

Subscribers that throw are left out here (`Undisturbed`), and so are two
processes that migrate at the same time: the code takes no lock, and what they
do to each other depends on the migrations themselves.

### 3.8 `OracleNotify`

One `listenNotify` call with several operations; each has its own connection,
pool entry, queue, restore and close, and is a *channel* of the module.
`reg`, `regNext` and `regConn` are the loop of the registration and the
connection it is about to publish; `undoing` is its catch block, which closes
what was registered. `restore` and `close` are where `restoreSubscription` and
the close promise of each channel are. `queue` and `handling` are the messages:
a *change* runs the callback, a *dereg* starts a restore and waits for it inside
the queue. `destroy` closes what it finds, waits, and closes what appeared
meanwhile. `PerformClose` is `performCloseSubscription` up to its first await.

`cancelled` is `isCancelled`. It is set where a close begins, and reset by the
end of any restore (`EndRestore`) and, if no restore is active, by
`clearNotificationRestoreState` once a close goes on (`CloseContinues`). A
restore may begin in between, while the close drains the queue: from a second
deregistration in that queue, or from a health check whose answer arrives then.
No flag of the close reaches it. The history variable `late` has the channels
with such a restore that was still under way when the close went on; `closed`
has those of which a close was over.

Left out: the text and the row limit of the refetch query, the timers that only
repeat an attempt, and the catch block that would restore under a new name,
which nothing reaches, because `closeSingleConnection` absorbs its errors. When a
close that timed out forgets the queue of a channel, a message that is still
processed in it is forgotten too (`CompleteNotificationQueueClose`): its end no
longer shows in `handling`, and what it then does to the map of queues, which by
finding 6 may hold a newer one, is left out.

### 3.9 `DedicatedConnections`

The abstract specification that both notification adapters implement, from what
`DatabaseNotify` and the two adapters have in common. A channel has no
connection, or one that is being set up, or one that is *published*; `leaving`
are the connections that are open and belong to no channel any more. A
connection is opened only for a channel that has none (`Open`), published once
and never after `destroy()` began (`Publish`), and closed only if it was never
published or was withdrawn by an earlier step (`Close`): the registry forgets a
connection before the adapter awaits its close.

For PostgreSQL (`Contract` in `PostgreNotify`) there is one channel. Its client
is that of the pool, or the one of the registration that got past the guards;
published is the one of the pool; leaving is every other open client. For Oracle
(`Contract` in `OracleNotify`) a channel is an operation of the call, and its
connection that of the pool, or the one that a restore or the registration is
subscribing. A step of the code may withdraw several connections at once (the
two passes of `destroy()`, the undoing of a registration), so `Withdraw` takes
sets.

## 4. What is checked

| Run | Instance | Distinct states | What it shows |
|---|---|---|---|
| `procedure_metadata` | 2 packages, 3 runs, 3 versions, 2 failures | 310,503 | safety and liveness of the registry |
| `procedure_metadata_gap` | 2 packages, 2 versions, no failure | | *violation*: a change between the initial fetch and LISTEN is never fetched |
| `postgre_notify` | 2 `listenNotify` calls, 3 clients, 3 faults, 2 `unlistenNotify` calls | 54,726 | safety and liveness of a channel |
| `postgre_notify_resubscribe` | as above, 1 fault | | *violation*: an `unlistenNotify` that joins an older close |
| `notification_queue` | 3 clients, 3 queues, limit 3 | 19,114 | the callback queue |
| `notification_queue_stale` | limit 2 | | *violation*: an old callback forgets the new queue |
| `kit_lifecycle` | 2 callers, master and one slave, 3 failures | 2,737 | the kit implements its contract, answers and ends |
| `kit_lifecycle_pools` | 1 failure, partial connect | | *violation*: a rollback drops open pools |
| `transactions` | 2 calls, 1 connection, 2 statements and 2 transactions each, 2 failures, both databases | 292,900 | the pool, its transactions and session options |
| `transactions_nested` | as above | | *violation*: what a rejected `transaction()` did can stay |
| `migrations` | 2 migrations, 3 executions, 2 failures or crashes, both databases, all modes and overrides | 1,058,115 | what is in place and what is recorded agree |
| `oracle_notify` | 2 operations, 4 connections, 3 messages, a queue of 2, 2 failures | 423,182 | safety and liveness of Oracle subscriptions |

### 4.1 Properties

**Registry.** `RefreshNotLost`: a package whose snapshot is older than its last
request has a fetch that will read a newer version, or an armed timer.
`OneFetchPerPackage`; `SnapshotOnlyAdvances`: overlapping requests, stale
answers and reruns never put an older snapshot over a newer one.
`ChannelClosedAfterRefreshes`, `DestroyedIsQuiet`, `NoPublishAfterDestroy`: the
order and the completeness of a shutdown, also one that is the rollback of a
failed start, with fetches still in flight. `RequestServed` and
`ShutdownCompletes` are their liveness.

**Channel.** `NoClientForgotten`: every open connection belongs to the pool, to
a close or to a registration. `OneListener`. `UnlistenIsFinal`: after
`unlistenNotify` no restore brings the listener back, if `listenNotify` was
called once or the application is undisturbed. `CallbackKept`: for such an
application the listener calls the callback registered last.
`ImplementsContract` (refinement of `DedicatedConnections`): no second client is
opened while the channel has one, none is published after `destroy()` began, by
a registration that it stopped waiting for either, and none is closed before it
was withdrawn. `DestroyClosesClients`. `CancelledRestoreEnds`.
`ListenerRestored`: a subscription that was not ended has a live client again
and again, even if the driver reports no loss.

**Queue.** `SerialUntilTimeout`, `DrainedBeforeClose`, `ClosedListenerIsSilent`,
`CloseEnds`, and in `TypeOK` the limit of each queue.

**Kit.** `ImplementsContract` (refinement), `ReadyIsComplete`, `AnswersAreTrue`,
`NoWorkDuringShutdown`, `CallersAnswered`, `ShutdownEnds`.

**Execution and transactions.** `IdleIsClean`: a connection that the pool may
give to anybody has no open transaction and no changed option. `OutcomesAreTrue`:
the work of resolved transactions is durable, and that of rejected ones is not
and never becomes so through the next user of the connection, but for callbacks
that are `swallowed` or `astray`.
`LeasesAreExclusive`; `CallsEnd`.

**Migrations.** `InStep`: a migration is in place exactly when it is recorded,
and one that is recorded is in place. `RowsInOrder`, `AllOrNothing`,
`LastIsReverted`.

**Oracle.** `NoConnectionForgotten`, `ImplementsContract` (the same contract),
`CloseEnds`, `SubscriptionRestored`. `ClosedIsFinal` is about the restores that a
close cancels; the ones that begin while it drains the queue and outlive that
are exempted (`late`) and reported as finding 6.

Every state module states its `TypeOK`. It is a theorem for the registry, the
kit, both channels, the queue and the migrations (`TypeCorrect`,
`KitTypeCorrect`, `ChannelTypeCorrect`, `OracleTypeCorrect`, `QueueTypeCorrect`,
`MigrationTypeCorrect`), and only that of the queue, which states the limit of
its events, is checked by a run as well; what the proofs of `Transactions` need
of its types are conjuncts of its inductive invariants.

Each property of a passing run is broken by a *mutant*, a version of one modelled
definition with a plausible bug, which stands just before the definition and is
not used by the specification.

### 4.2 Bounds

* *Registry*: three versions are the least at which a fetch can hold an answer
  older than one published by a later fetch while the database is newer than
  both. Two failures: a fetch that no refresh awaits is in flight at
  `ProcedureListBase.destroy` only after an earlier failure armed a timer, and
  its own failure is the second. Three runs: two packages, and one run more than
  the code can need, so that a mutant that starts a second fetch finds one.
* *Channel*: three clients are one in the pool, one being closed and one being
  registered. Three faults allow a loss, a failing attempt and a loss of the
  restored client. Two `unlistenNotify` calls and two `listenNotify` calls are
  needed for a new subscription that meets the remains of an older one.
* *Queue*: three events are one running, one waiting, one at the limit; three
  clients and queues are the current one, the one being closed and one whose
  callback still runs.
* *Kit*: two callers (one starts, one joins), a master and one slave, and three
  failures: of the start, of the rollback and of the shutdown.

* *Transactions*: one call is of any kind, the other of the simplest one, and
  they share a single connection, so that the later one meets whatever the
  earlier one left on it. Two transactions are an outer and a nested one, or two
  in a row; two statements are one inside each. Two failures are the one that
  starts the trouble and the one of the rollback or of the restoring of options.
* *Migrations*: two migrations are one that is done and one that fails, and
  allow one with an older timestamp to be added later. Three executions are one
  that stops, one that goes on from what is durable, and one that reverts.
* *Oracle*: two operations make a registration that fails half way; four
  connections are more than can be open at a time; a queue of two is one message
  being processed and one waiting, so that a third one is refused.

The violation runs use the smallest bounds at which their scenario fits.
Deadlock is checked for the queue, which never stops. The other systems stop:
once destroyed with all bounds used up there is nothing left to do.

### 4.3 Fairness

Weak fairness stands for: the database and the network answer or a time limit
of the code fires (`QueryReads`, `CloseDone`, a registration, a ping,
`InitStep`, `CleanupStep`), armed timers fire (`RetryTimerFires`,
`RetryDelayEnds`, `HealthCheckTick`, `DrainEnds`), and code that is ready to run
runs (`Publish`, `DeliverChange`, the steps of a destroy, `SignalResent`). No
fairness is assumed for the application's calls, for faults, for the driver's
report of a lost connection or for the end of a callback. Faults are bounded:
`RequestServed` and `ListenerRestored` say what happens when the database works
again, not that it does.

In `Transactions` the steps of a call are fair: the server answers or the
connection breaks, the callback ends, and an application releases the manager it
asked for. The end of the pool and broken connections are not. In `OracleNotify`
the steps of the call, of a close, of the queue and of a restore are fair, so a
callback ends; no close relies on its time limit. Losses and messages are not
fair. `Migrations` has no liveness property and no fairness.

In `KitLifecycle` one weak fairness covers all steps of an initialization: they
are successive, so the one that is enabled stays so until it is taken. In
`ProcedureMetadata` the fairness of `QueryReads` and `Publish` assumes that
the pool, from which the queries get their connection, answers.

## 5. Findings

1. **A change can be missed for good** (`procedure_metadata_gap`). All packages
   are fetched before the channel is subscribed (`index.ts:173`, then 189-193),
   and a listener restored after a loss refetches nothing
   (`postgre-notify.ts:346-369`). A package that changes in between stays stale
   until it changes again.
2. **`unlistenNotify` can leave a live listener** (`postgre_notify_resubscribe`).
   `closeNotificationChannel` joins a close that is active, whatever client it
   closes (`database-notify.ts:141-142`). The close of a client that a cancelled
   restore had registered is still under way when a new `listenNotify` publishes
   another client; `unlistenNotify` for that one joins the older close. The
   client that it missed may later die, and while its restore waits for the next
   attempt another `listenNotify` publishes a client with a new callback: the
   restore closes that one and registers the callback that was unlistened
   (`database-notify.ts:288-307`, 381-416; `postgre-notify.ts:346-369`). That
   takes a third `listenNotify` call and was found by a step of the proof of
   `CallbackKept` that failed; that property and `UnlistenIsFinal` are therefore
   stated for calls that `missed` no client.
3. **An old callback forgets the new queue** (`notification_queue_stale`). The
   `finally` of `enqueueNotificationPayload` deletes the map's queue without
   comparing it with its own (`postgre-notify.ts:191-196`). After a close that
   gave up on a slow callback, callbacks of the next listener run concurrently
   and beyond the limit.
4. **A failed connect can leak pools** (`kit_lifecycle_pools`).
   `PostgresDriver.connect` opens the slaves' pools and then the master's
   (`PostgresDriver.ts:430-440`); if a later one fails the data source is not
   initialized, the rollback does not destroy it and drops it with its pools.

5. **A rejected `transaction()` can leave work behind** (`transactions_nested`).
   When the SAVEPOINT of a nested `transaction()` is refused, the runner still
   describes the outer transaction, so the catch block of the nested call
   (`EntityManager.ts:165-168`) sends ROLLBACK for the outer one. An outer
   callback that handles the error goes on without a transaction; the outer call
   rejects at its COMMIT, and what was done after the ROLLBACK stays. One level
   deeper it is ROLLBACK TO the savepoint of the middle `transaction()`, whose
   work is lost while it goes on; its own commit is then sent as the COMMIT of
   the whole, and what the outermost one does later is in no transaction. The
   two `transaction()` calls of the run do not reach that; the proof of
   `OutcomesAreTrue` did, and the runs with three and four of them confirm it,
   which is why `astray` asks how far the runner counts. The doc of
   `EntityManager.transaction` promises that "all operations made there" are in
   the transaction (`EntityManager.ts:114`).

6. **An Oracle subscription can come back after `unlistenNotify`** (no run of its
   own: `ClosedIsFinal` exempts the channels in `late`, and without the exemption
   `oracle_notify` finds it). `cancelNotificationRestore` "prevents queued restore
   work from recreating a notification after manual unlisten or destroy"
   (`database-notify.ts:255-256`), but only until the restore that is active ends
   (301). Take two deregistrations in the queue of a channel. The first
   one's restore is under way when `unlistenNotify` cancels it and starts to
   drain the queue; it ends and resets the flag. The second one finds no
   cancellation and starts another restore, which takes the connection out of
   the pool and connects. The drain times out, finds no connection and only
   clears bookkeeping (`oracle-notify.ts:115-121`, `database-notify.ts:275-281`).
   `unlistenNotify` has resolved, and then the restore publishes. The undo of a
   failed `listenNotify` can lose to a health check in the same way, which is
   the shortest trace. `destroy()` is
   not affected, since `isDestroyed` cancels every restore.

Other observations are not findings, because no document speaks of them:

* A restore that waits for its next attempt closes the client that a
  `listenNotify` call registered meanwhile and reinstates the older callback
  (`postgre-notify.ts:351`). It needs a second `listenNotify` for a channel that
  is still subscribed, which is why `CallbackKept` is stated for calls that do
  not overlap.
* The guard of a late loss report (`postgre-notify.ts:109`) matters only to calls
  that overlap: an application that calls `listenNotify` before its
  `unlistenNotify` has ended may see the old client lost while it is being
  closed, and without the guard that report would restore the old callback. The
  guard is in the model (`LossReported`), but no property of the run fails
  without it.
* `OracleQueryRunner.commitTransaction` (251-263) sends nothing at a depth other
  than 1 and does not look at `isReleased`: a nested `transaction()` resolves
  although its connection is gone. The outer COMMIT fails.
* A subscriber that throws before a nested transaction resets
  `isTransactionActive` although the outer one is open, and
  `EntityPersistExecutor` ignores a rollback that fails (`tainted`, section 3.6).
* A COMMIT of a transaction that PostgreSQL gave up is answered by a rollback and
  no error: a callback that swallowed the failing statement is told a success.
* What fails in `MigrationExecutor` before its `try` block (loading the rows, a
  conflict of modes, START TRANSACTION of mode `all`) rejects without releasing
  the runner.

## 6. What is proved

TLAPS proves the following for every value of the constants: any set of
packages, any number of runs, versions, callers, pools, calls, connections,
nested transactions, operations, messages, migrations and failures. The only
assumptions are the `ConstantsAssumption` of each module, and, for the
refinement theorem of the kit, `~PartialConnect`.

### 6.1 `ProcedureMetadata_proofs`

`Invariance` proves the inductive invariant `IInv`, and the other theorems follow
from it: `TypeCorrect`, `RefreshesAreNotLost`, `FetchesAreExclusive`,
`ChannelClosesLast`, `QuietAfterDestroy`, and the action properties
`SnapshotsAdvance` and `NoLatePublish`.

None of the properties is inductive alone. A run that is described only by its
stage could publish for a package whose table entry is another run's, so
`RunsBound` and `StatesBound` tie each run to its package and back.
`PhaseFacts` and `ShutdownFacts` say that what a step of the destroy awaits
covers everything in flight: the refreshes that were awaited are all there are,
since no refresh starts after the flag is set. `VersionFacts` carries the
argument for `SnapshotOnlyAdvances`: an answer in hand is at least as new as the
snapshot of its package, because nobody else can publish for the package while
the run is in flight, and a new query reads the database again. `FetchFacts` is
stronger than `RefreshNotLost`: a fetch in progress will satisfy the last request
even when a retry timer is armed, which is what makes it right that publishing
disarms the timer.

### 6.2 `KitLifecycle_proofs`

`KitInvariance` proves `KitInv`: `ControlFacts` says which steps of an
initialization, a cleanup and a destroy can be under way together (one cleanup
at a time; a destroy waits for an initialization), `SourceFacts` and `PoolFacts`
what the data source holds in each, `MainFacts` and `AdapterFacts` what exists
besides. From it follow `KitTypeCorrect`, `ReadyKitIsComplete`, `AnswersHold`,
`ShutdownWorksAlone` and the refinement `KitImplementsContract`: `Init` maps to
the contract's `Init`, and each action to the contract's action named in
`ContractStep` or to a stutter. The assumption `~PartialConnect` is needed: with
the leak of finding 4 a kit is new again while it holds pools, which the
contract excludes.

### 6.3 `Transactions_proofs`

`ConnectionsAreLeasedOnce` follows from `LeaseInv`, which adds to
`LeasesAreExclusive` that a call without a connection so far has a new runner.

`IdleConnectionsAreClean` needs to know what a connection may look like *before*
it comes back. `CleanInv` says so for each call that holds a live one (`Fits`):

* `Knows`: no transaction is open that the runner does not know of, and the
  runner counts no more of them than `transaction()` calls are open. The second
  half is what makes a rollback at the outermost level end everything: there
  `depth <= 1`, and `RollbackTransaction` sends ROLLBACK and not ROLLBACK TO.
* `OptionsEnd`: a changed option belongs to a call with options; on PostgreSQL
  the transaction that it ends with is known to the runner; on Oracle it will be
  restored, or the call is about to fail with the mark that drops the connection.
* `LevelInv`: `transaction()` calls are open exactly while the call is inside of
  one, and only an application nests them.

The first lemmas say what each method of a runner may do to the session and to
the runner's fields (`StartOutcome`, `CommitOutcome`, `RollbackOutcome`), from
those about single statements (`BeginIs`, `SavepointIs`, `RollbackToIs`, `DoIs`,
...). `OneCall` and `OneReturn` are the frame: a step of one call disturbs no
other, because leases are exclusive. Then there is one lemma per action. The
facts `Fits` are promised only while no subscriber threw at one of the two places
of `tainted`, and a dead connection needs none, since it is never idle.

### 6.4 `TransactionOutcomes_proofs`

`CallsAreToldTheTruth` is `OutcomesAreTrue` for any number of calls,
connections, statements, failures and levels of nesting. To know what a COMMIT
will make durable one has to know what the frames of the session hold, so
`OutcomeInv` adds to `CleanInv` for each call `k`:

* `Told`: its resolved work is durable, and, unless it is astray, neither its
  rejected work nor that of an open `transaction()` is.
* `Counts`, `Exact`: the runner never counts more levels than are open, and while
  the callback of a call that is not astray runs it counts exactly those. A
  failing call may count one too few: its `startTransaction` did not get far
  enough.
* `Honest`: no frame holds rejected work, and no savepoint of an outer level
  comes after work of an inner one. The second half is what keeps the first
  when ROLLBACK TO goes back: whichever savepoint it goes back to, the work of
  the innermost level is behind it. It holds whatever the runner counts.
* `Mirrors`, if the runner counts exactly: `Ordered`, the latest savepoints were
  set in the order of the levels, and `Covers`, the work of each level is in a
  frame before the latest savepoints of its own and of the inner levels. So
  RELEASE and ROLLBACK TO at one level leave the work of the outer ones where it
  is, and the final COMMIT finds all of it.
* `Gone`: an Oracle call that goes on without its connection is `swallowed`,
  because its nested commits send nothing and notice nothing.

All of it is promised for a live connection that is still trusted (`Stored`): a
dead one commits nothing, and `invalid` drops it. Savepoints may repeat, since a
ROLLBACK TO keeps its savepoint and the next nested `transaction()` sets another
of the same name; the lemmas about frames (`HonestBack`, `CoversMerged`,
`OrderedMerged`, ...) therefore speak of the *latest* savepoint of a name
(`IsCut`), whose existence is proved by descent (`GreatestIn`, `Latest`). Then
come the replies of the server, the methods of the runner (`StartedWith`,
`CommittedWith`, `RolledBackWith`), a frame for the other calls (`OthersTrue`:
the work of two calls is disjoint, and so are their connections), and one lemma
per action.

### 6.5 `OracleNotify_proofs`

`OracleTypeCorrect` is the type invariant. `ClosedInv` gives
`ClosedSubscriptionsStayClosed`: `RegFacts` says which channels a registration
has reached and, when it fails, closed. `CloseFacts` says that from the moment a
close takes the connection nothing waits in the queue, and that from the moment
it begins a restore that is still under way knows that it is cancelled, both
except for the channels in `late`, whose restore no close has cancelled
(finding 6). The cancellation has to be stated from the beginning of the close:
`CloseContinues` only keeps the flag, and that it is set then follows from the
restores that began before the drain. `ConnInv` gives `OracleConnectionsKept`: `OpenFacts` (open is held by
somebody), `HolderFacts` (a close, a restore and a registration hold a
connection exactly while they have to give it back, and a restore has emptied
the pool before it opens another), `OwnerFacts` (no connection has two owners,
without which closing one would close another's) and `DestroyFacts` (after the
first look of `destroy()` what is still in the pool is being closed).

`OracleImplementsContract` rests on `ConnInv`. `ConnIsSeen` says how the
connection of a channel under the refinement mapping follows from where the
channel is, and `ContractWithdraws` how the mapping reads a step that only takes
connections away. Most steps are of that form: `StepRetracts` shows of each that
some channels give up the connection they have and that at most the connection
of the registration, which was never published, is closed (`RetractIsClose`).
That covers losses, failures and the moments at which a close, a restore or
`destroy()` empties the pool. The others are a connection that is opened
(`ConnectedOpens`, `RestoreConnectedOpens`), one that is published
(`SubscribedPublishes`, `RestoreSubscribedPublishes`) and one that is closed
after it was withdrawn (`LeavingCloses`); `ContractStep` puts them together.

### 6.6 `PostgreNotify_proofs`

`ChannelInvariant` proves `ChannelInv`. `RegFacts`: one registration gets past
the two guards, and none while a client is published. `ClientFacts`: the client
of the channel, that of the close and that of the registration are open,
different, and all that are open; it contains `NoClientForgotten`. `CloseFacts`
and `WaiterFacts` say what the two phases of a close know and who waits for it,
`DestroyFacts` that a pass of `destroy()` leaves a client in the pool only while
it waits for the close that takes it out, `RestoreFacts` that a restore
registers only after it closed what was left. From it follow
`ChannelTypeCorrect`, `ClientsKept`, `AtMostOneListener`,
`NothingPublishedAfterDestroy` and `CancelledRestoresEnd`.

`UnlistenIsFinal` and `CallbackKept` need `SubscriptionInv`: what a call of
`listenNotify`, one of `unlistenNotify` and a restore leave behind for the next
one. `ListenedOnceFacts` covers an application that calls `listenNotify` once
and overlaps as it likes; `UndisturbedFacts` one that awaits its calls: an ended
subscription leaves no client but one that is being drained and no restore but a
cancelled one. The theorems are `UnlistenedForGood` and `CallbacksKept`.

`ChannelImplementsContract` follows from `ChannelInv` in the same way. The
mapping chooses *the* client of a registration, and that there is one at most is
what `RegFacts` and `ClientFacts` say (`ClientIsSeen`). `ConnectedOpens` needs
that no client is published while a registration is past its guards, and
`ListenedPublishes` that the pool is still empty when LISTEN is answered.
`ContractStep` maps every action of the code to the action of the contract or to
a stutter. The contract includes what `NothingPublishedAfterDestroy` says; that
theorem stands because its proof needs no invariant.

### 6.7 `PostgreNotificationQueue_proofs`

`QueueInvariant` proves `QueueInv`: `CloseFacts` (the phases of a close),
`ActiveFacts` (the queue of the map belongs to the published client and runs,
unless a close is under way), `OwnerFacts`, and `WaitedFacts`: as long as no
close gave up, no older queue lives on beside that of the map. From it follow
`QueueTypeCorrect` (a queue never holds more than its limit),
`CallbacksAreSerial`, `ClosedListenerSilent` and `AcceptedEventsDrained`.

### 6.8 `Migrations_proofs`

`MigrationInvariant` proves `MigrationInv`. Its `LastingFacts` hold wherever an
execution is: no two rows have the same id or the same migration (`IsTable`),
`pending` is what was found to do when the rows were loaded (`PendingFacts`), the
rows are those that were loaded together with those of a prefix of `pending`, or
without the last one (`RecordFacts`), and `InStep`. None of that is inductive
without what is not durable yet: `PlaceFacts` says for each place of the executor
which migrations have their row in the table or in the open transaction (`Dealt`,
`Undoing`), that `up` and the row of a migration are work of the same transaction
or the migration is `loose` (`Paired`), and that the runner knows whether a
transaction is open (`IsSound`).

A step changes the database by `Durable` alone. The lemmas `NothingDurable`,
`DoneDurable` and `UndoneDurable` say what that is for no work, for that of `up`
and `insertExecutedMigration`, and for that of `down` and
`deleteExecutedMigration`; `DataKept`, `DataDone` and `DataUndone` that the
lasting facts survive it; `ExecuteAnswers`, `ChangeSchemaAnswers`,
`StartAnswers`, `CommitAnswers` and `RollbackAnswers` which work an answer of the
database makes durable, whether it is due, refused, late or lost. Each action is
then one lemma over these. That `PendingMigrations` exists and is sorted
(`PendingIsSorted`), and that a table has a last row (`LastRowOfTable`), follow by
well-founded induction on numbers.

From the invariant follow `MigrationTypeCorrect`, `SchemaInStep`,
`RowsStayInOrder` (through `RowsOfPlaces`), and from what `NextKeeps` says of the
rows of a step `OnlyLastReverted` and `AllMigrationsOrNone`.

### 6.9 Checked only

Liveness (`RequestServed`, `ShutdownCompletes`, `ListenerRestored`,
`DestroyClosesClients`, `CloseEnds`, `CallersAnswered`, `ShutdownEnds`,
`CallsEnd`, `SubscriptionRestored`) is outside what TLAPS handles with fairness
and stays with TLC. The violated properties have no theorem, of course. Every
other property of a run is a theorem.

## 7. What is not modelled

* **Result materializers** (`postgre-result-materializer.ts`,
  `oracle-result-materializer.ts`, `procedure-resource-tracker.ts`): sequential
  code over one result, which counts rows and bytes and closes cursors and LOBs
  in a `finally` block. That it may fail is in `Transactions` (`Statement` and
  `CallbackThrows`).
* **Utilities** (`queue-manager.ts`, `event-bus.ts`, `async-utils.ts`): exported
  to applications; the kit does not rely on them.
* **Binding and SQL builders, serializers, naming, logging**: text and values
  computed without state.
* **NestJS module, decorators**: they forward to the kit or to TypeORM.
* **The embedded TypeORM** beyond data source, PostgreSQL pools, runners,
  `EntityManager.transaction`, `EntityPersistExecutor` and `MigrationExecutor`:
  entity metadata, query builders, cascades, schema builder and the DDL half of
  the runners turn data into SQL text sequentially. They are most of the lines
  of the repository and third-party in origin.
* **Parts of what is modelled**: replication and the choice of a slave, streams,
  the validation of option texts, `executeMigration`, `insertMigration` and
  `deleteMigration` (which the kit does not call), `showMigrations` (which reads),
  concurrent migrations, and a pending `connect()` of a runner that is released,
  for which the kit has no caller.

## 8. Running it

```
tlc -config ProcedureMetadata.cfg MCProcedureMetadata.tla
tlapm ProcedureMetadata_proofs.tla
```

and likewise for the other runs, whose configurations are listed in
`PROJECT.json`.
