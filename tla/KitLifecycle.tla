---------------------------- MODULE KitLifecycle ----------------------------
(***************************************************************************)
(* initDatabase(), its rollback, destroy() and the shutdown signals of     *)
(* TypeOrmProcedureKit (src/src/core/index.ts), with the initialization    *)
(* of the data source (src/src/core/database-initializer-base.ts,          *)
(* src/src/typeorm/data-source/DataSource.ts,                              *)
(* src/src/typeorm/driver/postgres/PostgresDriver.ts).                     *)
(*                                                                         *)
(* Each await is a point where other callers run.  The kit has a pool for  *)
(* the master and for each slave.  Closing the notifications and the       *)
(* metadata registry is ProcedureMetadata and PostgreNotify: here it ends  *)
(* without an error, as it does there.                                     *)
(***************************************************************************)
EXTENDS Integers, FiniteSets

CONSTANTS Callers,        \* callers of initDatabase
          Pools,          \* number of pools
          PartialConnect, \* connect may fail with pools open
          MaxFailures     \* bound: failures of I/O

ASSUME ConstantsAssumption ==
    /\ Pools \in Nat \ {0}
    /\ PartialConnect \in BOOLEAN
    /\ MaxFailures \in Nat

VARIABLES
    state,         \* the state of the kit
    init,          \* where initDatabaseInternal is, "none" if not running
    destroy,       \* destroyPromise: "none", "waiting", "cleaning", "done"
    cleanup,       \* where cleanupResources is, "none" if not running
    errors,        \* cleanupResources met an error
    main,          \* the main classes are set
    pools,         \* open pools of the data source
    isInitialized, \* of the data source
    orphans,       \* open pools of data sources that were dropped
    unreleased,    \* history: the last DataSource.destroy failed
    adapter,       \* "none", "fresh" or "terminal": notifications destroyed
    channel,       \* the metadata channel is subscribed
    handlers,      \* signal handlers are registered
    signal,        \* "none", "received" or "resent"
    answer,        \* [Callers -> state of their initDatabase promise]
    failures       \* bound on failures

kitVars    == <<state, init, destroy, cleanup, errors>>
sourceVars == <<pools, isInitialized, orphans, unreleased>>
notifyVars == <<adapter, channel>>
signalVars == <<handlers, signal>>
vars == <<kitVars, main, sourceVars, notifyVars, signalVars, answer, failures>>

TypeOK ==
    /\ state \in {"new", "initializing", "ready", "destroying", "destroyed"}
    /\ init \in {"none", "connecting", "preparing", "aborting", "migrating",
                 "fetching", "subscribing", "rollback"}
    /\ destroy \in {"none", "waiting", "cleaning", "done"}
    /\ cleanup \in {"none", "notifications", "pools", "over"}
    /\ errors \in BOOLEAN
    /\ main \in BOOLEAN
    /\ pools \in 0..Pools
    /\ isInitialized \in BOOLEAN
    /\ orphans \in Nat
    /\ unreleased \in BOOLEAN
    /\ adapter \in {"none", "fresh", "terminal"}
    /\ channel \in BOOLEAN
    /\ handlers \in BOOLEAN
    /\ signal \in {"none", "received", "resent"}
    /\ answer \in [Callers -> {"none", "pending", "resolved", "rejected"}]
    /\ failures \in 0..MaxFailures

Init ==
    /\ state = "new"
    /\ init = "none"
    /\ destroy = "none"
    /\ cleanup = "none"
    /\ errors = FALSE
    /\ main = FALSE
    /\ pools = 0
    /\ isInitialized = FALSE
    /\ orphans = 0
    /\ unreleased = FALSE
    /\ adapter = "none"
    /\ channel = FALSE
    /\ handlers \in BOOLEAN
    /\ signal = "none"
    /\ answer = [c \in Callers |-> "none"]
    /\ failures = 0

Fault == failures < MaxFailures /\ failures' = failures + 1

\* assertNotDestroyed
NotDestroyed == state \notin {"destroying", "destroyed"}

Answer(a) == answer' = [c \in Callers |-> IF answer[c] = "pending"
                                          THEN a ELSE answer[c]]

-----------------------------------------------------------------------------
(***************************************************************************)
(* initDatabase                                                            *)
(***************************************************************************)

\* Mutant of InitDatabase: a call that meets a running initialization returns.
InitDatabaseNotJoined(c) ==
    /\ answer[c] \in {"none", "rejected"}
    /\ \/ /\ ~NotDestroyed
          /\ answer[c] = "none"
          /\ answer' = [answer EXCEPT ![c] = "rejected"]
          /\ UNCHANGED <<state, init, adapter>>
       \/ /\ state \in {"ready", "initializing"}
          /\ answer' = [answer EXCEPT ![c] = "resolved"]
          /\ UNCHANGED <<state, init, adapter>>
       \/ /\ state = "new"
          /\ answer' = [answer EXCEPT ![c] = "pending"]
          /\ state' = "initializing"
          /\ init' = "connecting"
          /\ adapter' = IF adapter = "none" THEN "fresh" ELSE adapter
    /\ UNCHANGED <<destroy, cleanup, errors, main, sourceVars, channel,
                   signalVars, failures>>

\* A call is answered at once, joins the running initialization or starts one.
InitDatabase(c) ==
    /\ answer[c] \in {"none", "rejected"}
    /\ \/ /\ ~NotDestroyed
          /\ answer[c] = "none"
          /\ answer' = [answer EXCEPT ![c] = "rejected"]
          /\ UNCHANGED <<state, init, adapter>>
       \/ /\ state = "ready"
          /\ answer' = [answer EXCEPT ![c] = "resolved"]
          /\ UNCHANGED <<state, init, adapter>>
       \/ /\ state \in {"new", "initializing"}
          /\ answer' = [answer EXCEPT ![c] = "pending"]
          /\ state' = "initializing"
          /\ init' = IF init = "none" THEN "connecting" ELSE init
          /\ adapter' = IF adapter = "none" THEN "fresh" ELSE adapter
    /\ UNCHANGED <<destroy, cleanup, errors, main, sourceVars, channel,
                   signalVars, failures>>

\* cleanupResources begins: the main classes are detached, then what they
\* held is closed, the notifications first.
BeginCleanup ==
    /\ cleanup' = IF main THEN "notifications" ELSE "pools"
    /\ main' = FALSE
    /\ errors' = FALSE

\* initDatabaseInternal catches an error and rolls back.
RollBack ==
    /\ init' = "rollback"
    /\ BeginCleanup

\* PostgresDriver.connect opens the slave pools concurrently and then the
\* master's; pools counts those that are open.
PoolOpens ==
    /\ init = "connecting"
    /\ pools < Pools
    /\ pools' = pools + 1
    /\ UNCHANGED <<kitVars, main, isInitialized, orphans, unreleased,
                   notifyVars, signalVars, answer, failures>>

\* connect fails; the pools it opened, if any, stay as they are.
ConnectFails ==
    /\ init = "connecting"
    /\ Fault
    /\ IF PartialConnect THEN UNCHANGED pools ELSE pools' = 0
    /\ RollBack
    /\ UNCHANGED <<state, destroy, isInitialized, orphans, unreleased,
                   notifyVars, signalVars, answer>>

Connected ==
    /\ init = "connecting"
    /\ pools = Pools
    /\ isInitialized' = TRUE
    /\ init' = "preparing"
    /\ UNCHANGED <<state, destroy, cleanup, errors, main, pools, orphans,
                   unreleased, notifyVars, signalVars, answer, failures>>

\* DataSource.initialize ends: metadata and schema are ready.
Prepared ==
    /\ init = "preparing"
    /\ init' = "migrating"
    /\ UNCHANGED <<state, destroy, cleanup, errors, main, sourceVars,
                   notifyVars, signalVars, answer, failures>>

\* DataSource.initialize fails after it connected: it destroys itself first.
PrepareFails ==
    /\ init = "preparing"
    /\ Fault
    /\ init' = "aborting"
    /\ UNCHANGED <<state, destroy, cleanup, errors, main, sourceVars,
                   notifyVars, signalVars, answer>>

\* DataSource.destroy, which closes every pool, or fails with some still open.
PoolsClosed ==
    /\ isInitialized' = FALSE
    /\ pools' = 0
    /\ unreleased' = FALSE
    /\ UNCHANGED failures

PoolsCloseFails ==
    /\ Fault
    /\ pools' \in 1..pools
    /\ unreleased' = TRUE
    /\ UNCHANGED isInitialized

Aborted ==
    /\ init = "aborting"
    /\ PoolsClosed \/ PoolsCloseFails
    /\ RollBack
    /\ UNCHANGED <<state, destroy, orphans, notifyVars, signalVars, answer>>

\* Migrations are done: the main classes are created, and the metadata are
\* fetched unless the kit is being destroyed.
Migrated ==
    /\ init = "migrating"
    /\ IF NotDestroyed
       THEN /\ init' = "fetching"
            /\ main' = TRUE
            /\ UNCHANGED <<cleanup, errors>>
       ELSE /\ init' = "rollback"
            /\ cleanup' = "notifications"
            /\ main' = FALSE
            /\ errors' = FALSE
    /\ UNCHANGED <<state, destroy, sourceVars, notifyVars, signalVars, answer,
                   failures>>

\* The metadata are there: subscribe, unless the kit is being destroyed.
Fetched ==
    /\ init = "fetching"
    /\ IF NotDestroyed
       THEN init' = "subscribing" /\ UNCHANGED <<cleanup, errors, main>>
       ELSE RollBack
    /\ UNCHANGED <<state, destroy, sourceVars, notifyVars, signalVars, answer,
                   failures>>

\* Migrations, the metadata query or LISTEN fail.
StepFails ==
    /\ init \in {"migrating", "fetching", "subscribing"}
    /\ Fault
    /\ RollBack
    /\ UNCHANGED <<state, destroy, sourceVars, notifyVars, signalVars, answer>>

\* The channel is subscribed, and the kit ready unless destroy() was called.
Subscribed ==
    /\ init = "subscribing"
    /\ channel' = TRUE
    /\ init' = "none"
    /\ state' = IF state = "initializing" THEN "ready" ELSE state
    /\ Answer("resolved")
    /\ UNCHANGED <<destroy, cleanup, errors, main, sourceVars, adapter,
                   signalVars, failures>>

-----------------------------------------------------------------------------
(***************************************************************************)
(* cleanupResources, run by a rollback or by destroy                       *)
(***************************************************************************)

NotificationsClosed ==
    /\ cleanup = "notifications"
    /\ cleanup' = "pools"
    /\ channel' = FALSE
    /\ adapter' = "terminal"
    /\ UNCHANGED <<state, init, destroy, errors, main, sourceVars, signalVars,
                   answer, failures>>

\* The data source is destroyed if it is initialized.
CleanPools ==
    /\ cleanup = "pools"
    /\ cleanup' = "over"
    /\ \/ /\ ~isInitialized
          /\ UNCHANGED <<errors, pools, isInitialized, unreleased, failures>>
       \/ /\ isInitialized
          /\ PoolsClosed
          /\ UNCHANGED errors
       \/ /\ isInitialized
          /\ PoolsCloseFails
          /\ errors' = TRUE
    /\ UNCHANGED <<state, init, destroy, main, orphans, notifyVars, signalVars,
                   answer>>

\* Mutant of RolledBack: the adapter is kept for the next initialization.
RolledBackKeepsAdapter ==
    /\ init = "rollback"
    /\ cleanup = "over"
    /\ init' = "none"
    /\ cleanup' = "none"
    /\ Answer("rejected")
    /\ IF state = "destroying" \/ errors
       THEN /\ state' = IF state = "destroying" THEN state ELSE "destroyed"
            /\ handlers' = (handlers /\ state = "destroying")
            /\ UNCHANGED <<pools, orphans>>
       ELSE /\ state' = "new"
            /\ orphans' = orphans + pools
            /\ pools' = 0
            /\ UNCHANGED handlers
    /\ UNCHANGED <<destroy, errors, main, isInitialized, unreleased, adapter,
                   channel, signal, failures>>

\* Mutant of RolledBack: a kit that could not roll back is new again.
RolledBackAlwaysNew ==
    /\ init = "rollback"
    /\ cleanup = "over"
    /\ init' = "none"
    /\ cleanup' = "none"
    /\ Answer("rejected")
    /\ state' = IF state = "destroying" THEN state ELSE "new"
    /\ adapter' = IF state = "destroying" THEN adapter ELSE "none"
    /\ UNCHANGED <<destroy, errors, main, sourceVars, channel, signalVars,
                   failures>>

\* Mutant of RolledBack: a rollback during destroy() answers nobody.
RolledBackSilently ==
    /\ init = "rollback"
    /\ cleanup = "over"
    /\ init' = "none"
    /\ cleanup' = "none"
    /\ IF state = "destroying"
       THEN UNCHANGED <<state, adapter, pools, orphans, handlers, answer>>
       ELSE /\ Answer("rejected")
            /\ state' = IF errors THEN "destroyed" ELSE "new"
            /\ handlers' = (handlers /\ ~errors)
            /\ adapter' = IF errors THEN adapter ELSE "none"
            /\ UNCHANGED <<pools, orphans>>
    /\ UNCHANGED <<destroy, errors, main, isInitialized, unreleased, channel,
                   signal, failures>>

\* The rollback ends: without an error the data source and the adapter are
\* dropped and the kit is new again; otherwise it is of no further use.  If
\* destroy() was called, the rest is left to it.
RolledBack ==
    /\ init = "rollback"
    /\ cleanup = "over"
    /\ init' = "none"
    /\ cleanup' = "none"
    /\ Answer("rejected")
    /\ \/ /\ state = "destroying"
          /\ UNCHANGED <<state, adapter, pools, orphans, handlers>>
       \/ /\ state # "destroying"
          /\ ~errors
          /\ state' = "new"
          /\ adapter' = "none"
          /\ orphans' = orphans + pools
          /\ pools' = 0
          /\ UNCHANGED handlers
       \/ /\ state # "destroying"
          /\ errors
          /\ state' = "destroyed"
          /\ handlers' = FALSE
          /\ UNCHANGED <<adapter, pools, orphans>>
    /\ UNCHANGED <<destroy, errors, main, isInitialized, unreleased, channel,
                   signal, failures>>

-----------------------------------------------------------------------------
(***************************************************************************)
(* destroy and the signals                                                 *)
(***************************************************************************)

\* Mutant of BeginDestroy: a pending initialization is not awaited.
BeginDestroyAtOnce ==
    IF destroy # "none" \/ state = "destroyed"
    THEN UNCHANGED <<state, destroy, cleanup, main, errors>>
    ELSE /\ state' = "destroying"
         /\ destroy' = "cleaning"
         /\ BeginCleanup

\* The first call waits for a pending initialization, later ones join it.
BeginDestroy ==
    IF destroy # "none" \/ state = "destroyed"
    THEN UNCHANGED <<state, destroy, cleanup, main, errors>>
    ELSE /\ state' = "destroying"
         /\ IF init = "none"
            THEN destroy' = "cleaning" /\ BeginCleanup
            ELSE destroy' = "waiting" /\ UNCHANGED <<cleanup, main, errors>>

Destroy ==
    /\ destroy = "none"
    /\ state # "destroyed"
    /\ BeginDestroy
    /\ UNCHANGED <<init, sourceVars, notifyVars, signalVars, answer, failures>>

\* The pending initialization settled.
InitAwaited ==
    /\ destroy = "waiting"
    /\ init = "none"
    /\ destroy' = "cleaning"
    /\ BeginCleanup
    /\ UNCHANGED <<state, init, sourceVars, notifyVars, signalVars, answer,
                   failures>>

Destroyed ==
    /\ destroy = "cleaning"
    /\ cleanup = "over"
    /\ destroy' = "done"
    /\ cleanup' = "none"
    /\ state' = "destroyed"
    /\ handlers' = FALSE
    /\ UNCHANGED <<init, errors, main, sourceVars, notifyVars, signal, answer,
                   failures>>

RegisterShutdownHandlers ==
    /\ NotDestroyed
    /\ ~handlers
    /\ signal = "none"
    /\ handlers' = TRUE
    /\ UNCHANGED <<kitVars, main, sourceVars, notifyVars, signal, answer,
                   failures>>

\* The handler unregisters and shuts the kit down.
SignalReceived ==
    /\ handlers
    /\ signal = "none"
    /\ handlers' = FALSE
    /\ signal' = "received"
    /\ BeginDestroy
    /\ UNCHANGED <<init, sourceVars, notifyVars, answer, failures>>

\* Mutant of SignalResent: only after a shutdown without errors.
SignalResentOnSuccess ==
    /\ signal = "received"
    /\ state = "destroyed"
    /\ ~errors
    /\ signal' = "resent"
    /\ UNCHANGED <<kitVars, main, sourceVars, notifyVars, handlers, answer,
                   failures>>

\* The shutdown settled, with or without an error: the signal is sent again,
\* and ends the process.
SignalResent ==
    /\ signal = "received"
    /\ state = "destroyed"
    /\ signal' = "resent"
    /\ UNCHANGED <<kitVars, main, sourceVars, notifyVars, handlers, answer,
                   failures>>

InitStep ==
    \/ PoolOpens \/ Connected \/ ConnectFails \/ Prepared \/ PrepareFails
    \/ Aborted \/ Migrated \/ Fetched \/ Subscribed \/ StepFails

CleanupStep ==
    NotificationsClosed \/ CleanPools \/ RolledBack \/ InitAwaited \/ Destroyed

Next ==
    \/ \E c \in Callers : InitDatabase(c)
    \/ InitStep \/ CleanupStep
    \/ Destroy \/ RegisterShutdownHandlers \/ SignalReceived \/ SignalResent

Spec == Init /\ [][Next]_vars

\* Every I/O request is answered, and the code goes on with the answer.
FairSpec ==
    Spec /\ WF_vars(InitStep) /\ WF_vars(CleanupStep) /\ WF_vars(SignalResent)
-----------------------------------------------------------------------------
\* The kit keeps the promises of ResourceLifecycle: nothing is acquired but by
\* an initialization, a kit that is new again holds nothing, and one that is
\* destroyed holds nothing unless DataSource.destroy failed.
Contract == INSTANCE ResourceLifecycle WITH
    phase   <- state,
    running <- init # "none",
    held    <- pools + orphans > 0 \/ channel,
    failed  <- unreleased

ImplementsContract == Contract!Spec

\* A kit that is ready is complete, also after initializations that failed and
\* were rolled back: "A later initialization must build a fresh adapter because
\* notification implementations are terminal".
ReadyIsComplete ==
    state = "ready" => /\ main /\ isInitialized /\ channel
                       /\ pools = Pools
                       /\ adapter = "fresh"
                       /\ init = "none" /\ cleanup = "none"

\* initDatabase() succeeds only when the kit is ready, or destroy() overtook it.
AnswersAreTrue ==
    [][\A c \in Callers :
          answer'[c] = "resolved" /\ answer[c] # "resolved"
              => state' \in {"ready", "destroying"}]_vars

\* destroy() waits for an initialization that is under way: while it cleans up,
\* nothing is initialized and no resource appears behind its back.
NoWorkDuringShutdown ==
    [][destroy = "cleaning" => /\ init' = "none"
                               /\ pools' =< pools
                               /\ channel' => channel]_vars

\* initDatabase() answers every caller, however the initialization ends.
CallersAnswered ==
    \A c \in Callers : answer[c] = "pending" ~> answer[c] # "pending"

\* destroy() ends, and a signal is sent again, even if the cleanup fails.
ShutdownEnds ==
    destroy # "none" \/ signal = "received"
        ~> state = "destroyed" /\ signal # "received"

\* The data source that a rollback drops has no open pool ("Drops resources
\* that were already closed by an initialization rollback").
NothingDroppedOpen == orphans = 0
=============================================================================
