------------------------- MODULE ProcedureMetadata -------------------------
(***************************************************************************)
(* The in-memory registry of procedure metadata: ProcedureListBase         *)
(* (src/src/core/procedure-list-base.ts) and its driver NotifyBase         *)
(* (src/src/core/notify-base.ts), as TypeOrmProcedureKit.initDatabase and  *)
(* cleanupResources (src/src/core/index.ts) run them.                      *)
(*                                                                         *)
(* One snapshot per package is fetched at start, refetched when the        *)
(* database announces a change and, after a failed fetch, by a timer.      *)
(* Requests for a package that is being fetched are coalesced into one     *)
(* rerun.  What a fetch returns is abstracted to the version the package   *)
(* had in the database when the query ran.                                 *)
(*                                                                         *)
(* A promise chain without I/O is one step: when the answer of the query   *)
(* is processed, publication, the rerun test and the settlement of the     *)
(* callers follow with no other event in between.                          *)
(***************************************************************************)
EXTENDS Integers, FiniteSets

CONSTANTS Packages,     \* the configured packages
          Runs,         \* runPackageFetch activations that can be in flight
          None,         \* no activation, or no package
          MaxVersion,   \* bound: versions a package reaches in the database
          MaxFailures   \* bound: metadata queries that fail

ASSUME ConstantsAssumption ==
    /\ Packages # {}
    /\ None \notin Runs \cup Packages
    /\ MaxVersion \in Nat \ {0}
    /\ MaxFailures \in Nat

VARIABLES
    dbVersion,        \* [Packages -> version in the database]
    listening,        \* the change channel is subscribed and connected
    inbox,            \* [Packages -> change events sent, not yet delivered]
    snapshot,         \* packagesWithProceduresList: version published, 0 if none
    fetchState,       \* packageFetchStates: the run of a package, or None
    stage,            \* [Runs -> "free", "query" (sent), "answered"]
    runPackage,       \* [Runs -> the package a run was started for]
    rerunRequested,   \* [Runs -> control.rerunRequested]
    readVersion,      \* [Runs -> version its last query read]
    retryTimer,       \* packages that have an entry in retryTimers
    requested,        \* history: version current when a fetch was last asked for
    activeRefreshes,  \* runs that a NotifyBase refresh awaits
    phase,            \* progress of TypeOrmProcedureKit over the two objects
    initPending,      \* packages whose initial fetch has not resolved
    notifyDestroyed,  \* NotifyBase.isDestroyed
    listDestroyed,    \* ProcedureListBase.isDestroyed
    awaited,          \* runs whose promises the current destroy step awaits
    failures          \* bound on failed queries

fetchVars   == <<fetchState, stage, runPackage, rerunRequested, readVersion>>
controlVars == <<phase, initPending, notifyDestroyed, listDestroyed, awaited>>
vars == <<dbVersion, listening, inbox, snapshot, fetchVars, retryTimer,
          requested, activeRefreshes, controlVars, failures>>

Phases == {"new", "fetching", "subscribing", "ready", "failed",
           "refreshes", "channel", "fetches", "destroyed"}

TypeOK ==
    /\ dbVersion \in [Packages -> 1..MaxVersion]
    /\ listening \in BOOLEAN
    /\ inbox \in [Packages -> Nat]
    /\ snapshot \in [Packages -> 0..MaxVersion]
    /\ fetchState \in [Packages -> Runs \cup {None}]
    /\ stage \in [Runs -> {"free", "query", "answered"}]
    /\ runPackage \in [Runs -> Packages \cup {None}]
    /\ rerunRequested \in [Runs -> BOOLEAN]
    /\ readVersion \in [Runs -> 0..MaxVersion]
    /\ retryTimer \subseteq Packages
    /\ requested \in [Packages -> 0..MaxVersion]
    /\ activeRefreshes \subseteq Runs
    /\ phase \in Phases
    /\ initPending \subseteq Packages
    /\ notifyDestroyed \in BOOLEAN
    /\ listDestroyed \in BOOLEAN
    /\ awaited \subseteq Runs
    /\ failures \in 0..MaxFailures

Init ==
    /\ dbVersion = [p \in Packages |-> 1]
    /\ listening = FALSE
    /\ inbox = [p \in Packages |-> 0]
    /\ snapshot = [p \in Packages |-> 0]
    /\ fetchState = [p \in Packages |-> None]
    /\ stage = [r \in Runs |-> "free"]
    /\ runPackage = [r \in Runs |-> None]
    /\ rerunRequested = [r \in Runs |-> FALSE]
    /\ readVersion = [r \in Runs |-> 0]
    /\ retryTimer = {}
    /\ requested = [p \in Packages |-> 0]
    /\ activeRefreshes = {}
    /\ phase = "new"
    /\ initPending = {}
    /\ notifyDestroyed = FALSE
    /\ listDestroyed = FALSE
    /\ awaited = {}
    /\ failures = 0

-----------------------------------------------------------------------------
(***************************************************************************)
(* The database and the change channel.                                    *)
(***************************************************************************)

\* A package is created or replaced; the event reaches a subscribed channel.
DatabaseChange(p) ==
    /\ dbVersion[p] < MaxVersion
    /\ dbVersion' = [dbVersion EXCEPT ![p] = @ + 1]
    /\ inbox' = IF listening THEN [inbox EXCEPT ![p] = @ + 1] ELSE inbox
    /\ UNCHANGED <<listening, snapshot, fetchVars, retryTimer, requested,
                   activeRefreshes, controlVars, failures>>

\* The dedicated connection is lost, and with it the events under way.
ChannelLost ==
    /\ listening
    /\ listening' = FALSE
    /\ inbox' = [p \in Packages |-> 0]
    /\ UNCHANGED <<dbVersion, snapshot, fetchVars, retryTimer, requested,
                   activeRefreshes, controlVars, failures>>

\* The listener is restored with the same callback; nothing is refetched.
ChannelRestored ==
    /\ ~listening
    /\ phase \in {"ready", "refreshes"}
    /\ listening' = TRUE
    /\ UNCHANGED <<dbVersion, inbox, snapshot, fetchVars, retryTimer,
                   requested, activeRefreshes, controlVars, failures>>

-----------------------------------------------------------------------------
(***************************************************************************)
(* ProcedureListBase.                                                      *)
(***************************************************************************)

\* Mutant of Fetch: a caller that joins a run does not ask for a rerun.
FetchForgetsRerun(p, r) ==
    /\ ~listDestroyed
    /\ requested' = [requested EXCEPT ![p] = dbVersion[p]]
    /\ \/ /\ fetchState[p] = r
          /\ UNCHANGED fetchVars
       \/ /\ fetchState[p] = None
          /\ stage[r] = "free"
          /\ fetchState' = [fetchState EXCEPT ![p] = r]
          /\ stage' = [stage EXCEPT ![r] = "query"]
          /\ runPackage' = [runPackage EXCEPT ![r] = p]
          /\ UNCHANGED <<rerunRequested, readVersion>>

\* Mutant of Fetch: packageFetchStates is not consulted.
FetchAlwaysStarts(p, r) ==
    /\ ~listDestroyed
    /\ requested' = [requested EXCEPT ![p] = dbVersion[p]]
    /\ stage[r] = "free"
    /\ fetchState' = [fetchState EXCEPT ![p] = r]
    /\ stage' = [stage EXCEPT ![r] = "query"]
    /\ runPackage' = [runPackage EXCEPT ![r] = p]
    /\ UNCHANGED <<rerunRequested, readVersion>>

\* fetchProcedureListWithArguments: join the run of the package and ask it
\* for a rerun, or start a run.  r is the run whose promise the caller awaits.
Fetch(p, r) ==
    /\ ~listDestroyed
    /\ requested' = [requested EXCEPT ![p] = dbVersion[p]]
    /\ \/ /\ fetchState[p] = r
          /\ rerunRequested' = [rerunRequested EXCEPT ![r] = TRUE]
          /\ UNCHANGED <<fetchState, stage, runPackage, readVersion>>
       \/ /\ fetchState[p] = None
          /\ stage[r] = "free"
          /\ fetchState' = [fetchState EXCEPT ![p] = r]
          /\ stage' = [stage EXCEPT ![r] = "query"]
          /\ runPackage' = [runPackage EXCEPT ![r] = p]
          /\ UNCHANGED <<rerunRequested, readVersion>>

\* The database executes the metadata query.
QueryReads(r) ==
    /\ stage[r] = "query"
    /\ stage' = [stage EXCEPT ![r] = "answered"]
    /\ readVersion' = [readVersion EXCEPT ![r] = dbVersion[runPackage[r]]]
    /\ UNCHANGED <<dbVersion, listening, inbox, snapshot, fetchState,
                   runPackage, rerunRequested, retryTimer, requested,
                   activeRefreshes, controlVars, failures>>

\* The loop condition of runPackageFetch.
ShouldRerunFetch(r) == rerunRequested[r] /\ ~listDestroyed

\* Mutant of EndIteration: control.rerunRequested is not reset.
EndIterationKeepsRerun(r, ok) ==
    IF ShouldRerunFetch(r)
    THEN /\ stage' = [stage EXCEPT ![r] = "query"]
         /\ readVersion' = [readVersion EXCEPT ![r] = 0]
         /\ UNCHANGED <<fetchState, runPackage, rerunRequested,
                        activeRefreshes, phase, initPending>>
    ELSE LET p == runPackage[r] IN
         /\ stage' = [stage EXCEPT ![r] = "free"]
         /\ fetchState' = IF fetchState[p] = r
                          THEN [fetchState EXCEPT ![p] = None]
                          ELSE fetchState
         /\ activeRefreshes' = activeRefreshes \ {r}
         /\ initPending' = initPending \ {p}
         /\ phase' = IF phase # "fetching" THEN phase
                     ELSE IF ~ok THEN "failed"
                     ELSE IF initPending' = {} THEN "subscribing"
                     ELSE phase
         /\ runPackage' = [runPackage EXCEPT ![r] = None]
         /\ rerunRequested' = [rerunRequested EXCEPT ![r] = FALSE]
         /\ readVersion' = [readVersion EXCEPT ![r] = 0]

\* One iteration of runPackageFetch ended, with a result if ok: loop, or
\* settle the promise.  Settling drops the state of the package if it is
\* still this run's, clears the refreshes that await the run, and advances
\* initPackagesMap, which rejects on its first failure.
EndIteration(r, ok) ==
    IF ShouldRerunFetch(r)
    THEN /\ stage' = [stage EXCEPT ![r] = "query"]
         /\ rerunRequested' = [rerunRequested EXCEPT ![r] = FALSE]
         /\ readVersion' = [readVersion EXCEPT ![r] = 0]
         /\ UNCHANGED <<fetchState, runPackage, activeRefreshes, phase,
                        initPending>>
    ELSE LET p == runPackage[r] IN
         /\ stage' = [stage EXCEPT ![r] = "free"]
         /\ fetchState' = IF fetchState[p] = r
                          THEN [fetchState EXCEPT ![p] = None]
                          ELSE fetchState
         /\ activeRefreshes' = activeRefreshes \ {r}
         /\ initPending' = initPending \ {p}
         /\ phase' = IF phase # "fetching" THEN phase
                     ELSE IF ~ok THEN "failed"
                     ELSE IF initPending' = {} THEN "subscribing"
                     ELSE phase
         /\ runPackage' = [runPackage EXCEPT ![r] = None]
         /\ rerunRequested' = [rerunRequested EXCEPT ![r] = FALSE]
         /\ readVersion' = [readVersion EXCEPT ![r] = 0]

\* Mutant of Publish: the second assertActive is missing.
PublishUnguarded(r) ==
    /\ stage[r] = "answered"
    /\ snapshot' = [snapshot EXCEPT ![runPackage[r]] = readVersion[r]]
    /\ retryTimer' = retryTimer \ {runPackage[r]}
    /\ EndIteration(r, TRUE)
    /\ UNCHANGED <<dbVersion, listening, inbox, requested, notifyDestroyed,
                   listDestroyed, awaited, failures>>

\* fetchProcedureListInternal publishes the answer as a new map.
Publish(r) ==
    /\ stage[r] = "answered"
    /\ ~listDestroyed
    /\ snapshot' = [snapshot EXCEPT ![runPackage[r]] = readVersion[r]]
    /\ retryTimer' = retryTimer \ {runPackage[r]}
    /\ EndIteration(r, TRUE)
    /\ UNCHANGED <<dbVersion, listening, inbox, requested, notifyDestroyed,
                   listDestroyed, awaited, failures>>

\* assertActive rejects an answer that arrives after destroy.
AnswerAfterDestroy(r) ==
    /\ stage[r] = "answered"
    /\ listDestroyed
    /\ EndIteration(r, FALSE)
    /\ UNCHANGED <<dbVersion, listening, inbox, snapshot, retryTimer,
                   requested, notifyDestroyed, listDestroyed, awaited,
                   failures>>

\* Mutant of FetchFails: no retry is scheduled.
FetchFailsNoRetry(r) ==
    /\ stage[r] \in {"query", "answered"}
    /\ failures < MaxFailures
    /\ failures' = failures + 1
    /\ retryTimer' = retryTimer
    /\ EndIteration(r, FALSE)
    /\ UNCHANGED <<dbVersion, listening, inbox, snapshot, requested,
                   notifyDestroyed, listDestroyed, awaited>>

\* Mutant of FetchFails: scheduleRetry runs after destroy, too.
FetchFailsAlwaysRetries(r) ==
    /\ stage[r] \in {"query", "answered"}
    /\ failures < MaxFailures
    /\ failures' = failures + 1
    /\ retryTimer' = retryTimer \cup {runPackage[r]}
    /\ EndIteration(r, FALSE)
    /\ UNCHANGED <<dbVersion, listening, inbox, snapshot, requested,
                   notifyDestroyed, listDestroyed, awaited>>

\* The query or the decoding of its rows fails: a retry is scheduled.
FetchFails(r) ==
    /\ stage[r] \in {"query", "answered"}
    /\ failures < MaxFailures
    /\ failures' = failures + 1
    /\ retryTimer' = IF listDestroyed THEN retryTimer
                     ELSE retryTimer \cup {runPackage[r]}
    /\ EndIteration(r, FALSE)
    /\ UNCHANGED <<dbVersion, listening, inbox, snapshot, requested,
                   notifyDestroyed, listDestroyed, awaited>>

\* scheduleRetry's timer fires.
RetryTimerFires(p) ==
    /\ p \in retryTimer
    /\ retryTimer' = retryTimer \ {p}
    /\ IF listDestroyed
       THEN UNCHANGED <<fetchVars, requested>>
       ELSE \E r \in Runs : Fetch(p, r)
    /\ UNCHANGED <<dbVersion, listening, inbox, snapshot, activeRefreshes,
                   controlVars, failures>>

-----------------------------------------------------------------------------
(***************************************************************************)
(* NotifyBase.                                                             *)
(***************************************************************************)

\* Mutant of DeliverChange: refreshPackage ignores NotifyBase.isDestroyed.
DeliverChangeUnguarded(p) ==
    /\ inbox[p] > 0
    /\ inbox' = [inbox EXCEPT ![p] = @ - 1]
    /\ \E r \in Runs :
          /\ Fetch(p, r)
          /\ activeRefreshes' = activeRefreshes \cup {r}
    /\ UNCHANGED <<dbVersion, listening, snapshot, retryTimer, controlVars,
                   failures>>

\* packageNotifyCallback and refreshPackage for an event about package p.
DeliverChange(p) ==
    /\ inbox[p] > 0
    /\ inbox' = [inbox EXCEPT ![p] = @ - 1]
    /\ IF notifyDestroyed
       THEN UNCHANGED <<fetchVars, requested, activeRefreshes>>
       ELSE \E r \in Runs :
               /\ Fetch(p, r)
               /\ activeRefreshes' = activeRefreshes \cup {r}
    /\ UNCHANGED <<dbVersion, listening, snapshot, retryTimer, controlVars,
                   failures>>

-----------------------------------------------------------------------------
(***************************************************************************)
(* TypeOrmProcedureKit: initDatabaseInternal, then cleanupResources.       *)
(***************************************************************************)

\* initPackagesMap starts the fetch of every package in one go.
InitPackagesMap ==
    /\ phase = "new"
    /\ \E first \in [Packages -> Runs] :
          /\ \A p, q \in Packages : p # q => first[p] # first[q]
          /\ fetchState' = first
          /\ stage' = [r \in Runs |->
                         IF \E p \in Packages : first[p] = r
                         THEN "query" ELSE "free"]
          /\ runPackage' = [r \in Runs |->
                              IF \E p \in Packages : first[p] = r
                              THEN CHOOSE p \in Packages : first[p] = r
                              ELSE None]
    /\ requested' = dbVersion
    /\ phase' = "fetching"
    /\ initPending' = Packages
    /\ UNCHANGED <<dbVersion, listening, inbox, snapshot, rerunRequested,
                   readVersion, retryTimer, activeRefreshes, notifyDestroyed,
                   listDestroyed, awaited, failures>>

\* createNotification resolves, or rejects.
Subscribe ==
    /\ phase = "subscribing"
    /\ \/ /\ phase' = "ready"
          /\ listening' = TRUE
       \/ /\ phase' = "failed"
          /\ UNCHANGED listening
    /\ UNCHANGED <<dbVersion, inbox, snapshot, fetchVars, retryTimer,
                   requested, activeRefreshes, initPending, notifyDestroyed,
                   listDestroyed, awaited, failures>>

\* NotifyBase.destroy, called by kit.destroy() or by the rollback of init.
DestroyNotify ==
    /\ phase \in {"ready", "failed"}
    /\ phase' = "refreshes"
    /\ notifyDestroyed' = TRUE
    /\ awaited' = activeRefreshes
    /\ UNCHANGED <<dbVersion, listening, inbox, snapshot, fetchVars,
                   retryTimer, requested, activeRefreshes, initPending,
                   listDestroyed, failures>>

\* The refreshes have settled: databaseAdapter.destroyNotifications().
CloseChannel ==
    /\ phase = "refreshes"
    /\ awaited \cap activeRefreshes = {}
    /\ phase' = "channel"
    /\ listening' = FALSE
    /\ inbox' = [p \in Packages |-> 0]
    /\ UNCHANGED <<dbVersion, snapshot, fetchVars, retryTimer, requested,
                   activeRefreshes, initPending, notifyDestroyed,
                   listDestroyed, awaited, failures>>

\* ProcedureListBase.destroy clears the timers and waits for the fetches.
DestroyList ==
    /\ phase = "channel"
    /\ phase' = "fetches"
    /\ listDestroyed' = TRUE
    /\ retryTimer' = {}
    /\ awaited' = {fetchState[p] : p \in Packages} \ {None}
    /\ UNCHANGED <<dbVersion, listening, inbox, snapshot, fetchVars,
                   requested, activeRefreshes, initPending, notifyDestroyed,
                   failures>>

\* destroyInternal, after the fetches: states, parser cache and map go.
FinishDestroy ==
    /\ phase = "fetches"
    /\ \A r \in awaited : stage[r] = "free"
    /\ phase' = "destroyed"
    /\ fetchState' = [p \in Packages |-> None]
    /\ snapshot' = [p \in Packages |-> 0]
    /\ UNCHANGED <<dbVersion, listening, inbox, stage, runPackage,
                   rerunRequested, readVersion, retryTimer, requested,
                   activeRefreshes, initPending, notifyDestroyed,
                   listDestroyed, awaited, failures>>

-----------------------------------------------------------------------------
PackageStep(p) ==
    DatabaseChange(p) \/ RetryTimerFires(p) \/ DeliverChange(p)

RunStep(r) ==
    QueryReads(r) \/ Publish(r) \/ AnswerAfterDestroy(r) \/ FetchFails(r)

KitStep ==
    \/ InitPackagesMap \/ Subscribe \/ DestroyNotify
    \/ CloseChannel \/ DestroyList \/ FinishDestroy

Next ==
    \/ \E p \in Packages : PackageStep(p)
    \/ \E r \in Runs : RunStep(r)
    \/ ChannelLost \/ ChannelRestored
    \/ KitStep

Spec == Init /\ [][Next]_vars

\* The event loop runs what is ready: answers arrive and are processed, armed
\* timers fire, delivered events are handled, started shutdown goes on.  The
\* database, the connection and the application owe nothing.
Fairness ==
    /\ \A p \in Packages : WF_vars(RetryTimerFires(p))
    /\ \A p \in Packages : WF_vars(DeliverChange(p))
    /\ \A r \in Runs : WF_vars(QueryReads(r))
    /\ \A r \in Runs : WF_vars(Publish(r) \/ AnswerAfterDestroy(r))
    /\ WF_vars(CloseChannel) /\ WF_vars(DestroyList) /\ WF_vars(FinishDestroy)

FairSpec == Spec /\ Fairness

-----------------------------------------------------------------------------
(***************************************************************************)
(* Properties.                                                             *)
(***************************************************************************)

Running(r) == stage[r] # "free"

\* A fetch in progress will still read, or has read and will publish, a
\* version no older than the one p had when its refresh was last requested.
WillPublish(p) ==
    LET r == fetchState[p] IN
    /\ r # None
    /\ \/ stage[r] = "query"
       \/ rerunRequested[r]
       \/ readVersion[r] >= requested[p]

\* No refresh request is lost.  Until shutdown, a package whose snapshot is
\* older than the version current at the last request has a fetch that will
\* read a newer one or an armed retry timer: the coalescing of
\* fetchProcedureListWithArguments drops no change.
RefreshNotLost ==
    \A p \in Packages :
        \/ listDestroyed
        \/ snapshot[p] >= requested[p]
        \/ p \in retryTimer
        \/ WillPublish(p)

\* At most one fetch of a package is in flight, and packageFetchStates names
\* exactly the packages that have one.
OneFetchPerPackage ==
    /\ \A q, r \in Runs :
          Running(q) /\ Running(r) /\ runPackage[q] = runPackage[r] => q = r
    /\ \A p \in Packages :
          phase # "destroyed" =>
              {r \in Runs : Running(r) /\ runPackage[r] = p}
                = {fetchState[p]} \ {None}

\* The adapter's notifications are torn down only after the refreshes that
\* they started have settled, and no refresh starts afterwards
\* (NotifyBase.destroyInternal, refreshPackage).
ChannelClosedAfterRefreshes ==
    phase \in {"channel", "fetches", "destroyed"} => activeRefreshes = {}

\* After ProcedureListBase.destroy resolved, nothing of the registry is left
\* that could run: no fetch, no armed timer, no published map.
DestroyedIsQuiet ==
    phase = "destroyed" =>
        /\ \A r \in Runs : ~Running(r)
        /\ retryTimer = {}
        /\ \A p \in Packages : snapshot[p] = 0

\* A published snapshot is never replaced by an older one.
SnapshotOnlyAdvances ==
    [][\A p \in Packages :
          snapshot'[p] >= snapshot[p] \/ phase' = "destroyed"]_vars

\* An answer that arrives after destroy() is not published.
NoPublishAfterDestroy ==
    [][listDestroyed =>
          \A p \in Packages : snapshot'[p] \in {0, snapshot[p]}]_vars

\* Every requested refresh is served, or the registry is shut down.
RequestServed ==
    \A p \in Packages :
        snapshot[p] < requested[p] ~>
            (snapshot[p] >= requested[p] \/ listDestroyed)

\* A shutdown that has begun completes.
ShutdownCompletes == notifyDestroyed ~> phase = "destroyed"

\* "Dynamic procedure metadata refresh after database object changes"
\* (src/README.md:45): with the channel up and no event, fetch or timer
\* outstanding, the published metadata is the database's.
QuiescentMeansFresh ==
    (/\ phase = "ready"
     /\ listening
     /\ retryTimer = {}
     /\ \A p \in Packages : inbox[p] = 0 /\ fetchState[p] = None)
    => \A p \in Packages : snapshot[p] = dbVersion[p]
=============================================================================
