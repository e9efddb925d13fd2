------------------------ MODULE KitLifecycle_proofs ------------------------
(***************************************************************************)
(* Proofs about KitLifecycle, for any number of callers, pools and         *)
(* failures: the kit implements ResourceLifecycle.  The inductive          *)
(* invariant says which steps of an initialization, of a cleanup and of a  *)
(* destroy can be under way together, and what the kit holds in each.      *)
(***************************************************************************)
EXTENDS KitLifecycle, TLAPS

\* Which state goes with which step of initDatabaseInternal, cleanupResources
\* and destroyInternal: at most one of them cleans up.
ControlFacts ==
    /\ state \in {"new", "ready"} => /\ init = "none"
                                     /\ cleanup = "none"
                                     /\ destroy = "none"
    /\ state = "initializing" => init # "none" /\ destroy = "none"
    /\ state = "destroying" <=> destroy \in {"waiting", "cleaning"}
    /\ state = "destroyed" => /\ init = "none"
                              /\ cleanup = "none"
                              /\ destroy \in {"none", "done"}
    /\ destroy = "cleaning" => init = "none"
    /\ cleanup # "none" <=> init = "rollback" \/ destroy = "cleaning"
    /\ cleanup \in {"notifications", "pools"} => ~errors

\* What the data source holds.  A DataSource.destroy that fails leaves it
\* initialized, with a pool.
SourceFacts ==
    /\ isInitialized => pools > 0
    /\ unreleased => isInitialized
    /\ init \in {"preparing", "aborting", "migrating", "fetching",
                 "subscribing"} => isInitialized
    /\ init \in {"preparing", "migrating", "fetching", "subscribing"} =>
          pools = Pools
    /\ init = "connecting" => ~isInitialized
    /\ state = "new" => pools = 0 /\ ~isInitialized
    /\ cleanup = "over" /\ ~errors => ~isInitialized
    /\ cleanup = "over" /\ errors => unreleased

\* The main classes are there from the end of the migrations to the cleanup,
\* which closes the channel before the pools.
MainFacts ==
    /\ main => isInitialized /\ init \in {"fetching", "subscribing", "none"}
    /\ main => cleanup = "none"
    /\ cleanup = "notifications" => isInitialized
    /\ channel => main \/ cleanup = "notifications"
    /\ channel => init \in {"none", "rollback"}
    /\ init \in {"fetching", "subscribing"} => main
    /\ state = "ready" => main /\ channel /\ pools = Pools

\* The adapter is new for every initialization, and lasts as long as it does.
AdapterFacts ==
    /\ state = "new" => adapter = "none"
    /\ init \notin {"none", "rollback"} => adapter = "fresh"
    /\ state = "ready" => adapter = "fresh"

\* If a connect that fails leaves no pool, no data source is dropped with one.
PoolFacts ==
    ~PartialConnect =>
        /\ orphans = 0
        /\ ~isInitialized /\ init # "connecting" => pools = 0

KitInv ==
    /\ TypeOK
    /\ ControlFacts
    /\ SourceFacts
    /\ MainFacts
    /\ AdapterFacts
    /\ PoolFacts

USE ConstantsAssumption

\* A new kit satisfies the inductive invariant.
LEMMA InitKitInv == Init => KitInv
  <1> SUFFICES ASSUME Init PROVE KitInv
    OBVIOUS
  <1> USE DEF Init
  <1>1. /\ 0 \in 0..Pools /\ 0 \in Nat /\ 0 \in 0..MaxFailures
        /\ Pools > 0
    OBVIOUS
  <1>2. handlers \in BOOLEAN
    OBVIOUS
  <1>3. TypeOK
    BY <1>1, <1>2, Zenon DEF TypeOK
  <1>4. ControlFacts /\ SourceFacts
    BY DEF ControlFacts, SourceFacts
  <1>5. MainFacts /\ AdapterFacts /\ PoolFacts
    BY DEF MainFacts, AdapterFacts, PoolFacts
  <1> QED
    BY <1>3, <1>4, <1>5 DEF KitInv

\* The beginning of cleanupResources, of destroyInternal and the outcomes of
\* DataSource.destroy keep the types of what they write.
LEMMA CleanupTypes ==
  ASSUME TypeOK
  PROVE  /\ BeginCleanup => /\ cleanup' \in {"notifications", "pools"}
                            /\ main' \in BOOLEAN
                            /\ errors' \in BOOLEAN
         /\ BeginDestroy =>
               /\ state' \in {state, "destroying"}
               /\ destroy' \in {destroy, "cleaning", "waiting"}
               /\ cleanup' \in {cleanup, "notifications", "pools"}
               /\ main' \in BOOLEAN
               /\ errors' \in BOOLEAN
         /\ PoolsClosed \/ PoolsCloseFails =>
               /\ pools' \in 0..Pools
               /\ isInitialized' \in BOOLEAN
               /\ unreleased' \in BOOLEAN
               /\ failures' \in 0..MaxFailures
  <1>1. ASSUME BeginCleanup
        PROVE  /\ cleanup' \in {"notifications", "pools"}
               /\ main' \in BOOLEAN
               /\ errors' \in BOOLEAN
    BY <1>1, Zenon DEF BeginCleanup
  <1>2. ASSUME BeginDestroy
        PROVE  /\ state' \in {state, "destroying"}
               /\ destroy' \in {destroy, "cleaning", "waiting"}
               /\ cleanup' \in {cleanup, "notifications", "pools"}
               /\ main' \in BOOLEAN
               /\ errors' \in BOOLEAN
    BY <1>1, <1>2, Zenon DEF BeginDestroy, TypeOK
  <1>3. ASSUME PoolsClosed \/ PoolsCloseFails
        PROVE  isInitialized' \in BOOLEAN /\ unreleased' \in BOOLEAN
    BY <1>3, Zenon DEF PoolsClosed, PoolsCloseFails, TypeOK
  <1>4. ASSUME PoolsClosed \/ PoolsCloseFails
        PROVE  pools' \in 0..Pools /\ failures' \in 0..MaxFailures
    BY <1>4 DEF PoolsClosed, PoolsCloseFails, TypeOK, Fault
  <1> QED
    BY <1>1, <1>2, <1>3, <1>4

\* Every step keeps the types.
LEMMA KitTypeStep == TypeOK /\ [Next]_vars => TypeOK'
  <1> SUFFICES ASSUME TypeOK, [Next]_vars PROVE TypeOK'
    OBVIOUS
  <1> USE CleanupTypes DEF TypeOK, kitVars, sourceVars, notifyVars, signalVars, Fault,
              NotDestroyed, Answer, RollBack
  <1>1. ASSUME NEW c \in Callers, InitDatabase(c) PROVE TypeOK'
    BY <1>1 DEF InitDatabase
  <1>2. CASE PoolOpens
    BY <1>2 DEF PoolOpens
  <1>3. CASE Connected
    BY <1>3 DEF Connected
  <1>4. CASE ConnectFails
    BY <1>4 DEF ConnectFails
  <1>5. CASE Prepared
    BY <1>5 DEF Prepared
  <1>6. CASE PrepareFails
    BY <1>6 DEF PrepareFails
  <1>7. CASE Aborted
    BY <1>7 DEF Aborted
  <1>8. CASE Migrated
    <2>1. main' \in BOOLEAN /\ errors' \in BOOLEAN
      BY <1>8, Zenon DEF Migrated, BeginCleanup
    <2> QED
      BY <1>8, <2>1 DEF Migrated
  <1>9. CASE Fetched
    BY <1>9 DEF Fetched
  <1>10. CASE Subscribed
    BY <1>10 DEF Subscribed
  <1>11. CASE StepFails
    BY <1>11 DEF StepFails
  <1>12. CASE NotificationsClosed
    <2>1. channel' \in BOOLEAN
      BY <1>12, Zenon DEF NotificationsClosed
    <2> QED
      BY <1>12, <2>1 DEF NotificationsClosed
  <1>13. CASE CleanPools
    <2>1. errors' \in BOOLEAN
      BY <1>13, Zenon DEF CleanPools
    <2> QED
      BY <1>13, <2>1 DEF CleanPools
  <1>14. CASE RolledBack
    <2>1. handlers' \in BOOLEAN
      BY <1>14, Zenon DEF RolledBack
    <2> QED
      BY <1>14, <2>1 DEF RolledBack
  <1>15. CASE InitAwaited
    BY <1>15 DEF InitAwaited
  <1>16. CASE Destroyed
    <2>1. handlers' \in BOOLEAN
      BY <1>16, Zenon DEF Destroyed
    <2> QED
      BY <1>16, <2>1 DEF Destroyed
  <1>17. CASE Destroy
    BY <1>17 DEF Destroy
  <1>18. CASE RegisterShutdownHandlers
    BY <1>18 DEF RegisterShutdownHandlers
  <1>19. CASE SignalReceived
    <2>1. handlers' \in BOOLEAN
      BY <1>19, Zenon DEF SignalReceived
    <2> QED
      BY <1>19, <2>1 DEF SignalReceived
  <1>20. CASE SignalResent
    BY <1>20 DEF SignalResent
  <1>21. CASE UNCHANGED vars
    BY <1>21 DEF vars
  <1> QED
    BY <1>1, <1>2, <1>3, <1>4, <1>5, <1>6, <1>7, <1>8, <1>9, <1>10, <1>11, <1>12, <1>13, <1>14, <1>15, <1>16, <1>17, <1>18, <1>19, <1>20, <1>21
       DEF Next, InitStep, CleanupStep

\* Every step of the kit keeps the inductive invariant.
LEMMA StepKitInv == KitInv /\ [Next]_vars => KitInv'
  <1> SUFFICES ASSUME KitInv, [Next]_vars PROVE KitInv'
    OBVIOUS
  <1> TypeOK /\ TypeOK'
    BY KitTypeStep DEF KitInv
  <1> USE DEF KitInv, ControlFacts, SourceFacts, MainFacts, AdapterFacts,
              PoolFacts, TypeOK,
              kitVars, sourceVars, notifyVars, signalVars, Fault,
              NotDestroyed, Answer, BeginCleanup, RollBack, PoolsClosed,
              PoolsCloseFails, BeginDestroy
  <1>1. ASSUME NEW c \in Callers, InitDatabase(c) PROVE KitInv'
    BY <1>1 DEF InitDatabase
  <1>2. CASE PoolOpens
    BY <1>2 DEF PoolOpens
  <1>3. CASE Connected
    BY <1>3 DEF Connected
  <1>4. CASE ConnectFails
    BY <1>4 DEF ConnectFails
  <1>5. CASE Prepared
    BY <1>5 DEF Prepared
  <1>6. CASE PrepareFails
    BY <1>6 DEF PrepareFails
  <1>7. CASE Aborted
    <2>1. CASE PoolsClosed
      BY <1>7, <2>1 DEF Aborted
    <2>2. CASE PoolsCloseFails
      BY <1>7, <2>2 DEF Aborted
    <2> QED
      BY <1>7, <2>1, <2>2 DEF Aborted
  <1>8. CASE Migrated
    BY <1>8 DEF Migrated
  <1>9. CASE Fetched
    BY <1>9 DEF Fetched
  <1>10. CASE Subscribed
    BY <1>10 DEF Subscribed
  <1>11. CASE StepFails
    BY <1>11 DEF StepFails
  <1>12. CASE NotificationsClosed
    BY <1>12 DEF NotificationsClosed
  <1>13. CASE CleanPools
    BY <1>13 DEF CleanPools
  <1>14. CASE RolledBack
    BY <1>14 DEF RolledBack
  <1>15. CASE InitAwaited
    BY <1>15 DEF InitAwaited
  <1>16. CASE Destroyed
    BY <1>16 DEF Destroyed
  <1>17. CASE Destroy
    BY <1>17 DEF Destroy
  <1>18. CASE RegisterShutdownHandlers
    BY <1>18 DEF RegisterShutdownHandlers
  <1>19. CASE SignalReceived
    BY <1>19 DEF SignalReceived
  <1>20. CASE SignalResent
    BY <1>20 DEF SignalResent
  <1>21. CASE UNCHANGED vars
    BY <1>21 DEF vars
  <1> QED
    BY <1>1, <1>2, <1>3, <1>4, <1>5, <1>6, <1>7, <1>8, <1>9, <1>10, <1>11, <1>12, <1>13, <1>14, <1>15, <1>16, <1>17, <1>18, <1>19, <1>20, <1>21
       DEF Next, InitStep, CleanupStep

\* The inductive invariant holds in every reachable state of the kit.
THEOREM KitInvariance == Spec => []KitInv
  BY InitKitInv, StepKitInv, PTL DEF Spec

-----------------------------------------------------------------------------
(***************************************************************************)
(* The theorems.                                                           *)
(***************************************************************************)

\* Every variable of the kit keeps its type.
THEOREM KitTypeCorrect == Spec => []TypeOK
  <1>1. KitInv => TypeOK
    BY DEF KitInv
  <1> QED
    BY <1>1, KitInvariance, PTL

\* A kit is ready only with its pools, a fresh adapter, the main classes and a
\* subscribed channel, after any number of failed and rolled back starts.
THEOREM ReadyKitIsComplete == Spec => []ReadyIsComplete
  <1>1. KitInv => ReadyIsComplete
    BY DEF KitInv, ControlFacts, SourceFacts, MainFacts, AdapterFacts,
           ReadyIsComplete
  <1> QED
    BY <1>1, KitInvariance, PTL

\* No caller of initDatabase is told a success that is not one.
THEOREM AnswersHold == Spec => AnswersAreTrue
  <1>1. ASSUME KitInv, [Next]_vars, NEW c \in Callers,
               answer'[c] = "resolved", answer[c] # "resolved"
        PROVE  state' \in {"ready", "destroying"}
    <2> USE DEF KitInv, TypeOK, ControlFacts, kitVars, Answer
    <2>1. ASSUME NEW d \in Callers, InitDatabase(d)
          PROVE  state' \in {"ready", "destroying"}
      BY <1>1, <2>1 DEF InitDatabase, NotDestroyed
    <2>2. CASE Subscribed
      BY <1>1, <2>2 DEF Subscribed
    <2>3. CASE RolledBack
      BY <1>1, <2>3 DEF RolledBack
    <2>4. CASE UNCHANGED answer
      BY <1>1, <2>4
    <2> QED
      BY <1>1, <2>1, <2>2, <2>3, <2>4
         DEF Next, InitStep, CleanupStep, PoolOpens, Connected, ConnectFails,
             Prepared, PrepareFails, Aborted, Migrated, Fetched, StepFails,
             NotificationsClosed, CleanPools, InitAwaited, Destroyed, Destroy,
             RegisterShutdownHandlers, SignalReceived, SignalResent, vars
  <1>2. KitInv /\ [Next]_vars =>
          [\A c \in Callers :
              answer'[c] = "resolved" /\ answer[c] # "resolved"
                  => state' \in {"ready", "destroying"}]_vars
    BY <1>1
  <1> QED
    BY <1>2, KitInvariance, PTL DEF Spec, AnswersAreTrue

\* destroy() cleans up alone: no initialization runs beside it, and no pool
\* or channel appears.
THEOREM ShutdownWorksAlone == Spec => NoWorkDuringShutdown
  <1>1. ASSUME KitInv, [Next]_vars, destroy = "cleaning"
        PROVE  init' = "none" /\ pools' =< pools /\ (channel' => channel)
    <2> USE DEF KitInv, TypeOK, ControlFacts, kitVars, sourceVars, notifyVars,
                NotDestroyed, PoolsClosed, PoolsCloseFails, BeginDestroy
    <2>1. init = "none" /\ state = "destroying"
      BY <1>1
    <2>2. CASE CleanPools
      BY <1>1, <2>1, <2>2 DEF CleanPools
    <2>3. CASE NotificationsClosed
      BY <1>1, <2>1, <2>3 DEF NotificationsClosed
    <2>4. ASSUME NEW c \in Callers, InitDatabase(c)
          PROVE  UNCHANGED <<init, pools, channel>>
      BY <1>1, <2>1, <2>4 DEF InitDatabase
    <2>5. CASE UNCHANGED <<init, pools, channel>>
      BY <1>1, <2>1, <2>5
    <2> QED
      BY <1>1, <2>1, <2>2, <2>3, <2>4, <2>5
         DEF Next, InitStep, CleanupStep, PoolOpens, Connected, ConnectFails,
             Prepared, PrepareFails, Aborted, Migrated, Fetched, Subscribed,
             StepFails, RolledBack, InitAwaited, Destroyed, Destroy,
             RegisterShutdownHandlers, SignalReceived, SignalResent, vars
  <1>2. KitInv /\ [Next]_vars =>
          [destroy = "cleaning" => /\ init' = "none"
                                   /\ pools' =< pools
                                   /\ channel' => channel]_vars
    BY <1>1
  <1> QED
    BY <1>2, KitInvariance, PTL DEF Spec, NoWorkDuringShutdown

\* An open pool counts as held.
LEMMA OpenPoolIsHeld ==
  ASSUME NEW p \in Nat, NEW q, q = 0, 0 < p
  PROVE  p + q > 0
  OBVIOUS

\* If a connect that fails leaves no pool open, every step of the kit is a step
\* of the contract or leaves it alone.
LEMMA ContractStep ==
  ASSUME ~PartialConnect, KitInv, [Next]_vars
  PROVE  [Contract!Next]_(Contract!vars)
  <1> USE DEF KitInv, ControlFacts, SourceFacts, MainFacts, PoolFacts, TypeOK,
              kitVars, sourceVars, notifyVars, signalVars, Fault,
              NotDestroyed, BeginCleanup, RollBack, PoolsClosed,
              PoolsCloseFails, BeginDestroy,
              Contract!vars, Contract!Next
  <1>1. ASSUME NEW c \in Callers, InitDatabase(c)
        PROVE  Contract!Start \/ UNCHANGED Contract!vars
    BY <1>1 DEF InitDatabase, Contract!Start
  <1>2. CASE PoolOpens
    <2>1. Contract!Acquire \/ UNCHANGED Contract!vars
      BY <1>2 DEF PoolOpens, Contract!Acquire
    <2> QED
      BY <2>1
  <1>3. CASE Connected
    BY <1>3 DEF Connected
  <1>4. CASE ConnectFails
    <2>1. Contract!Release \/ UNCHANGED Contract!vars
      BY <1>4 DEF ConnectFails, Contract!Release
    <2> QED
      BY <2>1
  <1>5. CASE Prepared
    BY <1>5 DEF Prepared
  <1>6. CASE PrepareFails
    BY <1>6 DEF PrepareFails
  <1>7. CASE Aborted
    <2>1. CASE PoolsClosed
      <3>1. /\ state' = state /\ (init' # "none") = (init # "none")
            /\ state # "ready"
        BY <1>7, <2>1 DEF Aborted
      <3>2. (pools + orphans > 0 \/ channel) = TRUE
        BY <1>7, <2>1 DEF Aborted
      <3>3. (pools' + orphans' > 0 \/ channel') = FALSE
        BY <1>7, <2>1 DEF Aborted
      <3>4. unreleased' = FALSE
        BY <2>1, Zenon DEF PoolsClosed
      <3> QED
        BY <3>1, <3>2, <3>3, <3>4, Zenon DEF Contract!Release
    <2>2. CASE PoolsCloseFails
      <3>1. /\ state' = state /\ (init' # "none") = (init # "none")
            /\ state # "ready"
        BY <1>7, <2>2 DEF Aborted
      <3>2. (pools + orphans > 0 \/ channel) = TRUE
        BY <1>7, <2>2 DEF Aborted
      <3>3. (pools' + orphans' > 0 \/ channel') = TRUE
        <4>1. orphans' = 0 /\ pools' \in Nat /\ 0 < pools'
          BY <1>7, <2>2 DEF Aborted
        <4>2. pools' + orphans' > 0
          BY <4>1, OpenPoolIsHeld
        <4> QED
          BY <4>2
      <3>4. unreleased' = TRUE
        BY <2>2, Zenon DEF PoolsCloseFails
      <3> QED
        BY <3>1, <3>2, <3>3, <3>4, Zenon DEF Contract!Release
    <2> QED
      BY <1>7, <2>1, <2>2 DEF Aborted
  <1>8. CASE Migrated
    BY <1>8 DEF Migrated
  <1>9. CASE Fetched
    BY <1>9 DEF Fetched
  <1>10. CASE Subscribed
    <2>1. Contract!Succeed \/ UNCHANGED Contract!vars
      BY <1>10 DEF Subscribed, Contract!Succeed
    <2> QED
      BY <2>1
  <1>11. CASE StepFails
    BY <1>11 DEF StepFails
  <1>12. CASE NotificationsClosed
    BY <1>12 DEF NotificationsClosed
  <1>13. CASE CleanPools
    <2>1. CASE isInitialized /\ PoolsClosed
      <3>1. /\ state' = state /\ (init' # "none") = (init # "none")
            /\ state # "ready"
        BY <1>13, <2>1 DEF CleanPools
      <3>2. (pools + orphans > 0 \/ channel) = TRUE
        BY <1>13, <2>1 DEF CleanPools
      <3>3. (pools' + orphans' > 0 \/ channel') = FALSE
        BY <1>13, <2>1 DEF CleanPools
      <3>4. unreleased' = FALSE
        BY <2>1, Zenon DEF PoolsClosed
      <3> QED
        BY <3>1, <3>2, <3>3, <3>4, Zenon DEF Contract!Release
    <2>2. CASE isInitialized /\ PoolsCloseFails
      <3>1. /\ state' = state /\ (init' # "none") = (init # "none")
            /\ state # "ready"
        BY <1>13, <2>2 DEF CleanPools
      <3>2. (pools + orphans > 0 \/ channel) = TRUE
        BY <1>13, <2>2 DEF CleanPools
      <3>3. (pools' + orphans' > 0 \/ channel') = TRUE
        <4>1. orphans' = 0 /\ pools' \in Nat /\ 0 < pools'
          BY <1>13, <2>2 DEF CleanPools
        <4>2. pools' + orphans' > 0
          BY <4>1, OpenPoolIsHeld
        <4> QED
          BY <4>2
      <3>4. unreleased' = TRUE
        BY <2>2, Zenon DEF PoolsCloseFails
      <3> QED
        BY <3>1, <3>2, <3>3, <3>4, Zenon DEF Contract!Release
    <2>3. CASE ~isInitialized /\ UNCHANGED <<pools, unreleased>>
      BY <1>13, <2>3 DEF CleanPools
    <2> QED
      BY <1>13, <2>1, <2>2, <2>3 DEF CleanPools
  <1>14. CASE RolledBack
    <2>1. Contract!Abort \/ UNCHANGED Contract!vars
      BY <1>14 DEF RolledBack, Contract!Abort
    <2> QED
      BY <2>1
  <1>15. CASE InitAwaited
    BY <1>15 DEF InitAwaited
  <1>16. CASE Destroyed
    <2>1. Contract!FinishDestroy \/ UNCHANGED Contract!vars
      BY <1>16 DEF Destroyed, Contract!FinishDestroy
    <2> QED
      BY <2>1
  <1>17. CASE Destroy
    <2>1. Contract!BeginDestroy \/ UNCHANGED Contract!vars
      BY <1>17 DEF Destroy, Contract!BeginDestroy
    <2> QED
      BY <2>1
  <1>18. CASE RegisterShutdownHandlers
    BY <1>18 DEF RegisterShutdownHandlers
  <1>19. CASE SignalReceived
    <2>1. Contract!BeginDestroy \/ UNCHANGED Contract!vars
      BY <1>19 DEF SignalReceived, Contract!BeginDestroy
    <2> QED
      BY <2>1
  <1>20. CASE SignalResent
    BY <1>20 DEF SignalResent
  <1>21. CASE UNCHANGED vars
    BY <1>21 DEF vars
  <1> QED
    BY <1>1, <1>2, <1>3, <1>4, <1>5, <1>6, <1>7, <1>8, <1>9, <1>10, <1>11, <1>12, <1>13, <1>14, <1>15, <1>16, <1>17, <1>18, <1>19, <1>20, <1>21
       DEF Next, InitStep, CleanupStep

\* The kit implements ResourceLifecycle: it acquires resources only while an
\* initialization runs, is new again only when it holds nothing, and is
\* destroyed with nothing held unless DataSource.destroy failed.
THEOREM KitImplementsContract ==
  ASSUME ~PartialConnect
  PROVE  Spec => ImplementsContract
  <1>1. Init => Contract!Init
    BY DEF Init, Contract!Init
  <1>2. KitInv /\ [Next]_vars => [Contract!Next]_(Contract!vars)
    BY ContractStep
  <1> QED
    BY <1>1, <1>2, KitInvariance, PTL DEF Spec, ImplementsContract, Contract!Spec
=============================================================================
