---------------------- MODULE ProcedureMetadata_proofs ----------------------
(***************************************************************************)
(* Proofs about ProcedureMetadata, for every set of packages and every     *)
(* bound.  The inductive invariant ties the four records of a fetch (the   *)
(* table packageFetchStates, the activation, its control flag and what it  *)
(* read) to the phase of the shutdown.                                     *)
(***************************************************************************)
EXTENDS ProcedureMetadata, TLAPS

\* A run works for the package whose table entry it is; a free run for none.
RunsBound ==
    \A r \in Runs :
        /\ Running(r) => /\ runPackage[r] \in Packages
                         /\ fetchState[runPackage[r]] = r
        /\ ~Running(r) => runPackage[r] = None

\* A table entry names a run that works for this package.
StatesBound ==
    \A p \in Packages :
        fetchState[p] # None =>
            /\ Running(fetchState[p])
            /\ runPackage[fetchState[p]] = p

\* The destroyed flags and what may exist, by phase.
PhaseFacts ==
    /\ listDestroyed <=> phase \in {"fetches", "destroyed"}
    /\ notifyDestroyed <=>
          phase \in {"refreshes", "channel", "fetches", "destroyed"}
    /\ phase = "new" =>
          /\ ~listening
          /\ retryTimer = {}
          /\ activeRefreshes = {}
          /\ \A p \in Packages :
                fetchState[p] = None /\ inbox[p] = 0 /\ snapshot[p] = 0

\* What a destroy step awaits covers all that is in flight.
ShutdownFacts ==
    /\ phase = "refreshes" => activeRefreshes \subseteq awaited
    /\ phase \in {"channel", "fetches", "destroyed"} => activeRefreshes = {}
    /\ listDestroyed => retryTimer = {}
    /\ phase = "fetches" => \A r \in Runs : Running(r) => r \in awaited
    /\ phase = "destroyed" =>
          /\ \A r \in Runs : ~Running(r)
          /\ \A p \in Packages : snapshot[p] = 0

\* Versions only travel from the database to a run to the snapshot.
VersionFacts ==
    /\ \A p \in Packages : /\ snapshot[p] <= dbVersion[p]
                           /\ requested[p] <= dbVersion[p]
    /\ \A r \in Runs :
          stage[r] = "answered" => readVersion[r] >= snapshot[runPackage[r]]

\* An answer in hand is not newer than the database.
ReadFacts ==
    \A r \in Runs :
        stage[r] = "answered" => readVersion[r] <= dbVersion[runPackage[r]]

\* Every fetch in progress will satisfy the last request for its package: an
\* armed retry timer does not excuse it, since publishing disarms the timer.
FetchFacts ==
    \A p \in Packages :
        listDestroyed \/ fetchState[p] = None \/ WillPublish(p)

IInv ==
    /\ TypeOK
    /\ RunsBound
    /\ StatesBound
    /\ PhaseFacts
    /\ ShutdownFacts
    /\ VersionFacts
    /\ ReadFacts
    /\ FetchFacts
    /\ RefreshNotLost

USE ConstantsAssumption

\* The initial state of the registry satisfies the inductive invariant.
LEMMA InitIInv == Init => IInv
  <1> SUFFICES ASSUME Init PROVE IInv
    OBVIOUS
  <1> USE DEF Init, Running
  <1>1. TypeOK
    <2>1. /\ MaxVersion \in Nat /\ 1 <= MaxVersion
          /\ MaxFailures \in Nat
      OBVIOUS
    <2>2. 1 \in 1..MaxVersion /\ 0 \in 0..MaxVersion /\ 0 \in 0..MaxFailures
      BY <2>1
    <2>3. /\ dbVersion \in [Packages -> 1..MaxVersion]
          /\ inbox \in [Packages -> Nat]
          /\ snapshot \in [Packages -> 0..MaxVersion]
      BY <2>2
    <2>4. /\ fetchState \in [Packages -> Runs \cup {None}]
          /\ stage \in [Runs -> {"free", "query", "answered"}]
          /\ runPackage \in [Runs -> Packages \cup {None}]
          /\ rerunRequested \in [Runs -> BOOLEAN]
          /\ readVersion \in [Runs -> 0..MaxVersion]
      BY <2>2
    <2>5. requested \in [Packages -> 0..MaxVersion]
      BY <2>2
    <2> QED
      BY <2>2, <2>3, <2>4, <2>5 DEF TypeOK, Phases
  <1>2. RunsBound
    BY DEF RunsBound
  <1>3. StatesBound
    BY DEF StatesBound
  <1>4. PhaseFacts
    BY DEF PhaseFacts
  <1>5. ShutdownFacts
    BY DEF ShutdownFacts
  <1>6. VersionFacts
    BY DEF VersionFacts
  <1>7. ReadFacts
    BY DEF ReadFacts
  <1>8. FetchFacts /\ RefreshNotLost
    BY DEF FetchFacts, RefreshNotLost
  <1> QED
    BY <1>1, <1>2, <1>3, <1>4, <1>5, <1>6, <1>7, <1>8 DEF IInv

(***************************************************************************)
(* Types.  A run moves in two ways: it is asked for by Fetch, and it ends  *)
(* an iteration by looping or by settling.                                 *)
(***************************************************************************)

FetchTypes ==
    /\ fetchState \in [Packages -> Runs \cup {None}]
    /\ stage \in [Runs -> {"free", "query", "answered"}]
    /\ runPackage \in [Runs -> Packages \cup {None}]
    /\ rerunRequested \in [Runs -> BOOLEAN]
    /\ readVersion \in [Runs -> 0..MaxVersion]

\* fetchProcedureListWithArguments, called for a package, keeps the types of
\* the fetch records.
LEMMA FetchType ==
  ASSUME TypeOK, NEW p \in Packages, NEW r \in Runs, Fetch(p, r)
  PROVE  FetchTypes' /\ requested' \in [Packages -> 0..MaxVersion]
  <1>1. dbVersion[p] \in 0..MaxVersion
    BY DEF TypeOK
  <1>2. requested' \in [Packages -> 0..MaxVersion]
    BY <1>1 DEF Fetch, TypeOK
  <1>3. CASE fetchState[p] = r
    BY <1>2, <1>3 DEF Fetch, TypeOK, FetchTypes
  <1>4. CASE fetchState[p] = None
    BY <1>2, <1>4 DEF Fetch, TypeOK, FetchTypes
  <1> QED
    BY <1>3, <1>4 DEF Fetch

\* The end of one iteration of runPackageFetch keeps the types of what it
\* writes, whether it loops or settles.
LEMMA EndIterationType ==
  ASSUME TypeOK, NEW r \in Runs, runPackage[r] \in Packages,
         NEW ok \in BOOLEAN, EndIteration(r, ok)
  PROVE  /\ FetchTypes'
         /\ activeRefreshes' \subseteq Runs
         /\ initPending' \subseteq Packages
         /\ phase' \in Phases
  <1>1. 0 \in 0..MaxVersion
    OBVIOUS
  <1>2. /\ stage' \in [Runs -> {"free", "query", "answered"}]
        /\ rerunRequested' \in [Runs -> BOOLEAN]
    BY DEF EndIteration, TypeOK
  <1>3. readVersion' \in [Runs -> 0..MaxVersion]
    BY <1>1 DEF EndIteration, TypeOK
  <1>4. /\ fetchState' \in [Packages -> Runs \cup {None}]
        /\ runPackage' \in [Runs -> Packages \cup {None}]
    BY DEF EndIteration, TypeOK
  <1>5. /\ activeRefreshes' \subseteq Runs
        /\ initPending' \subseteq Packages
        /\ phase' \in Phases
    BY DEF EndIteration, TypeOK, Phases
  <1> QED
    BY <1>2, <1>3, <1>4, <1>5 DEF FetchTypes

\* Every step keeps the types, given that a run works for a package.
LEMMA TypeStep == TypeOK /\ RunsBound /\ [Next]_vars => TypeOK'
  <1> SUFFICES ASSUME TypeOK, RunsBound, [Next]_vars PROVE TypeOK'
    OBVIOUS
  <1> USE DEF fetchVars, controlVars
  <1>1. ASSUME NEW p \in Packages, DatabaseChange(p) PROVE TypeOK'
    BY <1>1 DEF DatabaseChange, TypeOK, Phases
  <1>2. ASSUME NEW r \in Runs, QueryReads(r) PROVE TypeOK'
    <2>1. runPackage[r] \in Packages
      BY <1>2 DEF QueryReads, RunsBound, Running
    <2>2. dbVersion[runPackage[r]] \in 0..MaxVersion
      BY <2>1 DEF TypeOK
    <2> QED
      BY <1>2, <2>2 DEF QueryReads, TypeOK
  <1>3. CASE ChannelLost
    BY <1>3 DEF ChannelLost, TypeOK, Phases
  <1>4. CASE ChannelRestored
    BY <1>4 DEF ChannelRestored, TypeOK, Phases
  <1>5. CASE InitPackagesMap
    BY <1>5 DEF InitPackagesMap, TypeOK, Phases
  <1>6. CASE Subscribe
    BY <1>6 DEF Subscribe, TypeOK, Phases
  <1>7. CASE DestroyNotify
    BY <1>7 DEF DestroyNotify, TypeOK, Phases
  <1>8. CASE CloseChannel
    BY <1>8 DEF CloseChannel, TypeOK, Phases
  <1>9. CASE DestroyList
    BY <1>9 DEF DestroyList, TypeOK, Phases
  <1>10. CASE FinishDestroy
    BY <1>10 DEF FinishDestroy, TypeOK, Phases
  <1>11. ASSUME NEW p \in Packages, RetryTimerFires(p) PROVE TypeOK'
    <2>1. CASE listDestroyed
      BY <1>11, <2>1 DEF RetryTimerFires, TypeOK
    <2>2. CASE ~listDestroyed
      <3>1. PICK r \in Runs : Fetch(p, r)
        BY <1>11, <2>2 DEF RetryTimerFires
      <3>2. FetchTypes' /\ requested' \in [Packages -> 0..MaxVersion]
        BY <3>1, FetchType
      <3> QED
        BY <1>11, <2>2, <3>1, <3>2 DEF RetryTimerFires, TypeOK, FetchTypes
    <2> QED
      BY <2>1, <2>2
  <1>12. ASSUME NEW p \in Packages, DeliverChange(p) PROVE TypeOK'
    <2>1. CASE notifyDestroyed
      BY <1>12, <2>1 DEF DeliverChange, TypeOK
    <2>2. CASE ~notifyDestroyed
      <3>1. PICK r \in Runs : Fetch(p, r) /\ activeRefreshes' = activeRefreshes \cup {r}
        BY <1>12, <2>2 DEF DeliverChange
      <3>2. FetchTypes' /\ requested' \in [Packages -> 0..MaxVersion]
        BY <3>1, FetchType
      <3>3. inbox' \in [Packages -> Nat]
        BY <1>12 DEF DeliverChange, TypeOK
      <3> QED
        BY <1>12, <2>2, <3>1, <3>2, <3>3 DEF DeliverChange, TypeOK, FetchTypes
    <2> QED
      BY <2>1, <2>2
  <1>13. ASSUME NEW r \in Runs, Publish(r) PROVE TypeOK'
    <2>1. runPackage[r] \in Packages
      BY <1>13 DEF Publish, RunsBound, Running
    <2>2. EndIteration(r, TRUE)
      BY <1>13 DEF Publish
    <2>3. /\ FetchTypes'
          /\ activeRefreshes' \subseteq Runs
          /\ initPending' \subseteq Packages
          /\ phase' \in Phases
      BY <2>1, <2>2, EndIterationType
    <2> QED
      BY <1>13, <2>3 DEF Publish, TypeOK, FetchTypes
  <1>14. ASSUME NEW r \in Runs, AnswerAfterDestroy(r) PROVE TypeOK'
    <2>1. runPackage[r] \in Packages
      BY <1>14 DEF AnswerAfterDestroy, RunsBound, Running
    <2>2. EndIteration(r, FALSE)
      BY <1>14 DEF AnswerAfterDestroy
    <2>3. /\ FetchTypes'
          /\ activeRefreshes' \subseteq Runs
          /\ initPending' \subseteq Packages
          /\ phase' \in Phases
      BY <2>1, <2>2, EndIterationType
    <2> QED
      BY <1>14, <2>3 DEF AnswerAfterDestroy, TypeOK, FetchTypes
  <1>15. ASSUME NEW r \in Runs, FetchFails(r) PROVE TypeOK'
    <2>1. runPackage[r] \in Packages
      BY <1>15 DEF FetchFails, RunsBound, Running
    <2>2. EndIteration(r, FALSE)
      BY <1>15 DEF FetchFails
    <2>3. /\ FetchTypes'
          /\ activeRefreshes' \subseteq Runs
          /\ initPending' \subseteq Packages
          /\ phase' \in Phases
      BY <2>1, <2>2, EndIterationType
    <2>4. retryTimer' \subseteq Packages
      BY <1>15, <2>1 DEF FetchFails, TypeOK
    <2> QED
      BY <1>15, <2>3, <2>4 DEF FetchFails, TypeOK, FetchTypes
  <1>16. CASE UNCHANGED vars
    BY <1>16 DEF vars, TypeOK
  <1> QED
    BY <1>1, <1>2, <1>3, <1>4, <1>5, <1>6, <1>7, <1>8, <1>9, <1>10, <1>11, <1>12, <1>13, <1>14, <1>15, <1>16 DEF Next, PackageStep, RunStep, KitStep

(***************************************************************************)
(* The inductive invariant.                                                *)
(***************************************************************************)

\* Every step of the registry keeps the inductive invariant.
LEMMA StepIInv == IInv /\ [Next]_vars => IInv'
  <1> SUFFICES ASSUME IInv, [Next]_vars PROVE IInv'
    OBVIOUS
  <1> TypeOK'
    BY TypeStep DEF IInv
  <1> USE DEF TypeOK, RunsBound, StatesBound, PhaseFacts, ShutdownFacts,
              VersionFacts, ReadFacts, FetchFacts, RefreshNotLost,
              WillPublish, Running,
              IInv, fetchVars, controlVars
  <1>1. ASSUME NEW p \in Packages, DatabaseChange(p) PROVE IInv'
    BY <1>1 DEF DatabaseChange
  <1>2. ASSUME NEW r \in Runs, QueryReads(r) PROVE IInv'
    BY <1>2 DEF QueryReads
  <1>3. CASE ChannelLost
    BY <1>3 DEF ChannelLost
  <1>4. CASE ChannelRestored
    BY <1>4 DEF ChannelRestored
  <1>5. CASE InitPackagesMap
    BY <1>5 DEF InitPackagesMap
  <1>6. CASE Subscribe
    BY <1>6 DEF Subscribe
  <1>7. CASE DestroyNotify
    BY <1>7 DEF DestroyNotify
  <1>8. CASE CloseChannel
    BY <1>8 DEF CloseChannel
  <1>9. CASE DestroyList
    BY <1>9 DEF DestroyList
  <1>10. CASE FinishDestroy
    BY <1>10 DEF FinishDestroy
  <1>11. ASSUME NEW p \in Packages, RetryTimerFires(p) PROVE IInv'
    <2>1. CASE listDestroyed
      BY <1>11, <2>1 DEF RetryTimerFires
    <2>2. CASE ~listDestroyed
      <3>1. PICK r \in Runs : Fetch(p, r)
        BY <1>11, <2>2 DEF RetryTimerFires
      <3>2. CASE fetchState[p] = r
        BY <1>11, <2>2, <3>1, <3>2 DEF RetryTimerFires, Fetch
      <3>3. CASE fetchState[p] = None
        BY <1>11, <2>2, <3>1, <3>3 DEF RetryTimerFires, Fetch
      <3> QED
        BY <3>1, <3>2, <3>3 DEF Fetch
    <2> QED
      BY <2>1, <2>2
  <1>12. ASSUME NEW p \in Packages, DeliverChange(p) PROVE IInv'
    <2>1. CASE notifyDestroyed
      BY <1>12, <2>1 DEF DeliverChange
    <2>2. CASE ~notifyDestroyed
      <3>1. PICK r \in Runs : Fetch(p, r) /\ activeRefreshes' = activeRefreshes \cup {r}
        BY <1>12, <2>2 DEF DeliverChange
      <3>2. CASE fetchState[p] = r
        BY <1>12, <2>2, <3>1, <3>2 DEF DeliverChange, Fetch
      <3>3. CASE fetchState[p] = None
        BY <1>12, <2>2, <3>1, <3>3 DEF DeliverChange, Fetch
      <3> QED
        BY <3>1, <3>2, <3>3 DEF Fetch
    <2> QED
      BY <2>1, <2>2
  <1>13. ASSUME NEW r \in Runs, Publish(r) PROVE IInv'
    <2>1. CASE ShouldRerunFetch(r)
      BY <1>13, <2>1 DEF Publish, EndIteration, ShouldRerunFetch
    <2>2. CASE ~ShouldRerunFetch(r)
      BY <1>13, <2>2 DEF Publish, EndIteration, ShouldRerunFetch
    <2> QED
      BY <2>1, <2>2
  <1>14. ASSUME NEW r \in Runs, AnswerAfterDestroy(r) PROVE IInv'
    <2>1. CASE ShouldRerunFetch(r)
      BY <1>14, <2>1 DEF AnswerAfterDestroy, EndIteration, ShouldRerunFetch
    <2>2. CASE ~ShouldRerunFetch(r)
      BY <1>14, <2>2 DEF AnswerAfterDestroy, EndIteration, ShouldRerunFetch
    <2> QED
      BY <2>1, <2>2
  <1>15. ASSUME NEW r \in Runs, FetchFails(r) PROVE IInv'
    <2>1. CASE ShouldRerunFetch(r)
      BY <1>15, <2>1 DEF FetchFails, EndIteration, ShouldRerunFetch
    <2>2. CASE ~ShouldRerunFetch(r)
      BY <1>15, <2>2 DEF FetchFails, EndIteration, ShouldRerunFetch
    <2> QED
      BY <2>1, <2>2
  <1>16. CASE UNCHANGED vars
    BY <1>16 DEF vars
  <1> QED
    BY <1>1, <1>2, <1>3, <1>4, <1>5, <1>6, <1>7, <1>8, <1>9, <1>10, <1>11, <1>12, <1>13, <1>14, <1>15, <1>16 DEF Next, PackageStep, RunStep, KitStep

\* The inductive invariant holds of every reachable state of the registry.
THEOREM Invariance == Spec => []IInv
  BY InitIInv, StepIInv, PTL DEF Spec

-----------------------------------------------------------------------------
(***************************************************************************)
(* What the invariant gives.                                               *)
(***************************************************************************)

\* Every variable keeps its type: no run, timer or table entry is ever filed
\* under something that is not a run or a configured package.
THEOREM TypeCorrect == Spec => []TypeOK
  <1>1. IInv => TypeOK
    BY DEF IInv
  <1> QED
    BY <1>1, Invariance, PTL

\* No refresh request is lost by coalescing, failing or retrying
\* (fetchProcedureListWithArguments, runPackageFetch, scheduleRetry).
THEOREM RefreshesAreNotLost == Spec => []RefreshNotLost
  <1>1. IInv => RefreshNotLost
    BY DEF IInv
  <1> QED
    BY <1>1, Invariance, PTL

\* Two fetches of one package never overlap, and packageFetchStates lists
\* exactly the packages being fetched.
THEOREM FetchesAreExclusive == Spec => []OneFetchPerPackage
  <1>1. IInv => OneFetchPerPackage
    BY ConstantsAssumption
       DEF IInv, RunsBound, StatesBound, OneFetchPerPackage, Running, TypeOK
  <1> QED
    BY <1>1, Invariance, PTL

\* NotifyBase.destroy closes the channel after its refreshes, never before.
THEOREM ChannelClosesLast == Spec => []ChannelClosedAfterRefreshes
  <1>1. IInv => ChannelClosedAfterRefreshes
    BY DEF IInv, ShutdownFacts, ChannelClosedAfterRefreshes
  <1> QED
    BY <1>1, Invariance, PTL

\* A destroyed registry has no fetch, no timer and no metadata.
THEOREM QuietAfterDestroy == Spec => []DestroyedIsQuiet
  <1>1. IInv => DestroyedIsQuiet
    BY DEF IInv, ShutdownFacts, PhaseFacts, DestroyedIsQuiet
  <1> QED
    BY <1>1, Invariance, PTL

\* Metadata never goes back to an older version, in spite of retries,
\* reruns and answers that take arbitrarily long.
THEOREM SnapshotsAdvance == Spec => SnapshotOnlyAdvances
  <1>1. ASSUME IInv, [Next]_vars, NEW p \in Packages
        PROVE  snapshot'[p] >= snapshot[p] \/ phase' = "destroyed"
    <2> USE DEF IInv, TypeOK
    <2>1. CASE UNCHANGED snapshot
      BY <1>1, <2>1
    <2>2. ASSUME NEW r \in Runs, Publish(r)
          PROVE  snapshot'[p] >= snapshot[p]
      BY <1>1, <2>2 DEF Publish, VersionFacts, RunsBound, Running
    <2>3. CASE FinishDestroy
      BY <2>3 DEF FinishDestroy
    <2> QED
      BY <1>1, <2>1, <2>2, <2>3
         DEF Next, PackageStep, RunStep, KitStep, vars, DatabaseChange,
             RetryTimerFires, DeliverChange, QueryReads, AnswerAfterDestroy,
             FetchFails, ChannelLost, ChannelRestored, InitPackagesMap,
             Subscribe, DestroyNotify, CloseChannel, DestroyList
  <1>2. IInv /\ [Next]_vars =>
          [\A p \in Packages :
              snapshot'[p] >= snapshot[p] \/ phase' = "destroyed"]_vars
    BY <1>1
  <1> QED
    BY <1>2, Invariance, PTL DEF Spec, SnapshotOnlyAdvances

\* An answer that arrives after ProcedureListBase.destroy publishes nothing.
THEOREM NoLatePublish == Spec => NoPublishAfterDestroy
  <1>1. ASSUME IInv, [Next]_vars, listDestroyed, NEW p \in Packages
        PROVE  snapshot'[p] \in {0, snapshot[p]}
    <2>1. CASE UNCHANGED snapshot
      BY <2>1
    <2>2. CASE FinishDestroy
      BY <2>2 DEF FinishDestroy
    <2> QED
      BY <1>1, <2>1, <2>2
         DEF Next, PackageStep, RunStep, KitStep, vars, DatabaseChange,
             RetryTimerFires, DeliverChange, QueryReads, Publish,
             AnswerAfterDestroy, FetchFails, ChannelLost, ChannelRestored,
             InitPackagesMap, Subscribe, DestroyNotify, CloseChannel,
             DestroyList
  <1>2. IInv /\ [Next]_vars =>
          [listDestroyed =>
             \A p \in Packages : snapshot'[p] \in {0, snapshot[p]}]_vars
    BY <1>1
  <1> QED
    BY <1>2, Invariance, PTL DEF Spec, NoPublishAfterDestroy
=============================================================================
