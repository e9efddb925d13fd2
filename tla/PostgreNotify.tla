---------------------------- MODULE PostgreNotify ----------------------------
(***************************************************************************)
(* The life of one LISTEN channel: PostgreNotify                           *)
(* (src/src/adapters/postgres/postgre-notify.ts) on top of DatabaseNotify  *)
(* (src/src/adapters/abstract/database-notify.ts).                         *)
(*                                                                         *)
(* A channel has one dedicated client.  User calls of listenNotify, user   *)
(* calls of unlistenNotify, the restore loop that follows a lost           *)
(* connection, the health check and destroy() work on it concurrently: each *)
(* I/O await of theirs is a point where the others run.  Channels share    *)
(* nothing but isDestroyed, so one channel is modelled.                    *)
(*                                                                         *)
(* The callback queue of the channel is PostgreNotificationQueue; here a   *)
(* close may have to drain it or not.  The regular and the long delay      *)
(* between restore attempts are one state.                                 *)
(***************************************************************************)
EXTENDS Integers, FiniteSets

CONSTANTS Users,        \* listenNotify calls of the application, one callback each
          Restorer,     \* the listenNotify call of the restore loop
          None,         \* no callback
          MaxClients,   \* bound: dedicated clients open at the same time
          MaxFaults,    \* bound: connections lost, requests that fail
          MaxUnlistens  \* bound: unlistenNotify calls

ASSUME ConstantsAssumption ==
    /\ Restorer \notin Users
    /\ None \notin Users
    /\ MaxClients \in Nat /\ MaxFaults \in Nat /\ MaxUnlistens \in Nat

Actors  == Users \cup {Restorer}
Clients == 1..MaxClients

VARIABLES
    client,        \* [Clients -> "none", "live", "dead" (unnoticed),
                   \*             "reported" (its loss was signalled)]
    callback,      \* [Clients -> the callback its handlers were given]
    pool,          \* notificationPool: the client of the channel, 0 if none
    pendingReg,    \* pendingRegistrationChannels has the channel
    reg,           \* [Actors -> where its listenNotify call is]
    regClient,     \* [Actors -> the client its registration created]
    restore,       \* where the active restore is, or "none"
    restoreCb,     \* the callback the active restore registers
    cancelled,     \* restoreStates: isCancelled
    checking,      \* restoreStates: isHealthCheckInProgress
    probes,        \* clients that a health check is pinging
    checkAwaits,   \* a health check awaits the active restore
    closeState,    \* notificationClosePromises: "none", "draining", "closing"
    closeClient,   \* the client being closed, 0 if there was none
    closeWaiters,  \* who awaits the close promise
    isDestroyed,
    destroyStage,  \* "none", "first" and "second" pass, "done"
    subscribed,    \* history: the last user registered and not unlistened
    unlistened,    \* history: unlistened, and no listenNotify call since
    overlapped,    \* history: the application did not await a call, or did
                   \* not end a subscription before it asked for the next
    missed,        \* history: an unlistenNotify awaited the close of an older
                   \* client than the one that was published
    faults,        \* bound on faults
    unlistens      \* bound on unlistenNotify calls

clientVars  == <<client, callback>>
regVars     == <<pendingReg, reg, regClient>>
restoreVars == <<restore, restoreCb, cancelled>>
healthVars  == <<checking, probes, checkAwaits>>
closeVars   == <<closeState, closeClient, closeWaiters, pool>>
destroyVars == <<isDestroyed, destroyStage>>
historyVars == <<subscribed, unlistened, overlapped, missed>>
boundVars   == <<faults, unlistens>>
vars == <<clientVars, regVars, restoreVars, healthVars, closeVars,
          destroyVars, historyVars, boundVars>>

RegStages == {"idle", "queued", "connecting", "listening", "closing",
              "done", "failed"}
RestoreStages == {"none", "closing", "registering", "undoing", "delay"}

TypeOK ==
    /\ client \in [Clients -> {"none", "live", "dead", "reported"}]
    /\ callback \in [Clients -> Users \cup {None}]
    /\ pool \in Clients \cup {0}
    /\ pendingReg \in BOOLEAN
    /\ reg \in [Actors -> RegStages]
    /\ regClient \in [Actors -> Clients \cup {0}]
    /\ restore \in RestoreStages
    /\ restoreCb \in Users \cup {None}
    /\ cancelled \in BOOLEAN
    /\ checking \in BOOLEAN
    /\ probes \subseteq Clients
    /\ checkAwaits \in BOOLEAN
    /\ closeState \in {"none", "draining", "closing"}
    /\ closeClient \in Clients \cup {0}
    /\ closeWaiters \subseteq {"unlisten", "restore", "destroy"}
    /\ isDestroyed \in BOOLEAN
    /\ destroyStage \in {"none", "first", "second", "done"}
    /\ subscribed \in Users \cup {None}
    /\ unlistened \in BOOLEAN
    /\ overlapped \in BOOLEAN
    /\ missed \in BOOLEAN
    /\ faults \in 0..MaxFaults
    /\ unlistens \in 0..MaxUnlistens

Init ==
    /\ client = [k \in Clients |-> "none"]
    /\ callback = [k \in Clients |-> None]
    /\ pool = 0
    /\ pendingReg = FALSE
    /\ reg = [a \in Actors |-> "idle"]
    /\ regClient = [a \in Actors |-> 0]
    /\ restore = "none"
    /\ restoreCb = None
    /\ cancelled = FALSE
    /\ checking = FALSE
    /\ probes = {}
    /\ checkAwaits = FALSE
    /\ closeState = "none"
    /\ closeClient = 0
    /\ closeWaiters = {}
    /\ isDestroyed = FALSE
    /\ destroyStage = "none"
    /\ subscribed = None
    /\ unlistened = FALSE
    /\ overlapped = FALSE
    /\ missed = FALSE
    /\ faults = 0
    /\ unlistens = 0

\* isNotificationRestoreCancelled
RestoreCancelled == isDestroyed \/ cancelled

InFlight(a) == reg[a] \in {"queued", "connecting", "listening", "closing"}

\* A call of the application that overlaps another one or a subscription:
\* nothing in the code restricts it.
UnlistenOverlaps == \E u \in Users : InFlight(u)
ListenOverlaps   == \/ \E u \in Users : InFlight(u)
                    \/ subscribed # None
                    \/ "unlisten" \in closeWaiters

\* The active close is not that of the client in the pool.
JoinsOlderClose == closeState = "closing" /\ pool # 0

\* The guard of listenNotify and, once more, of registerListener.
AlreadyRegistered == pool # 0 \/ pendingReg

Fault == faults < MaxFaults /\ faults' = faults + 1

-----------------------------------------------------------------------------
(***************************************************************************)
(* closeNotificationChannel: one close at a time, shared by all who ask.   *)
(***************************************************************************)

\* w awaits the close of the channel and starts it if none is active: first
\* the callback queue is drained, if there are callbacks (then there is a
\* client), and then performCloseListenerConnection takes the client out of
\* the pool, stops its health check timer and closes it.
CloseChannel(w) ==
    /\ closeWaiters' = closeWaiters \cup {w}
    /\ \/ /\ closeState # "none"
          /\ UNCHANGED <<closeState, closeClient, pool>>
       \/ /\ closeState = "none"
          /\ pool # 0
          /\ closeState' = "draining"
          /\ UNCHANGED <<closeClient, pool>>
       \/ /\ closeState = "none"
          /\ closeState' = "closing"
          /\ closeClient' = pool
          /\ pool' = 0

\* The callbacks are done, or the wait for them timed out.
DrainEnds ==
    /\ closeState = "draining"
    /\ closeState' = "closing"
    /\ closeClient' = pool
    /\ pool' = 0
    /\ UNCHANGED <<closeWaiters, clientVars, regVars, restoreVars, healthVars,
                   destroyVars, historyVars, boundVars>>

-----------------------------------------------------------------------------
(***************************************************************************)
(* restoreNotification and its retry loop.                                 *)
(***************************************************************************)

\* The finally of restoreNotification; a health check that awaits the restore
\* resumes and ends.
EndRestore ==
    /\ restore' = "none"
    /\ restoreCb' = None
    /\ cancelled' = (cancelled /\ isDestroyed)
    /\ checking' = (checking /\ ~checkAwaits)
    /\ checkAwaits' = FALSE
    /\ UNCHANGED probes

\* restoreClientConnection begins by closing what is left of the channel.
Attempt ==
    /\ restore' = "closing"
    /\ CloseChannel("restore")

\* restoreNotification: cancelled restores and duplicates do nothing.
StartRestore(cb) ==
    IF RestoreCancelled \/ restore # "none"
    THEN UNCHANGED <<restore, restoreCb, closeVars>>
    ELSE restoreCb' = cb /\ Attempt

\* Mutant of AttemptFails: no look at the cancellation after a failed attempt.
AttemptFailsUnchecked ==
    /\ restore' = "delay"
    /\ UNCHANGED <<restoreCb, cancelled, healthVars>>

\* The attempt throws: wait for the next one, unless cancelled meanwhile.
AttemptFails ==
    IF RestoreCancelled
    THEN EndRestore
    ELSE /\ restore' = "delay"
         /\ UNCHANGED <<restoreCb, cancelled, healthVars>>

\* The delay before the next attempt is over.  A cancelled delay ends in the
\* step that cancels it.
RetryDelayEnds ==
    /\ restore = "delay"
    /\ Attempt
    /\ UNCHANGED <<restoreCb, cancelled, clientVars, regVars, healthVars,
                   destroyVars, historyVars, boundVars>>

\* The close promise settles, and those who await it go on: unlistenNotify
\* (destroy calls it too) with clearNotificationRestoreState,
\* restoreClientConnection with listenNotify for the callback it restores, or
\* with its end.  A ping of the closed client ends with it.
CloseDone ==
    /\ closeState = "closing"
    /\ client' = [k \in Clients |->
                    IF k = closeClient THEN "none" ELSE client[k]]
    /\ callback' = [k \in Clients |->
                      IF k = closeClient THEN None ELSE callback[k]]
    /\ probes' = probes \ {closeClient}
    /\ closeState' = "none"
    /\ closeClient' = 0
    /\ closeWaiters' = {}
    /\ LET restoring == "restore" \in closeWaiters
           goesOn    == restoring /\ restore = "closing" /\ ~RestoreCancelled
           cleared   == closeWaiters \cap {"unlisten", "destroy"} # {}
       IN /\ IF goesOn
             THEN IF AlreadyRegistered
                  THEN restore' = "delay" /\ UNCHANGED reg
                  ELSE /\ restore' = "registering"
                       /\ reg' = [reg EXCEPT ![Restorer] = "queued"]
             ELSE /\ restore' = IF restoring THEN "none" ELSE restore
                  /\ UNCHANGED reg
          /\ restoreCb' = IF restore' = "none" THEN None ELSE restoreCb
          /\ cancelled' = (/\ cancelled
                           /\ \/ isDestroyed
                              \/ restore' # "none"
                              \/ ~restoring /\ ~cleared)
          /\ checking' = (/\ checking
                          /\ ~cleared
                          /\ closeClient \notin probes
                          /\ ~(checkAwaits /\ restore' = "none"))
          /\ checkAwaits' = (checkAwaits /\ restore' # "none")
    /\ UNCHANGED <<pool, pendingReg, regClient, destroyVars, historyVars,
                   boundVars>>

-----------------------------------------------------------------------------
(***************************************************************************)
(* listenNotify and registerListener.                                      *)
(***************************************************************************)

\* listenNotify checks, and tracks a registration that starts in a microtask.
Listen(u) ==
    /\ reg[u] = "idle"
    /\ ~isDestroyed
    /\ reg' = [reg EXCEPT ![u] = IF AlreadyRegistered THEN "failed"
                                                      ELSE "queued"]
    /\ unlistened' = (unlistened /\ AlreadyRegistered)
    /\ overlapped' = (overlapped \/ ListenOverlaps)
    /\ UNCHANGED <<pendingReg, regClient, clientVars, restoreVars, healthVars,
                   closeVars, destroyVars, subscribed, missed, boundVars>>

\* The registration of a ends without a listener: the caller's promise is
\* rejected or, if the caller is the restore loop, its attempt fails.
RegistrationFails(a) ==
    /\ reg' = [reg EXCEPT ![a] = IF a = Restorer THEN "idle" ELSE "failed"]
    /\ regClient' = [regClient EXCEPT ![a] = 0]
    /\ IF a = Restorer THEN AttemptFails
                       ELSE UNCHANGED <<restoreVars, healthVars>>
    /\ UNCHANGED <<callback, closeVars, destroyVars, historyVars, unlistens>>

\* Mutant of StartRegistration: registerListener does not look again.
StartRegistrationUnguarded(a) ==
    /\ reg[a] = "queued"
    /\ IF isDestroyed
       THEN /\ RegistrationFails(a)
            /\ UNCHANGED <<client, pendingReg, faults>>
       ELSE /\ pendingReg' = TRUE
            /\ reg' = [reg EXCEPT ![a] = "connecting"]
            /\ UNCHANGED <<regClient, clientVars, restoreVars, healthVars,
                           closeVars, destroyVars, historyVars, boundVars>>

\* registerListener starts: its guards, again, then createSingleConnection.
StartRegistration(a) ==
    /\ reg[a] = "queued"
    /\ IF isDestroyed \/ AlreadyRegistered
       THEN /\ RegistrationFails(a)
            /\ UNCHANGED <<client, pendingReg, faults>>
       ELSE /\ pendingReg' = TRUE
            /\ reg' = [reg EXCEPT ![a] = "connecting"]
            /\ UNCHANGED <<regClient, clientVars, restoreVars, healthVars,
                           closeVars, destroyVars, historyVars, boundVars>>

\* The client is connected: LISTEN, unless destroyed meanwhile.
Connected(a) ==
    /\ reg[a] = "connecting"
    /\ \E k \in Clients :
          /\ client[k] = "none"
          /\ \A j \in 1..(k - 1) : client[j] # "none"
          /\ client' = [client EXCEPT ![k] = "live"]
          /\ regClient' = [regClient EXCEPT ![a] = k]
    /\ reg' = [reg EXCEPT ![a] = IF isDestroyed THEN "closing" ELSE "listening"]
    /\ UNCHANGED <<callback, pendingReg, restoreVars, healthVars, closeVars,
                   destroyVars, historyVars, boundVars>>

ConnectFails(a) ==
    /\ reg[a] = "connecting"
    /\ Fault
    /\ pendingReg' = FALSE
    /\ RegistrationFails(a)
    /\ UNCHANGED client

\* Mutant of Published: the restore loop does not undo a registration that was
\* cancelled while it was under way.
PublishedUnchecked(a, k) ==
    /\ pool' = k
    /\ IF a = Restorer
       THEN EndRestore /\ UNCHANGED historyVars
       ELSE /\ cancelled' = (cancelled /\ restore # "none")
            /\ subscribed' = a
            /\ UNCHANGED <<restore, restoreCb, healthVars, unlistened, overlapped,
                           missed>>
    /\ UNCHANGED <<closeState, closeClient, closeWaiters>>

\* What follows the publication of client k, by actor: the restore loop ends,
\* or undoes the registration if it was cancelled meanwhile; a user's call
\* runs markNotificationActive.
Published(a, k) ==
    IF a = Restorer
    THEN IF cancelled
         THEN /\ restore' = "undoing"
              /\ closeWaiters' = closeWaiters \cup {"restore"}
              /\ IF closeState = "none"
                 THEN closeState' = "closing" /\ closeClient' = k /\ pool' = 0
                 ELSE pool' = k /\ UNCHANGED <<closeState, closeClient>>
              /\ UNCHANGED <<restoreCb, cancelled, healthVars, historyVars>>
         ELSE /\ EndRestore
              /\ pool' = k
              /\ UNCHANGED <<closeState, closeClient, closeWaiters, historyVars>>
    ELSE /\ pool' = k
         /\ cancelled' = (cancelled /\ restore # "none")
         /\ subscribed' = a
         /\ UNCHANGED <<restore, restoreCb, healthVars, closeState,
                        closeClient, closeWaiters, unlistened, overlapped,
                        missed>>

\* Mutant of Listened: no assertCanRegisterNotification after LISTEN.
ListenedUnguarded(a) ==
    /\ reg[a] = "listening"
    /\ client[regClient[a]] = "live"
    /\ reg' = [reg EXCEPT ![a] = IF a = Restorer THEN "idle" ELSE "done"]
    /\ regClient' = [regClient EXCEPT ![a] = 0]
    /\ pendingReg' = FALSE
    /\ callback' = [callback EXCEPT ![regClient[a]] =
                      IF a = Restorer THEN restoreCb ELSE a]
    /\ Published(a, regClient[a])
    /\ UNCHANGED <<client, destroyVars, boundVars>>

\* LISTEN is answered: handlers and the health check timer are installed and
\* the client is published, unless destroyed meanwhile.
Listened(a) ==
    /\ reg[a] = "listening"
    /\ client[regClient[a]] = "live"
    /\ IF isDestroyed
       THEN /\ reg' = [reg EXCEPT ![a] = "closing"]
            /\ UNCHANGED <<callback, pendingReg, regClient, restoreVars,
                           healthVars, closeVars, historyVars>>
       ELSE /\ reg' = [reg EXCEPT ![a] = IF a = Restorer THEN "idle"
                                                         ELSE "done"]
            /\ regClient' = [regClient EXCEPT ![a] = 0]
            /\ pendingReg' = FALSE
            /\ callback' = [callback EXCEPT ![regClient[a]] =
                              IF a = Restorer THEN restoreCb ELSE a]
            /\ Published(a, regClient[a])
    /\ UNCHANGED <<client, destroyVars, boundVars>>

\* LISTEN is rejected, because the connection broke or for another reason.
ListenFails(a) ==
    /\ reg[a] = "listening"
    /\ IF client[regClient[a]] = "live" THEN Fault ELSE UNCHANGED faults
    /\ reg' = [reg EXCEPT ![a] = "closing"]
    /\ UNCHANGED <<pendingReg, regClient, clientVars, restoreVars, healthVars,
                   closeVars, destroyVars, historyVars, unlistens>>

\* The client of a failed registration is closed, and the failure thrown.
RegistrationClosed(a) ==
    /\ reg[a] = "closing"
    /\ client' = [client EXCEPT ![regClient[a]] = "none"]
    /\ pendingReg' = FALSE
    /\ RegistrationFails(a)
    /\ UNCHANGED faults

-----------------------------------------------------------------------------
(***************************************************************************)
(* Connection loss and health checks.                                      *)
(***************************************************************************)

\* A connection breaks.
ClientDies(k) ==
    /\ client[k] = "live"
    /\ Fault
    /\ client' = [client EXCEPT ![k] = "dead"]
    /\ UNCHANGED <<callback, regVars, restoreVars, healthVars, closeVars,
                   destroyVars, historyVars, unlistens>>

\* The driver reports the loss to the handler of the client, which restores
\* the listener if the client is still the one of the channel.
LossReported(k) ==
    /\ client[k] = "dead"
    /\ callback[k] # None
    /\ client' = [client EXCEPT ![k] = "reported"]
    /\ IF pool = k
       THEN StartRestore(callback[k])
       ELSE UNCHANGED <<restore, restoreCb, closeVars>>
    /\ UNCHANGED <<callback, regVars, cancelled, healthVars, destroyVars,
                   historyVars, boundVars>>

\* The health check timer, which runs as long as the client is in the pool
\* and the adapter is not destroyed, pings the client.
HealthCheckTick ==
    /\ pool # 0
    /\ ~isDestroyed
    /\ ~checking
    /\ checking' = TRUE
    /\ probes' = probes \cup {pool}
    /\ UNCHANGED <<checkAwaits, clientVars, regVars, restoreVars, closeVars,
                   destroyVars, historyVars, boundVars>>

ProbeSucceeds(k) ==
    /\ k \in probes
    /\ client[k] = "live"
    /\ probes' = probes \ {k}
    /\ checking' = FALSE
    /\ UNCHANGED <<checkAwaits, clientVars, regVars, restoreVars, closeVars,
                   destroyVars, historyVars, boundVars>>

\* Mutant of ProbeFails: a failed health check is left to the driver's report.
ProbeFailsIgnored(k) ==
    /\ k \in probes
    /\ IF client[k] = "live" THEN Fault ELSE UNCHANGED faults
    /\ probes' = probes \ {k}
    /\ checking' = FALSE
    /\ UNCHANGED <<checkAwaits, restoreVars, closeVars, clientVars, regVars,
                   destroyVars, historyVars, unlistens>>

\* The ping fails or times out.
ProbeFails(k) ==
    /\ k \in probes
    /\ IF client[k] = "live" THEN Fault ELSE UNCHANGED faults
    /\ probes' = probes \ {k}
    /\ IF pool = k /\ ~RestoreCancelled
       THEN StartRestore(callback[k]) /\ checkAwaits' = TRUE /\ UNCHANGED checking
       ELSE checking' = FALSE /\ UNCHANGED <<checkAwaits, restore, restoreCb, closeVars>>
    /\ UNCHANGED <<clientVars, regVars, cancelled, destroyVars, historyVars,
                   unlistens>>

-----------------------------------------------------------------------------
(***************************************************************************)
(* unlistenNotify and destroy.                                             *)
(***************************************************************************)

\* Mutant of CancelRestore: unlistenNotify leaves the restore alone.
CancelRestoreNot == UNCHANGED <<restoreVars, healthVars>>

\* cancelNotificationRestore: a restore that waits for its next attempt ends.
CancelRestore ==
    IF restore = "delay"
    THEN EndRestore
    ELSE cancelled' = TRUE /\ UNCHANGED <<restore, restoreCb, healthVars>>

Unlisten ==
    /\ unlistens < MaxUnlistens
    /\ unlistens' = unlistens + 1
    /\ CancelRestore
    /\ CloseChannel("unlisten")
    /\ subscribed' = None
    /\ unlistened' = ~UnlistenOverlaps
    /\ overlapped' = (overlapped \/ UnlistenOverlaps)
    /\ missed' = (missed \/ JoinsOlderClose)
    /\ UNCHANGED <<clientVars, regVars, destroyVars, faults>>

\* destroy: no new work, restores are cancelled, the pooled client closed.
Destroy ==
    /\ ~isDestroyed
    /\ isDestroyed' = TRUE
    /\ destroyStage' = "first"
    /\ IF restore = "delay"
       THEN /\ restore' = "none"
            /\ restoreCb' = None
            /\ checking' = (checking /\ ~checkAwaits)
            /\ checkAwaits' = FALSE
       ELSE UNCHANGED <<restore, restoreCb, checking, checkAwaits>>
    /\ cancelled' = TRUE
    /\ IF pool # 0 THEN CloseChannel("destroy") ELSE UNCHANGED closeVars
    /\ UNCHANGED <<probes, clientVars, regVars, historyVars, boundVars>>

\* Mutant of SecondPass: one pass only.
SecondPassSkipped ==
    /\ destroyStage = "first"
    /\ "destroy" \notin closeWaiters
    /\ destroyStage' = "second"
    /\ UNCHANGED <<closeVars, isDestroyed, clientVars, regVars, restoreVars,
                   healthVars, historyVars, boundVars>>

\* The first pass is over: the close settled, and so did the restores and
\* registrations that were under way, or the wait for them timed out.
\* The second pass closes a client that the first one missed.
SecondPass ==
    /\ destroyStage = "first"
    /\ "destroy" \notin closeWaiters
    /\ destroyStage' = "second"
    /\ IF pool # 0 THEN CloseChannel("destroy") ELSE UNCHANGED closeVars
    /\ UNCHANGED <<isDestroyed, clientVars, regVars, restoreVars, healthVars,
                   historyVars, boundVars>>

\* destroyNotifications clears the pool and the restore states.
DestroyDone ==
    /\ destroyStage = "second"
    /\ "destroy" \notin closeWaiters
    /\ destroyStage' = "done"
    /\ pool' = 0
    /\ cancelled' = FALSE
    /\ UNCHANGED <<closeState, closeClient, closeWaiters, isDestroyed,
                   clientVars, regVars, restore, restoreCb, healthVars,
                   historyVars, boundVars>>

-----------------------------------------------------------------------------
\* Work without I/O comes first: a close that finds no client settles and a
\* queued registration starts before an answer, a timer or an event is handled.
CloseIsImmediate == closeState = "closing" /\ closeClient = 0
Quiet == ~CloseIsImmediate /\ \A a \in Actors : reg[a] # "queued"

RegistrationStep(a) ==
    \/ Connected(a) \/ ConnectFails(a)
    \/ Listened(a) \/ ListenFails(a) \/ RegistrationClosed(a)

ClientStep(k) ==
    ClientDies(k) \/ LossReported(k) \/ ProbeSucceeds(k) \/ ProbeFails(k)

Next ==
    \/ /\ CloseIsImmediate \/ Quiet
       /\ CloseDone
    \/ /\ ~CloseIsImmediate
       /\ \/ \E u \in Users : Listen(u)
          \/ \E a \in Actors : StartRegistration(a)
          \/ Unlisten \/ Destroy
    \/ /\ Quiet
       /\ \/ \E a \in Actors : RegistrationStep(a)
          \/ \E k \in Clients : ClientStep(k)
          \/ HealthCheckTick \/ DrainEnds \/ RetryDelayEnds
          \/ SecondPass \/ DestroyDone

Spec == Init /\ [][Next]_vars

\* Fairness: connecting, LISTEN, a ping and closing settle (the driver answers
\* or a timeout of the code fires); timers fire; what the code runs next runs.
\* Not fair: faults, the driver's report of a loss (only the health check has
\* to find it) and the calls of the application.
\* The short spells in which the others are held back do not count.
FairSpec ==
    /\ Spec
    /\ WF_vars(CloseDone)
    /\ WF_vars(DrainEnds)
    /\ WF_vars(RetryDelayEnds)
    /\ WF_vars(SecondPass)
    /\ WF_vars(DestroyDone)
    /\ WF_vars(HealthCheckTick)
    /\ \A a \in Actors : WF_vars(StartRegistration(a) \/ RegistrationStep(a))
    /\ \A k \in Clients : WF_vars(ProbeSucceeds(k) \/ ProbeFails(k))

-----------------------------------------------------------------------------
Open(k) == client[k] # "none"

\* Every open client is the one of the channel, belongs to a registration
\* that is under way, or is being closed: none is forgotten by a lost race
\* between listenNotify, unlistenNotify, the restore loop and destroy().
NoClientForgotten ==
    \A k \in Clients :
        Open(k) => \/ k = pool
                   \/ k = closeClient
                   \/ \E a \in Actors : regClient[a] = k

\* The channel has at most one listener: while a client is published, no
\* registration goes on to connect or LISTEN another one, which would deliver
\* every event twice.
OneListener ==
    /\ pool # 0 => \A a \in Actors : reg[a] \notin {"connecting", "listening"}
    /\ \A a, b \in Actors :
          {reg[a], reg[b]} \subseteq {"connecting", "listening", "closing"}
              => a = b

\* Once unlistenNotify is over, no client of the channel is published until
\* listenNotify is called again ("Prevents queued restore work from recreating
\* a notification after manual unlisten or destroy").
Unlistened ==
    unlistened /\ restore = "none" /\ closeState = "none" => pool = 0

\* The application awaits every call and ends a subscription before the next,
\* and each of its unlistenNotify calls closed the client that was published:
\* a client that one of them missed goes on, and its restore may close the
\* client of the listenNotify call after the next and bring its callback back.
Undisturbed == ~overlapped /\ ~missed

\* That holds when listenNotify was called once, and for an undisturbed
\* application: no restore that is under way brings the client back.
UnlistenIsFinal ==
    \/ \A u, v \in Users : reg[u] # "idle" /\ reg[v] # "idle" => u = v
    \/ Undisturbed
    => Unlistened

\* It is also expected of an application that subscribes anew, awaits every
\* call and ends a subscription before the next ("Unregisters one notification
\* subscription and closes its single notification connection").
UnlistenIsFinalAgain == ~overlapped => Unlistened

\* The client of the channel calls the callback that was registered last.
CallbackIsLast ==
    pool # 0 /\ subscribed # None => callback[pool] = subscribed

\* An undisturbed application keeps its callback through losses and restores
\* ("restore the listener with the same callback and retry options"): a
\* restore that was cancelled never brings an older one back.
CallbackKept == Undisturbed => CallbackIsLast

\* After destroy() began no client is published any more.
NoPublicationAfterDestroy ==
    [][isDestroyed => pool' \in {pool, 0}]_vars

\* A restore that unlistenNotify cancelled, or destroy(), makes no further
\* attempt: it only ends.
CancelledRestoreEnds ==
    [][restore # "none" /\ RestoreCancelled
          => restore' \in {restore, "undoing", "none"}]_vars

\* A subscription that was not ended has a live client again and again, with
\* losses the driver never reports, failing attempts and cancelled restores.
ListenerRestored ==
    subscribed # None ~> \/ pool # 0 /\ client[pool] = "live"
                         \/ subscribed = None
                         \/ isDestroyed

\* destroy() ends and leaves nothing open for ever: what it did not wait for
\* closes its client when it settles.
DestroyClosesClients ==
    isDestroyed ~> [](destroyStage = "done" /\ \A k \in Clients : ~Open(k))

-----------------------------------------------------------------------------
\* The refinement mapping: the channel has the client in the pool or the one of
\* its registration, and every other open client is about to be closed.
Registering == {regClient[a] : a \in Actors} \ {0}

ChannelClient ==
    IF pool # 0 THEN pool
    ELSE IF Registering # {} THEN CHOOSE k \in Registering : TRUE
    ELSE 0

Contract == INSTANCE DedicatedConnections WITH
    Channels  <- {1},
    Conns     <- Clients,
    None      <- 0,
    conn      <- [ch \in {1} |-> ChannelClient],
    published <- {ch \in {1} : pool # 0},
    leaving   <- {k \in Clients : Open(k)} \ {ChannelClient},
    destroyed <- isDestroyed

\* PostgreNotify keeps what DatabaseNotify promises of dedicated connections:
\* a client is published once, on a channel that has none, and never after
\* destroy() began; it is closed only after it was taken out of the pool.
ImplementsContract == Contract!Spec
=============================================================================
