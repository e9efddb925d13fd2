---------------------- MODULE PostgreNotificationQueue ----------------------
(***************************************************************************)
(* The callback queue of one LISTEN channel: enqueueNotificationPayload    *)
(* and the close hooks of PostgreNotify                                    *)
(* (src/src/adapters/postgres/postgre-notify.ts), with                     *)
(* closeNotificationChannel of DatabaseNotify                              *)
(* (src/src/adapters/abstract/database-notify.ts).                         *)
(*                                                                         *)
(* A queue is a chain of promises, one per event: the head is the event    *)
(* whose callback runs, the length is the size the code counts.  The map   *)
(* notificationQueues knows one queue of the channel, but an older one     *)
(* lives on as long as a callback of it runs.                              *)
(*                                                                         *)
(* How the channel gets its clients is PostgreNotify: here a client is     *)
(* published when the channel has none, and closed when somebody asks.     *)
(***************************************************************************)
EXTENDS Integers, Sequences, FiniteSets

CONSTANTS Clients,     \* dedicated clients, reused when nothing refers to them
          Queues,      \* queue objects, reused when empty
          None,        \* no client, no queue
          MaxQueue     \* maxNotificationQueue

ASSUME ConstantsAssumption ==
    /\ None \notin Clients
    /\ None \notin Queues
    /\ MaxQueue \in Nat \ {0}

VARIABLES
    pool,        \* notificationPool: the client of the channel
    closeState,  \* notificationClosePromises: "none", "draining", "closing"
    closeClient, \* the client that performCloseListenerConnection closes
    closing,     \* closingNotificationChannels has the channel
    drained,     \* the queue whose tail the close waits for
    active,      \* notificationQueues: the queue of the channel
    owner,       \* [Queues -> the client whose events the queue holds]
    size,        \* [Queues -> events accepted and not processed]
    gaveUp       \* history: a close stopped waiting for a callback

vars == <<pool, closeState, closeClient, closing, drained, active, owner, size,
          gaveUp>>

closeVars == <<pool, closeState, closeClient, closing, drained, gaveUp>>

TypeOK ==
    /\ pool \in Clients \cup {None}
    /\ closeState \in {"none", "draining", "closing"}
    /\ closeClient \in Clients \cup {None}
    /\ closing \in BOOLEAN
    /\ drained \in Queues \cup {None}
    /\ active \in Queues \cup {None}
    /\ owner \in [Queues -> Clients \cup {None}]
    /\ size \in [Queues -> 0..MaxQueue]
    /\ gaveUp \in BOOLEAN

Init ==
    /\ pool = None
    /\ closeState = "none"
    /\ closeClient = None
    /\ closing = FALSE
    /\ drained = None
    /\ active = None
    /\ owner = [q \in Queues |-> None]
    /\ size = [q \in Queues |-> 0]
    /\ gaveUp = FALSE

\* A queue with events: a callback of it is running.
Busy(q) == size[q] > 0

-----------------------------------------------------------------------------
\* listenNotify publishes a new client for a channel that has none.
Publish(k) ==
    /\ pool = None
    /\ k # closeClient
    /\ \A q \in Queues : owner[q] # k
    /\ pool' = k
    /\ UNCHANGED <<closeState, closeClient, closing, drained, active, owner,
                   size, gaveUp>>

\* Mutant of Notification: the limit is off by one.
NotificationOverLimit(k) ==
    /\ k \in {pool, closeClient} \ {None}
    /\ ~closing
    /\ \E q \in Queues :
          /\ IF active = None THEN ~Busy(q) ELSE q = active
          /\ size[q] =< MaxQueue
          /\ owner' = [owner EXCEPT ![q] = k]
          /\ size' = [size EXCEPT ![q] = @ + 1]
          /\ active' = q
    /\ UNCHANGED closeVars

\* Mutant of Notification: a queue per event.
NotificationFreshQueue(k) ==
    /\ k \in {pool, closeClient} \ {None}
    /\ ~closing
    /\ \E q \in Queues :
          /\ ~Busy(q)
          /\ owner' = [owner EXCEPT ![q] = k]
          /\ size' = [size EXCEPT ![q] = @ + 1]
          /\ active' = q
    /\ UNCHANGED closeVars

\* enqueueNotificationPayload: an event of client k is accepted and put behind
\* the tail of the queue of the channel, a new one if the map has none.  An
\* event that comes while the channel is closing or the queue is full is
\* dropped.  The handlers of a client stay until it is closed.
Notification(k) ==
    /\ k \in {pool, closeClient} \ {None}
    /\ ~closing
    /\ \E q \in Queues :
          /\ IF active = None THEN ~Busy(q) ELSE q = active
          /\ size[q] < MaxQueue
          /\ owner' = [owner EXCEPT ![q] = k]
          /\ size' = [size EXCEPT ![q] = @ + 1]
          /\ active' = q
    /\ UNCHANGED closeVars

\* Mutant of CallbackDone: processPayload does not compare the client.
CallbackDoneUnchecked(q) ==
    /\ Busy(q)
    /\ size' = [size EXCEPT ![q] = @ - 1]
    /\ owner' = [owner EXCEPT ![q] = IF size[q] = 1 THEN None ELSE @]
    /\ active' = IF size[q] = 1 THEN None ELSE active
    /\ UNCHANGED closeVars

\* The running callback of q settles.  The next event of q is processed if its
\* client is still the one of the channel; otherwise the rest of q comes to
\* nothing at once.  The end of the last event deletes the queue of the
\* channel from the map, whichever queue that is.
CallbackDone(q) ==
    /\ Busy(q)
    /\ LET left == IF owner[q] = pool THEN size[q] - 1 ELSE 0
       IN /\ size' = [size EXCEPT ![q] = left]
          /\ owner' = [owner EXCEPT ![q] = IF left = 0 THEN None ELSE @]
          /\ active' = IF left = 0 THEN None ELSE active
    /\ UNCHANGED closeVars

-----------------------------------------------------------------------------
\* Mutant of Close: the callbacks are not waited for.
CloseAtOnce ==
    /\ closeState = "none"
    /\ closing' = TRUE
    /\ closeState' = "closing"
    /\ closeClient' = pool
    /\ pool' = None
    /\ UNCHANGED <<drained, active, owner, size, gaveUp>>

\* closeNotificationChannel: new events are rejected from now on, and the tail
\* of the queue in the map is waited for.  Without a queue the client leaves
\* the pool at once.  A close that is active already is joined: no step.
Close ==
    /\ closeState = "none"
    /\ closing' = TRUE
    /\ IF active = None
       THEN /\ closeState' = "closing"
            /\ closeClient' = pool
            /\ pool' = None
            /\ UNCHANGED drained
       ELSE /\ closeState' = "draining"
            /\ drained' = active
            /\ UNCHANGED <<closeClient, pool>>
    /\ UNCHANGED <<active, owner, size, gaveUp>>

\* Mutant of DrainEnds: no timeout for a callback that hangs.
DrainEndsOnlyWhenDone ==
    /\ closeState = "draining"
    /\ ~Busy(drained)
    /\ closeState' = "closing"
    /\ closeClient' = pool
    /\ pool' = None
    /\ drained' = None
    /\ UNCHANGED <<closing, active, owner, size, gaveUp>>

\* The tail settled, or the wait for it timed out: performCloseListenerConnection
\* takes the client out of the pool and goes on to close it.
DrainEnds ==
    /\ closeState = "draining"
    /\ gaveUp' = (gaveUp \/ Busy(drained))
    /\ closeState' = "closing"
    /\ closeClient' = pool
    /\ pool' = None
    /\ drained' = None
    /\ UNCHANGED <<closing, active, owner, size>>

\* The client is closed, and completeNotificationQueueClose forgets the queue.
CloseDone ==
    /\ closeState = "closing"
    /\ closeState' = "none"
    /\ closeClient' = None
    /\ closing' = FALSE
    /\ active' = None
    /\ UNCHANGED <<pool, drained, owner, size, gaveUp>>

Next ==
    \/ \E k \in Clients : Publish(k) \/ Notification(k)
    \/ \E q \in Queues : CallbackDone(q)
    \/ Close \/ DrainEnds \/ CloseDone

Spec == Init /\ [][Next]_vars

\* The drain timer and the closing of a client end; a callback need not.
FairSpec == Spec /\ WF_vars(DrainEnds) /\ WF_vars(CloseDone)

-----------------------------------------------------------------------------
Current(q) == Busy(q) /\ owner[q] = pool

\* The callbacks of the current listener run one at a time, and no more events
\* wait for them than the limit allows ("serializes callbacks and bounds the
\* per-channel notification queue"): all are in one queue.
SerialAndBounded ==
    \A p, q \in Queues : Current(p) /\ Current(q) => p = q

\* So it is as long as no close stopped waiting for a callback, through any
\* number of closes, full queues and new listeners.
SerialUntilTimeout == ~gaveUp => SerialAndBounded

\* Events of a listener that was closed are not processed any more: only the
\* callback that was running then may end, and no other starts.
ClosedListenerIsSilent ==
    [][\A q \in Queues :
          Busy(q) /\ owner[q] # pool => size'[q] \in {size[q], 0}]_vars

\* Until a close stops waiting for a callback, a close takes the client out of
\* the pool only after its accepted events were processed ("drains active and
\* queued callbacks before unlisten").
DrainedBeforeClose ==
    [][pool' # pool /\ pool # None /\ ~gaveUp'
          => \A q \in Queues : ~Current(q)]_vars

\* A close ends even if a callback hangs (for instance, because it awaits the
\* unlistenNotify that waits for it), and the channel accepts events again.
CloseEnds == closeState # "none" ~> closeState = "none" /\ ~closing
=============================================================================
