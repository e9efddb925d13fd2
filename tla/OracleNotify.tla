---------------------------- MODULE OracleNotify ----------------------------
(***************************************************************************)
(* The Oracle notification adapter: OracleNotify                           *)
(* (src/src/adapters/oracle/oracle-notify.ts) over DatabaseNotify          *)
(* (src/src/adapters/abstract/database-notify.ts).                         *)
(*                                                                         *)
(* One listenNotify call with several operations registers one             *)
(* subscription per operation, each on a connection of its own, under a    *)
(* generated name: a channel of this module.  Subscriptions get lost, are  *)
(* deregistered by the server, restored, closed by the application and     *)
(* torn down by destroy(), while their messages wait in a queue.           *)
(***************************************************************************)
EXTENDS Integers, Sequences, FiniteSets

CONSTANTS Operations,   \* number of operations of the listenNotify call
          Conns,        \* identities of dedicated connections
          None,         \* no connection
          MaxQueue,     \* maxNotificationQueue
          MaxMessages,  \* messages that arrive
          MaxFaults     \* connections lost and calls that fail

Channels == 1..Operations

ASSUME ConstantsAssumption ==
    /\ Operations \in Nat \ {0}
    /\ None \notin Conns
    /\ MaxQueue \in Nat /\ MaxMessages \in Nat /\ MaxFaults \in Nat

VARIABLES
    open,       \* connections that exist
    pool,       \* [Channels -> notificationPool]
    reg,        \* the listenNotify call
    regNext,    \* the channel it registers
    regConn,    \* the connection of that registration
    restore,    \* [Channels -> the active restore]
    restConn,   \* [Channels -> the connection the restore holds]
    cancelled,  \* [Channels -> isCancelled of the restore state]
    close,      \* [Channels -> the active close]
    closeConn,  \* [Channels -> the connection it closes]
    queue,      \* [Channels -> waiting messages]
    handling,   \* [Channels -> the message that is processed]
    destroy,    \* destroy()
    closed,     \* history: channels whose close was over once
    late,       \* history: channels with a restore that began while a close
                \* drained the queue and did not end before that close went on
    messages,   \* messages so far
    faults      \* failures so far

regVars == <<reg, regNext, regConn>>
restVars == <<restore, restConn>>
closeVars == <<close, closeConn>>
queueVars == <<queue, handling>>
boundVars == <<messages, faults>>
vars == <<open, pool, reg, regNext, regConn, restore, restConn, cancelled, close,
          closeConn, queue, handling, destroy, closed, late, messages, faults>>

TypeOK ==
    /\ open \subseteq Conns
    /\ pool \in [Channels -> Conns \cup {None}]
    /\ reg \in {"idle", "connecting", "subscribing", "undoing", "failed", "ok"}
    /\ regNext \in Channels
    /\ regConn \in Conns \cup {None}
    /\ restore \in [Channels -> {"none", "attempt", "closing", "connecting",
                                 "subscribing", "reclosing", "delay"}]
    /\ restConn \in [Channels -> Conns \cup {None}]
    /\ cancelled \in [Channels -> BOOLEAN]
    /\ close \in [Channels -> {"none", "draining", "closing"}]
    /\ closeConn \in [Channels -> Conns \cup {None}]
    /\ queue \in [Channels -> Seq({"change", "dereg"})]
    /\ handling \in [Channels -> {"none", "callback", "restore"}]
    /\ destroy \in {"no", "first", "second", "done"}
    /\ closed \subseteq Channels /\ late \subseteq Channels
    /\ messages \in 0..MaxMessages
    /\ faults \in 0..MaxFaults

Init ==
    /\ open = {}
    /\ pool = [ch \in Channels |-> None]
    /\ reg = "idle" /\ regNext = 1 /\ regConn = None
    /\ restore = [ch \in Channels |-> "none"]
    /\ restConn = [ch \in Channels |-> None]
    /\ cancelled = [ch \in Channels |-> FALSE]
    /\ close = [ch \in Channels |-> "none"]
    /\ closeConn = [ch \in Channels |-> None]
    /\ queue = [ch \in Channels |-> <<>>]
    /\ handling = [ch \in Channels |-> "none"]
    /\ destroy = "no"
    /\ closed = {} /\ late = {}
    /\ messages = 0 /\ faults = 0

-----------------------------------------------------------------------------

Fails == faults < MaxFaults /\ faults' = faults + 1

Destroyed == destroy # "no"

IsNotificationRestoreCancelled(ch) == Destroyed \/ cancelled[ch]

\* A dedicated connection that does not exist yet.
FreshConn == CHOOSE c \in Conns \ open : TRUE

\* The channel's queue has a tail to wait for.
Busy(ch) == queue[ch] # <<>> \/ handling[ch] # "none"

-----------------------------------------------------------------------------
(* Closing subscriptions.                                                  *)

(***************************************************************************)
(* performCloseSubscription up to its first await, for the channels S: the *)
(* connection leaves the pool, messages that still wait for it will be     *)
(* skipped, and without a connection the close is over.                    *)
(***************************************************************************)
PerformClose(S, before) ==
    /\ pool' = [ch \in Channels |-> IF ch \in S THEN None ELSE pool[ch]]
    /\ closeConn' = [ch \in Channels |-> IF ch \in S THEN pool[ch] ELSE closeConn[ch]]
    /\ close' = [ch \in Channels |->
           IF ch \notin S THEN before[ch]
           ELSE IF pool[ch] = None THEN "none" ELSE "closing"]
    /\ closed' = closed \cup {ch \in S : pool[ch] = None}
    /\ queue' = [ch \in Channels |-> IF ch \in S THEN <<>> ELSE queue[ch]]

(***************************************************************************)
(* unlistenNotify of the channels S.  A restore is cancelled; a close that *)
(* is under way is joined; a queue with messages is drained first.         *)
(* clearNotificationRestoreState forgets the cancellation unless a restore *)
(* is active.                                                              *)
(***************************************************************************)
CloseSubscriptions(S) ==
    LET begun == {ch \in S : close[ch] = "none"}
        idle  == {ch \in begun : ~Busy(ch)}
    IN  /\ PerformClose(idle, [ch \in Channels |->
               IF ch \in begun THEN "draining" ELSE close[ch]])
        /\ cancelled' = [ch \in Channels |->
               IF ch \in idle THEN restore[ch] # "none"
               ELSE cancelled[ch] \/ ch \in S]

\* A cancelled restore does not sleep: its next attempt will see it.
CancelRetryDelay(S) ==
    restore' = [ch \in Channels |->
        IF ch \in S /\ restore[ch] = "delay" THEN "attempt" ELSE restore[ch]]

\* The application closes what it registered.
Unlisten ==
    /\ reg = "ok"
    /\ \E S \in SUBSET Channels \ {{}} : CloseSubscriptions(S) /\ CancelRetryDelay(S)
    /\ UNCHANGED <<open, regVars, restConn, handling, destroy, late, boundVars>>

\* completeNotificationQueueClose: the channel has no queue any more, although
\* a callback or a restore that the close did not wait for may still run.
CompleteNotificationQueueClose(ch) == handling' = [handling EXCEPT ![ch] = "none"]

\* The messages before the close were processed, or the wait timed out.
\* clearNotificationRestoreState cancels nothing: a restore that began after
\* the one that unlistenNotify cancelled had ended goes on.
CloseContinues(ch) ==
    /\ PerformClose({ch}, close)
    /\ cancelled' = [cancelled EXCEPT ![ch] = @ /\ restore[ch] # "none"]
    /\ IF pool[ch] = None THEN CompleteNotificationQueueClose(ch)
       ELSE UNCHANGED handling
    /\ UNCHANGED <<open, regVars, restVars, destroy, late, boundVars>>

Drained(ch) ==
    /\ close[ch] = "draining" /\ ~Busy(ch)
    /\ CloseContinues(ch)

DrainTimesOut(ch) ==
    /\ close[ch] = "draining" /\ Busy(ch)
    /\ CloseContinues(ch)

\* The subscription and its connection are gone; errors are only logged.
CloseDone(ch) ==
    /\ close[ch] = "closing"
    /\ open' = open \ {closeConn[ch]}
    /\ closeConn' = [closeConn EXCEPT ![ch] = None]
    /\ close' = [close EXCEPT ![ch] = "none"]
    /\ closed' = closed \cup {ch}
    /\ CompleteNotificationQueueClose(ch)
    /\ UNCHANGED <<pool, regVars, restVars, cancelled, queue, destroy, late,
                   boundVars>>

-----------------------------------------------------------------------------
(* Registration.                                                           *)

Listen ==
    /\ reg = "idle" /\ ~Destroyed
    /\ reg' = "connecting"
    /\ UNCHANGED <<open, pool, regNext, regConn, restVars, cancelled, closeVars,
                   queueVars, destroy, closed, late, boundVars>>

\* The channels that the call registered before the current one.
Earlier == 1..(regNext - 1)

\* An operation fails: the subscriptions of the earlier ones are closed.
UndoRegistration ==
    /\ reg' = "undoing"
    /\ CloseSubscriptions(Earlier) /\ CancelRetryDelay(Earlier)

\* createSingleConnection resolves; subscribe refuses after destroy().
Connected ==
    /\ reg = "connecting"
    /\ IF Destroyed
       THEN UndoRegistration /\ UNCHANGED <<open, regConn>>
       ELSE /\ open # Conns
            /\ open' = open \cup {FreshConn}
            /\ regConn' = FreshConn
            /\ reg' = "subscribing"
            /\ UNCHANGED <<pool, restore, cancelled, closeVars, queue, closed>>
    /\ UNCHANGED <<regNext, restConn, handling, destroy, late, boundVars>>

ConnectFails ==
    /\ reg = "connecting" /\ Fails
    /\ UndoRegistration
    /\ UNCHANGED <<open, regNext, regConn, restConn, handling, destroy, late,
                   messages>>

\* Mutant of Subscribed: no second look at destroy().
SubscribedAnyway ==
    /\ reg = "subscribing"
    /\ regConn' = None
    /\ pool' = [pool EXCEPT ![regNext] = regConn]
    /\ IF regNext = Operations THEN reg' = "ok" /\ UNCHANGED regNext
       ELSE reg' = "connecting" /\ regNext' = regNext + 1
    /\ UNCHANGED <<open, restVars, cancelled, closeVars, queueVars, destroy, closed,
                   late, boundVars>>

\* The subscription is published, and the next operation registered.
Subscribed ==
    /\ reg = "subscribing"
    /\ regConn' = None
    /\ IF Destroyed
       THEN /\ open' = open \ {regConn}
            /\ UndoRegistration
            /\ UNCHANGED regNext
       ELSE /\ pool' = [pool EXCEPT ![regNext] = regConn]
            /\ IF regNext = Operations THEN reg' = "ok" /\ UNCHANGED regNext
               ELSE reg' = "connecting" /\ regNext' = regNext + 1
            /\ UNCHANGED <<open, restore, cancelled, closeVars, queue, closed>>
    /\ UNCHANGED <<restConn, handling, destroy, late, boundVars>>

SubscribeFails ==
    /\ reg = "subscribing" /\ Fails
    /\ regConn' = None
    /\ open' = open \ {regConn}
    /\ UndoRegistration
    /\ UNCHANGED <<regNext, restConn, handling, destroy, late, messages>>

\* All closes have settled and the call rejects.
RegistrationRejected ==
    /\ reg = "undoing"
    /\ \A ch \in Earlier : close[ch] = "none"
    /\ reg' = "failed"
    /\ UNCHANGED <<open, pool, regNext, regConn, restVars, cancelled, closeVars,
                   queueVars, destroy, closed, late, boundVars>>

-----------------------------------------------------------------------------
(* Messages.                                                               *)

(***************************************************************************)
(* A message of the subscription in the pool: rows changed, or it was      *)
(* deregistered.  A closing channel accepts none, a full queue drops them. *)
(***************************************************************************)
Message(ch, kind) ==
    /\ messages < MaxMessages
    /\ pool[ch] # None /\ close[ch] = "none"
    /\ Len(queue[ch]) + (IF handling[ch] = "none" THEN 0 ELSE 1) < MaxQueue
    /\ queue' = [queue EXCEPT ![ch] = Append(@, kind)]
    /\ messages' = messages + 1
    /\ UNCHANGED <<open, pool, regVars, restVars, cancelled, closeVars, handling,
                   destroy, closed, late, faults>>

\* restoreNotification: not when cancelled, and joining an active restore.
RestoreNotification(ch) ==
    IF restore[ch] = "none"
    THEN /\ restore' = [restore EXCEPT ![ch] = "attempt"]
         /\ late' = IF close[ch] = "draining" THEN late \cup {ch} ELSE late
    ELSE UNCHANGED <<restore, late>>

\* The next message; a deregistration awaits the restore within the queue.
Process(ch) ==
    /\ handling[ch] = "none" /\ queue[ch] # <<>>
    /\ queue' = [queue EXCEPT ![ch] = Tail(@)]
    /\ \/ /\ Head(queue[ch]) = "change"
          /\ handling' = [handling EXCEPT ![ch] = "callback"]
          /\ UNCHANGED <<restore, late>>
       \/ /\ Head(queue[ch]) = "dereg" /\ ~IsNotificationRestoreCancelled(ch)
          /\ RestoreNotification(ch)
          /\ handling' = [handling EXCEPT ![ch] = "restore"]
       \/ /\ Head(queue[ch]) = "dereg" /\ IsNotificationRestoreCancelled(ch)
          /\ UNCHANGED <<restore, handling, late>>
    /\ UNCHANGED <<open, pool, regVars, restConn, cancelled, closeVars, destroy,
                   closed, boundVars>>

\* The rows were fetched and the callback is over, with or without an error.
CallbackDone(ch) ==
    /\ handling[ch] = "callback"
    /\ handling' = [handling EXCEPT ![ch] = "none"]
    /\ UNCHANGED <<open, pool, regVars, restVars, cancelled, closeVars, queue,
                   destroy, closed, late, boundVars>>

\* The health check finds the connection that is in the pool unhealthy.
CheckFails(ch) ==
    /\ pool[ch] # None /\ ~IsNotificationRestoreCancelled(ch) /\ Fails
    /\ RestoreNotification(ch)
    /\ UNCHANGED <<open, pool, regVars, restConn, cancelled, closeVars, queueVars,
                   destroy, closed, messages>>

-----------------------------------------------------------------------------
(* Restoring a subscription.                                               *)

\* The end of a restore: the message that waited for it was processed, and
\* the cancellation is over unless the adapter is.
EndRestore(ch) ==
    /\ restore' = [restore EXCEPT ![ch] = "none"]
    /\ cancelled' = [cancelled EXCEPT ![ch] = @ /\ Destroyed]
    /\ handling' = IF handling[ch] = "restore"
                   THEN [handling EXCEPT ![ch] = "none"] ELSE handling
    /\ late' = IF close[ch] = "draining" /\ ch \notin closed THEN late \ {ch} ELSE late

GoOn(ch, place) ==
    /\ restore' = [restore EXCEPT ![ch] = place]
    /\ UNCHANGED <<cancelled, handling, late>>

\* After a step of a restore: it goes on to the next place unless cancelled.
Onward(ch, place) ==
    IF IsNotificationRestoreCancelled(ch) THEN EndRestore(ch) ELSE GoOn(ch, place)

\* Mutant of Attempt: the close waits for the queue that waits for it.
AttemptDrains(ch) ==
    /\ restore[ch] = "attempt"
    /\ pool[ch] # None => ~Busy(ch)
    /\ IF pool[ch] = None \/ IsNotificationRestoreCancelled(ch)
       THEN Onward(ch, "connecting") /\ UNCHANGED <<pool, restConn, queue>>
       ELSE /\ GoOn(ch, "closing")
            /\ restConn' = [restConn EXCEPT ![ch] = pool[ch]]
            /\ pool' = [pool EXCEPT ![ch] = None]
            /\ queue' = [queue EXCEPT ![ch] = <<>>]
    /\ UNCHANGED <<open, regVars, closeVars, destroy, closed, boundVars>>

\* An attempt closes the old subscription first, without draining the queue
\* that it may itself be a part of.
Attempt(ch) ==
    /\ restore[ch] = "attempt"
    /\ IF pool[ch] = None \/ IsNotificationRestoreCancelled(ch)
       THEN Onward(ch, "connecting") /\ UNCHANGED <<pool, restConn, queue>>
       ELSE /\ GoOn(ch, "closing")
            /\ restConn' = [restConn EXCEPT ![ch] = pool[ch]]
            /\ pool' = [pool EXCEPT ![ch] = None]
            /\ queue' = [queue EXCEPT ![ch] = <<>>]
    /\ UNCHANGED <<open, regVars, closeVars, destroy, closed, boundVars>>

\* The old connection, or a new one that came too late, is closed.
RestoreClosed(ch) ==
    /\ restore[ch] \in {"closing", "reclosing"}
    /\ open' = open \ {restConn[ch]}
    /\ restConn' = [restConn EXCEPT ![ch] = None]
    /\ IF restore[ch] = "reclosing" THEN EndRestore(ch) ELSE Onward(ch, "connecting")
    /\ UNCHANGED <<pool, regVars, closeVars, queue, destroy, closed, boundVars>>

RestoreConnected(ch) ==
    /\ restore[ch] = "connecting"
    /\ IF Destroyed THEN EndRestore(ch) /\ UNCHANGED <<open, restConn>>
       ELSE /\ open # Conns
            /\ GoOn(ch, "subscribing")
            /\ open' = open \cup {FreshConn}
            /\ restConn' = [restConn EXCEPT ![ch] = FreshConn]
    /\ UNCHANGED <<pool, regVars, closeVars, queue, destroy, closed, boundVars>>

\* Mutant of RestoreSubscribed: no second look at the cancellation.
RestoreSubscribedAnyway(ch) ==
    /\ restore[ch] = "subscribing"
    /\ restConn' = [restConn EXCEPT ![ch] = None]
    /\ EndRestore(ch)
    /\ IF Destroyed THEN open' = open \ {restConn[ch]} /\ UNCHANGED pool
       ELSE pool' = [pool EXCEPT ![ch] = restConn[ch]] /\ UNCHANGED open
    /\ UNCHANGED <<regVars, closeVars, queue, destroy, closed, boundVars>>

\* The new subscription is published; cancelled meanwhile, it is closed again.
RestoreSubscribed(ch) ==
    /\ restore[ch] = "subscribing"
    /\ \/ /\ Destroyed
          /\ EndRestore(ch)
          /\ open' = open \ {restConn[ch]}
          /\ restConn' = [restConn EXCEPT ![ch] = None]
          /\ UNCHANGED pool
       \/ /\ ~Destroyed /\ cancelled[ch]
          /\ GoOn(ch, "reclosing")
          /\ UNCHANGED <<open, restConn, pool>>
       \/ /\ ~Destroyed /\ ~cancelled[ch]
          /\ EndRestore(ch)
          /\ pool' = [pool EXCEPT ![ch] = restConn[ch]]
          /\ restConn' = [restConn EXCEPT ![ch] = None]
          /\ UNCHANGED open
    /\ UNCHANGED <<regVars, closeVars, queue, destroy, closed, boundVars>>

\* The attempt fails; the next one follows after a delay.
RestoreFails(ch) ==
    /\ restore[ch] \in {"connecting", "subscribing"} /\ Fails
    /\ open' = open \ {restConn[ch]}
    /\ restConn' = [restConn EXCEPT ![ch] = None]
    /\ Onward(ch, "delay")
    /\ UNCHANGED <<pool, regVars, closeVars, queue, destroy, closed, messages>>

\* Mutant of DelayEnds: no more attempts once they were used up.
DelayNeverEnds(ch) ==
    /\ restore[ch] = "delay" /\ faults < MaxFaults
    /\ GoOn(ch, "attempt")
    /\ UNCHANGED <<open, pool, regVars, restConn, closeVars, queue, destroy, closed,
                   boundVars>>

DelayEnds(ch) ==
    /\ restore[ch] = "delay"
    /\ GoOn(ch, "attempt")
    /\ UNCHANGED <<open, pool, regVars, restConn, closeVars, queue, destroy, closed,
                   boundVars>>

-----------------------------------------------------------------------------
(* Shutdown.                                                               *)

Subscribing == {ch \in Channels : pool[ch] # None}

\* destroy(): the subscriptions of the pool are closed and active restores
\* cancelled; what is under way is waited for.
Destroy ==
    /\ destroy = "no"
    /\ destroy' = "first"
    /\ CloseSubscriptions(Subscribing) /\ CancelRetryDelay(Channels)
    /\ UNCHANGED <<open, regVars, restConn, handling, late, boundVars>>

\* The waits are over or timed out; what is in the pool now is closed too.
SecondPass ==
    /\ destroy = "first"
    /\ \A ch \in Channels : close[ch] = "none"
    /\ destroy' = "second"
    /\ CloseSubscriptions(Subscribing) /\ CancelRetryDelay(Subscribing)
    /\ UNCHANGED <<open, regVars, restConn, handling, late, boundVars>>

DestroyDone ==
    /\ destroy = "second"
    /\ \A ch \in Channels : close[ch] = "none"
    /\ destroy' = "done"
    /\ pool' = [ch \in Channels |-> None]
    /\ UNCHANGED <<open, regVars, restVars, cancelled, closeVars, queueVars, closed,
                   late, boundVars>>

-----------------------------------------------------------------------------

\* What the adapter and the database do by themselves.
ChannelStep(ch) ==
    \/ Drained(ch) \/ CloseDone(ch)
    \/ Process(ch) \/ CallbackDone(ch)
    \/ Attempt(ch) \/ RestoreClosed(ch) \/ RestoreConnected(ch)
    \/ RestoreSubscribed(ch) \/ DelayEnds(ch)

CallStep ==
    \/ Connected \/ Subscribed \/ RegistrationRejected
    \/ SecondPass \/ DestroyDone

Next ==
    \/ Listen \/ Unlisten \/ Destroy
    \/ ConnectFails \/ SubscribeFails
    \/ CallStep
    \/ \E ch \in Channels :
         \/ ChannelStep(ch)
         \/ Message(ch, "change") \/ Message(ch, "dereg")
         \/ CheckFails(ch) \/ RestoreFails(ch)
         \/ DrainTimesOut(ch)

Spec == Init /\ [][Next]_vars

(***************************************************************************)
(* Oracle answers and callbacks end.  No close may rely on its timeout.    *)
(***************************************************************************)
Fairness ==
    /\ WF_vars(CallStep)
    /\ \A ch \in Channels :
         /\ WF_vars(Drained(ch) \/ CloseDone(ch))
         /\ WF_vars(Process(ch) \/ CallbackDone(ch))
         /\ WF_vars(Attempt(ch) \/ RestoreClosed(ch) \/ RestoreConnected(ch)
                    \/ RestoreSubscribed(ch) \/ DelayEnds(ch))

FairSpec == Spec /\ Fairness

-----------------------------------------------------------------------------
(* Properties.                                                             *)

\* The places that a connection may be in.
Places == {pool[ch] : ch \in Channels} \cup {closeConn[ch] : ch \in Channels}
          \cup {restConn[ch] : ch \in Channels} \cup {regConn}

(***************************************************************************)
(* No dedicated connection is forgotten: whatever fails, times out or      *)
(* comes after destroy(), each one that is open is in the pool or in the   *)
(* hands of a registration, a restore or a close that will close it, and   *)
(* none is in the pool after destroy() (the catch blocks of subscribe and  *)
(* restoreSubscription).                                                   *)
(***************************************************************************)
NoConnectionForgotten ==
    /\ open = Places \ {None}
    /\ destroy = "done" => Subscribing = {}

(***************************************************************************)
(* A subscription that was closed does not come back, not even by a        *)
(* restore that was connecting meanwhile, and a listenNotify that rejects  *)
(* leaves none of its subscriptions behind ("prevents queued restore work  *)
(* from recreating a notification after manual unlisten").  Except for one *)
(* case: the cancelled restore ends while the close drains the queue,      *)
(* which resets the cancellation; another one begins then and is still     *)
(* under way when the close goes on.  Nothing cancels that one.            *)
(***************************************************************************)
ClosedIsFinal ==
    /\ \A ch \in closed \ late :
         /\ pool[ch] = None
         /\ restore[ch] # "none" => IsNotificationRestoreCancelled(ch)
    /\ reg = "failed" => Subscribing \subseteq late

(***************************************************************************)
(* A close ends, also while the queue that it drains holds a               *)
(* deregistration that is restoring the subscription, and it does so       *)
(* before the timeout that protects it from callbacks that hang.           *)
(***************************************************************************)
CloseEnds == \A ch \in Channels : close[ch] # "none" ~> close[ch] = "none"

(***************************************************************************)
(* A subscription whose restore has begun is live again in the end, or it  *)
(* was closed: the retries do not give up.                                 *)
(***************************************************************************)
SubscriptionRestored ==
    \A ch \in Channels :
        restore[ch] # "none" ~> (pool[ch] # None \/ ch \in closed \/ Destroyed)

-----------------------------------------------------------------------------
(* The contract of dedicated connections.                                  *)

(***************************************************************************)
(* The refinement mapping: a channel has the connection in the pool, or    *)
(* the one that a restore or the registration is subscribing, and every    *)
(* other open connection is about to be closed.                            *)
(***************************************************************************)
ChannelConn(ch) ==
    IF pool[ch] # None THEN pool[ch]
    ELSE IF restore[ch] = "subscribing" THEN restConn[ch]
    ELSE IF ch = regNext THEN regConn
    ELSE None

Contract == INSTANCE DedicatedConnections WITH
    conn      <- [ch \in Channels |-> ChannelConn(ch)],
    published <- Subscribing,
    leaving   <- open \ {ChannelConn(ch) : ch \in Channels},
    destroyed <- Destroyed

(***************************************************************************)
(* OracleNotify keeps what DatabaseNotify promises of dedicated            *)
(* connections: one is published once, on a channel that has none, and     *)
(* never after destroy() began; it is closed only after it left the pool.  *)
(***************************************************************************)
ImplementsContract == Contract!Spec

=============================================================================
