-------------------- MODULE PostgreNotificationQueue_proofs --------------------
(***************************************************************************)
(* The safety of the callback queue of one LISTEN channel, for every       *)
(* number of clients, queues and accepted events.                          *)
(***************************************************************************)
EXTENDS PostgreNotificationQueue, TLAPS

-----------------------------------------------------------------------------
(* The inductive invariant.                                                *)

\* What the two phases of a close know: the queue that is waited for only
\* during the first, the client to close only during the second, and new
\* events rejected during both.
CloseFacts ==
    /\ closing <=> closeState # "none"
    /\ closeState = "draining" <=> drained # None
    /\ closeState # "closing" => closeClient = None

\* The queue that the map knows while the channel accepts events is a chain
\* with a running callback, and its events are those of the current client.
ActiveFacts ==
    active # None /\ ~closing => Busy(active) /\ owner[active] = pool /\ pool # None

\* Every queue with events knows whose they are.
OwnerFacts == \A q \in Queues : Busy(q) => owner[q] # None

\* As long as no close stopped waiting, no old queue lives on beside the one
\* of the map, and that one is never left behind without its client: a close
\* that drains waits for the queue of the map.
WaitedFacts ==
    ~gaveUp =>
        /\ \A q \in Queues : Busy(q) => q = active /\ owner[q] = pool
        /\ active # None => Busy(active)
        /\ closeState = "draining" => active \in {drained, None}
        /\ closeState = "closing" => active = None

QueueInv == TypeOK /\ CloseFacts /\ ActiveFacts /\ OwnerFacts /\ WaitedFacts

-----------------------------------------------------------------------------

LEMMA InitQueue == Init => QueueInv
<1> SUFFICES ASSUME Init PROVE QueueInv
  OBVIOUS
<1>1. TypeOK
  <2>1. MaxQueue \in Nat /\ 0 \in 0..MaxQueue
    BY ConstantsAssumption
  <2> QED BY <2>1 DEF Init, TypeOK
<1>2. \A q \in Queues : ~Busy(q)
  BY DEF Init, Busy
<1> QED
  BY <1>1, <1>2 DEF Init, QueueInv, CloseFacts, ActiveFacts, OwnerFacts, WaitedFacts

LEMMA PublishStep ==
    ASSUME QueueInv, NEW k \in Clients, Publish(k)
    PROVE  QueueInv'
<1> USE DEF QueueInv, Publish
<1>1. TypeOK'
  BY DEF TypeOK
<1>2. \A q \in Queues : Busy(q)' <=> Busy(q)
  BY DEF Busy
<1>3. CloseFacts' /\ OwnerFacts'
  BY <1>2 DEF CloseFacts, OwnerFacts
<1>4. ActiveFacts' /\ WaitedFacts'
  \* Without a client the map knows no queue of an open channel, and without
  \* a timeout no callback runs.
  BY <1>2, ConstantsAssumption DEF ActiveFacts, OwnerFacts, WaitedFacts, TypeOK, Busy
<1> QED BY <1>1, <1>3, <1>4

\* An event is accepted only from the client in the pool: the other one whose
\* handlers are still there is being closed.
LEMMA NotificationStep ==
    ASSUME QueueInv, NEW k \in Clients, Notification(k)
    PROVE  QueueInv'
<1> USE DEF QueueInv
<1>1. closeState = "none" /\ k = pool /\ pool # None /\ ~closing
  BY DEF Notification, CloseFacts, TypeOK
<1>2. PICK q \in Queues :
         /\ IF active = None THEN ~Busy(q) ELSE q = active
         /\ size[q] < MaxQueue
         /\ owner' = [owner EXCEPT ![q] = k]
         /\ size' = [size EXCEPT ![q] = @ + 1]
         /\ active' = q
  BY DEF Notification
<1>3. UNCHANGED closeVars
  BY DEF Notification
<1>4. /\ owner'[q] = pool
      /\ size'[q] = size[q] + 1
      /\ \A p \in Queues \ {q} : owner'[p] = owner[p] /\ size'[p] = size[p]
  BY <1>1, <1>2 DEF TypeOK
<1>5. size[q] \in Nat /\ size[q] + 1 \in 0..MaxQueue
  BY <1>2, ConstantsAssumption DEF TypeOK
<1>6. Busy(q)' /\ \A p \in Queues \ {q} : Busy(p)' <=> Busy(p)
  BY <1>4, <1>5 DEF Busy
<1>7. TypeOK'
  <2>1. owner' \in [Queues -> Clients \cup {None}]
    BY <1>2 DEF TypeOK
  <2>2. size' \in [Queues -> 0..MaxQueue]
    BY <1>2, <1>5 DEF TypeOK
  <2> QED BY <1>2, <1>3, <2>1, <2>2 DEF TypeOK, closeVars
<1>8. CloseFacts'
  BY <1>3 DEF CloseFacts, closeVars
<1>9. ActiveFacts' /\ OwnerFacts'
  BY <1>1, <1>2, <1>3, <1>4, <1>6 DEF ActiveFacts, OwnerFacts, closeVars
<1>10. WaitedFacts'
  BY <1>1, <1>2, <1>3, <1>4, <1>6, ConstantsAssumption DEF WaitedFacts, closeVars
<1> QED BY <1>7, <1>8, <1>9, <1>10

\* Deleting the queue of the map is wrong for an old queue: without a timeout
\* there is none.
LEMMA CallbackDoneStep ==
    ASSUME QueueInv, NEW q \in Queues, CallbackDone(q)
    PROVE  QueueInv'
<1> USE DEF QueueInv
<1> DEFINE left == IF owner[q] = pool THEN size[q] - 1 ELSE 0
<1>1. /\ size' = [size EXCEPT ![q] = left]
      /\ owner' = [owner EXCEPT ![q] = IF left = 0 THEN None ELSE @]
      /\ active' = IF left = 0 THEN None ELSE active
      /\ UNCHANGED closeVars
      /\ Busy(q)
  BY DEF CallbackDone
<1>2. left \in 0..MaxQueue
  BY <1>1, ConstantsAssumption DEF TypeOK, Busy
<1>3. /\ size'[q] = left
      /\ owner'[q] = IF left = 0 THEN None ELSE owner[q]
      /\ \A p \in Queues \ {q} : owner'[p] = owner[p] /\ size'[p] = size[p]
  BY <1>1 DEF TypeOK
<1>4. left # 0 => owner[q] = pool
  OBVIOUS
<1> HIDE DEF left
<1>5. /\ Busy(q)' <=> left # 0
      /\ \A p \in Queues \ {q} : Busy(p)' <=> Busy(p)
  BY <1>2, <1>3, ConstantsAssumption DEF Busy
<1>6. TypeOK'
  <2>1. owner' \in [Queues -> Clients \cup {None}]
    BY <1>1 DEF TypeOK
  <2>2. size' \in [Queues -> 0..MaxQueue]
    BY <1>1, <1>2 DEF TypeOK
  <2> QED BY <1>1, <2>1, <2>2 DEF TypeOK, closeVars
<1>7. CloseFacts'
  BY <1>1 DEF CloseFacts, closeVars
<1>8. OwnerFacts'
  BY <1>1, <1>3, <1>5 DEF OwnerFacts
<1>9. ActiveFacts'
  BY <1>1, <1>3, <1>5 DEF ActiveFacts, TypeOK, closeVars
<1>10. WaitedFacts'
  BY <1>1, <1>3, <1>4, <1>5 DEF WaitedFacts, closeVars
<1> QED BY <1>6, <1>7, <1>8, <1>9, <1>10

LEMMA CloseStep == QueueInv /\ Close => QueueInv'
<1> SUFFICES ASSUME QueueInv, Close PROVE QueueInv'
  OBVIOUS
<1> USE DEF QueueInv, Close
<1>1. TypeOK'
  BY DEF TypeOK
<1>2. \A q \in Queues : Busy(q)' <=> Busy(q)
  BY DEF Busy
<1>3. CloseFacts' /\ ActiveFacts'
  BY ConstantsAssumption DEF CloseFacts, ActiveFacts, TypeOK
<1>4. OwnerFacts' /\ WaitedFacts'
  BY <1>2, ConstantsAssumption DEF OwnerFacts, WaitedFacts, TypeOK
<1> QED BY <1>1, <1>3, <1>4

LEMMA DrainEndsStep == QueueInv /\ DrainEnds => QueueInv'
<1> SUFFICES ASSUME QueueInv, DrainEnds PROVE QueueInv'
  OBVIOUS
<1> USE DEF QueueInv, DrainEnds
<1>1. TypeOK'
  BY DEF TypeOK
<1>2. \A q \in Queues : Busy(q)' <=> Busy(q)
  BY DEF Busy
<1>3. CloseFacts' /\ ActiveFacts' /\ OwnerFacts'
  BY <1>2 DEF CloseFacts, ActiveFacts, OwnerFacts
<1>4. WaitedFacts'
  <2>1. ~gaveUp' => ~gaveUp /\ ~Busy(drained)
    BY DEF TypeOK
  <2>2. ~gaveUp' => active = None
    BY <2>1 DEF WaitedFacts
  <2>3. ~gaveUp' => \A q \in Queues : ~Busy(q)'
    BY <1>2, <2>1, <2>2, ConstantsAssumption DEF WaitedFacts
  <2> QED BY <2>2, <2>3 DEF WaitedFacts
<1> QED BY <1>1, <1>3, <1>4

LEMMA CloseDoneStep == QueueInv /\ CloseDone => QueueInv'
<1> SUFFICES ASSUME QueueInv, CloseDone PROVE QueueInv'
  OBVIOUS
<1> USE DEF QueueInv, CloseDone
<1>1. TypeOK'
  BY DEF TypeOK
<1>2. \A q \in Queues : Busy(q)' <=> Busy(q)
  BY DEF Busy
<1>3. CloseFacts' /\ ActiveFacts' /\ OwnerFacts'
  BY <1>2 DEF CloseFacts, ActiveFacts, OwnerFacts
<1>4. WaitedFacts'
  BY <1>2 DEF WaitedFacts
<1> QED BY <1>1, <1>3, <1>4

LEMMA QueueStep == QueueInv /\ [Next]_vars => QueueInv'
<1> SUFFICES ASSUME QueueInv, [Next]_vars PROVE QueueInv'
  OBVIOUS
<1>1. CASE UNCHANGED vars
  BY <1>1 DEF QueueInv, TypeOK, CloseFacts, ActiveFacts, OwnerFacts, WaitedFacts,
              Busy, vars
<1>2. CASE Next
  BY <1>2, PublishStep, NotificationStep, CallbackDoneStep, CloseStep, DrainEndsStep,
     CloseDoneStep DEF Next
<1> QED BY <1>1, <1>2

(***************************************************************************)
(* The inductive invariant: new events are rejected exactly while a close  *)
(* is under way, the queue of the map belongs to the client of the pool    *)
(* while they are accepted, and as long as no close stopped waiting, no    *)
(* queue but that one has events.                                          *)
(***************************************************************************)
THEOREM QueueInvariant == Spec => []QueueInv
<1>1. Init => QueueInv
  BY InitQueue
<1>2. QueueInv /\ [Next]_vars => QueueInv'
  BY QueueStep
<1> QED BY <1>1, <1>2, PTL DEF Spec

-----------------------------------------------------------------------------

(***************************************************************************)
(* The bookkeeping of a channel stays well formed: in particular no queue  *)
(* ever holds more events than maxNotificationQueue, and none is counted   *)
(* below zero, although enqueueNotificationPayload and the finally of its  *)
(* promise chain change the count at different times.                      *)
(***************************************************************************)
THEOREM QueueTypeCorrect == Spec => []TypeOK
<1>1. QueueInv => TypeOK
  BY DEF QueueInv
<1> QED BY <1>1, QueueInvariant, PTL

(***************************************************************************)
(* The callbacks of the current listener are in one queue, so that they    *)
(* run one at a time and are bounded together, through any number of       *)
(* closes and new listeners, as long as no close stopped waiting for a     *)
(* callback (closeNotificationChannel and enqueueNotificationPayload).     *)
(***************************************************************************)
THEOREM CallbacksAreSerial == Spec => []SerialUntilTimeout
<1>1. QueueInv => SerialUntilTimeout
  BY DEF QueueInv, WaitedFacts, SerialUntilTimeout, SerialAndBounded, Current
<1> QED BY <1>1, QueueInvariant, PTL

(***************************************************************************)
(* The events of a listener that was closed are not processed: of an old   *)
(* queue, only the running callback may still end, with which the rest of  *)
(* it comes to nothing (the comparison of clients in processPayload).      *)
(***************************************************************************)
THEOREM ClosedListenerSilent == Spec => ClosedListenerIsSilent
<1> DEFINE Silent == \A q \in Queues :
                        Busy(q) /\ owner[q] # pool => size'[q] \in {size[q], 0}
<1>1. QueueInv /\ [Next]_vars => [Silent]_vars
  <2> SUFFICES ASSUME QueueInv, Next, NEW q \in Queues, Busy(q), owner[q] # pool
               PROVE  size'[q] \in {size[q], 0}
    BY DEF Silent
  <2>1. TypeOK /\ CloseFacts /\ ActiveFacts
    BY DEF QueueInv
  <2>2. ASSUME NEW k \in Clients, Notification(k) PROVE size'[q] = size[q]
    <3>1. k = pool /\ ~closing
      BY <2>1, <2>2 DEF Notification, CloseFacts, TypeOK
    <3>2. PICK p \in Queues : /\ IF active = None THEN ~Busy(p) ELSE p = active
                              /\ size' = [size EXCEPT ![p] = @ + 1]
      BY <2>2 DEF Notification
    <3>3. p # q
      BY <2>1, <3>1, <3>2 DEF ActiveFacts, TypeOK
    <3> QED BY <2>1, <3>2, <3>3 DEF TypeOK
  <2>3. ASSUME NEW p \in Queues, CallbackDone(p) PROVE size'[q] \in {size[q], 0}
    BY <2>1, <2>3 DEF CallbackDone, TypeOK
  <2>4. (\E k \in Clients : Publish(k)) \/ Close \/ DrainEnds \/ CloseDone
           => size' = size
    BY DEF Publish, Close, DrainEnds, CloseDone
  <2> QED BY <2>2, <2>3, <2>4 DEF Next
<1>2. Spec => [][Silent]_vars
  BY <1>1, QueueInvariant, PTL DEF Spec
<1> QED BY <1>2 DEF ClosedListenerIsSilent, Silent

(***************************************************************************)
(* A close takes the client out of the pool only after its accepted events *)
(* were processed, until one stops waiting for a callback: the drain of    *)
(* closeNotificationChannel waits for the right queue, and no event gets   *)
(* in after it began.                                                      *)
(***************************************************************************)
THEOREM AcceptedEventsDrained == Spec => DrainedBeforeClose
<1> DEFINE Drained == pool' # pool /\ pool # None /\ ~gaveUp'
                         => \A q \in Queues : ~Current(q)
<1>1. QueueInv /\ [Next]_vars => [Drained]_vars
  <2> SUFFICES ASSUME QueueInv, Next, pool' # pool, pool # None, ~gaveUp',
                      NEW q \in Queues
               PROVE  ~Busy(q)
    BY DEF Drained, Current
  <2>1. /\ \A k \in Clients : ~Publish(k) /\ ~Notification(k)
        /\ \A p \in Queues : ~CallbackDone(p)
    BY DEF Publish, Notification, CallbackDone, closeVars
  <2>4. ~CloseDone
    BY DEF CloseDone
  <2>2. CASE Close
    <3>1. ~gaveUp /\ active = None
      BY <2>2 DEF Close
    <3> QED BY <3>1, ConstantsAssumption DEF QueueInv, WaitedFacts
  <2>3. CASE DrainEnds
    <3>1. ~gaveUp /\ ~Busy(drained) /\ closeState = "draining"
      BY <2>3 DEF DrainEnds, QueueInv, TypeOK
    <3>2. active = None
      BY <3>1 DEF QueueInv, WaitedFacts
    <3> QED BY <3>1, <3>2, ConstantsAssumption DEF QueueInv, WaitedFacts
  <2> QED BY <2>1, <2>2, <2>3, <2>4 DEF Next
<1>2. Spec => [][Drained]_vars
  BY <1>1, QueueInvariant, PTL DEF Spec
<1> QED BY <1>2 DEF DrainedBeforeClose, Drained
=============================================================================
