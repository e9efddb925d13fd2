------------------------- MODULE PostgreNotify_proofs -------------------------
(***************************************************************************)
(* The safety of the life of one LISTEN channel, for every number of       *)
(* listenNotify and unlistenNotify calls, clients and faults.              *)
(***************************************************************************)
EXTENDS PostgreNotify, TLAPS

-----------------------------------------------------------------------------
(* The inductive invariant.                                                *)

Working == {"connecting", "listening", "closing"}

\* pendingRegistrationChannels lets one registration at a time past its guard,
\* and none while a client is published.
RegFacts ==
    /\ pendingReg <=> \E a \in Actors : reg[a] \in Working
    /\ \A a, b \in Actors : reg[a] \in Working /\ reg[b] \in Working => a = b
    /\ pool # 0 => ~pendingReg
    /\ \A a \in Actors : regClient[a] # 0 <=> reg[a] \in {"listening", "closing"}

\* The client of the channel, the one being closed and the one of the
\* registration are open, are different, and are all that are open.
ClientFacts ==
    /\ pool # 0 => Open(pool) /\ pool # closeClient
    /\ closeClient # 0 => Open(closeClient)
    /\ \A a \in Actors :
          regClient[a] # 0 => Open(regClient[a]) /\ regClient[a] \notin {pool, closeClient}
    /\ NoClientForgotten

\* What a close knows in its two phases.
CloseFacts ==
    /\ closeState # "closing" => closeClient = 0
    /\ closeState = "draining" => pool # 0

\* Who waits for a close.
WaiterFacts ==
    /\ closeState # "none" <=> closeWaiters # {}
    /\ "restore" \in closeWaiters <=> restore \in {"closing", "undoing"}
    /\ "destroy" \in closeWaiters => isDestroyed

\* The passes of destroy() leave a client in the pool only while they wait for
\* the close that takes it out.
DestroyFacts ==
    /\ isDestroyed <=> destroyStage # "none"
    /\ destroyStage = "first" /\ "destroy" \notin closeWaiters
          => pool = 0 \/ closeState # "closing"
    /\ destroyStage = "second"
          => pool = 0 \/ (closeState = "draining" /\ "destroy" \in closeWaiters)

\* A restore registers its client only after it closed what was left of the
\* channel, and a cancelled one does not wait for another attempt.
RestoreFacts ==
    /\ restore = "registering" <=> InFlight(Restorer)
    /\ restore = "registering" => pool = 0 /\ closeClient = 0
    /\ restore = "delay" => ~RestoreCancelled

ChannelInv ==
    /\ TypeOK /\ RegFacts /\ ClientFacts /\ CloseFacts /\ WaiterFacts
    /\ DestroyFacts /\ RestoreFacts

-----------------------------------------------------------------------------
\* A subscription that was ended and not asked for again.
UnlistenedFacts ==
    unlistened => subscribed = None /\ \A u \in Users : ~InFlight(u)

ListenedOnce == \A u, v \in Users : reg[u] # "idle" /\ reg[v] # "idle" => u = v

\* When listenNotify was called once, whatever is left of a client stems from
\* that call: no close overtakes a publication, and after unlistenNotify a
\* restore that is under way is a cancelled one.
ListenedOnceFacts ==
    ListenedOnce =>
        /\ pool # 0 \/ closeClient # 0 \/ restore # "none"
              => \E u \in Users : reg[u] = "done"
        /\ restore = "delay" => pool = 0
        /\ closeState = "closing" => pool = 0
        /\ unlistened => \/ pool = 0 /\ restore = "none"
                         \/ RestoreCancelled /\ (pool # 0 => closeState = "draining")

\* What an undisturbed application can rely on: its registration meets no
\* unlistenNotify, an ended subscription leaves no client but one that is
\* drained, and no restore but a cancelled one, and the restore of a
\* subscription has its callback.
UndisturbedFacts ==
    Undisturbed =>
        /\ \A u, v \in Users : InFlight(u) /\ InFlight(v) => u = v
        /\ \A u \in Users :
              InFlight(u) => subscribed = None /\ "unlisten" \notin closeWaiters
        /\ "unlisten" \in closeWaiters => subscribed = None
        /\ pool # 0 /\ subscribed = None => RestoreCancelled /\ closeState = "draining"
        /\ restore # "none" /\ subscribed = None => RestoreCancelled
        /\ restore # "none" /\ ~RestoreCancelled => restoreCb = subscribed
        /\ restore = "closing" /\ ~RestoreCancelled => pool = 0 \/ closeState = "draining"
        /\ restore = "delay" => pool = 0
        /\ CallbackIsLast

SubscriptionInv ==
    ChannelInv /\ UnlistenedFacts /\ ListenedOnceFacts /\ UndisturbedFacts

-----------------------------------------------------------------------------
(* Types.                                                                  *)

LEMMA UsersAreActors == \A u \in Users : u \in Actors /\ u # Restorer
BY ConstantsAssumption DEF Actors

LEMMA ZeroIsNoClient == \A k \in Clients : k # 0
BY ConstantsAssumption DEF Clients

LEMMA TypeInit == Init => TypeOK
<1> SUFFICES ASSUME Init PROVE TypeOK
  OBVIOUS
<1>1. reg \in [Actors -> RegStages] /\ regClient \in [Actors -> Clients \cup {0}]
  BY DEF Init, RegStages
<1>2. /\ client \in [Clients -> {"none", "live", "dead", "reported"}]
      /\ callback \in [Clients -> Users \cup {None}]
  BY DEF Init
<1>3. faults \in 0..MaxFaults /\ unlistens \in 0..MaxUnlistens
  BY ConstantsAssumption DEF Init
<1> QED BY <1>1, <1>2, <1>3 DEF Init, TypeOK, RestoreStages

CloseTypes ==
    /\ closeState \in {"none", "draining", "closing"}
    /\ closeClient \in Clients \cup {0}
    /\ closeWaiters \subseteq {"unlisten", "restore", "destroy"}
    /\ pool \in Clients \cup {0}

RestoreTypes ==
    /\ restore \in RestoreStages
    /\ restoreCb \in Users \cup {None}
    /\ cancelled \in BOOLEAN
    /\ checking \in BOOLEAN
    /\ probes \subseteq Clients
    /\ checkAwaits \in BOOLEAN

RegTypes ==
    /\ pendingReg \in BOOLEAN
    /\ reg \in [Actors -> RegStages]
    /\ regClient \in [Actors -> Clients \cup {0}]

ClientTypes ==
    /\ client \in [Clients -> {"none", "live", "dead", "reported"}]
    /\ callback \in [Clients -> Users \cup {None}]

OtherTypes ==
    /\ isDestroyed \in BOOLEAN
    /\ destroyStage \in {"none", "first", "second", "done"}
    /\ subscribed \in Users \cup {None}
    /\ unlistened \in BOOLEAN
    /\ overlapped \in BOOLEAN
    /\ missed \in BOOLEAN
    /\ faults \in 0..MaxFaults
    /\ unlistens \in 0..MaxUnlistens

LEMMA TypeParts ==
    TypeOK <=> CloseTypes /\ RestoreTypes /\ RegTypes /\ ClientTypes /\ OtherTypes
BY DEF TypeOK, CloseTypes, RestoreTypes, RegTypes, ClientTypes, OtherTypes

\* What the operators that the actions share do to the types.
LEMMA CloseChannelTypes ==
    ASSUME CloseTypes, NEW w \in {"unlisten", "restore", "destroy"}, CloseChannel(w)
    PROVE  CloseTypes'
BY DEF CloseTypes, CloseChannel

LEMMA EndRestoreTypes == RestoreTypes /\ EndRestore => RestoreTypes'
BY DEF RestoreTypes, EndRestore, RestoreStages

LEMMA AttemptFailsTypes == RestoreTypes /\ AttemptFails => RestoreTypes'
BY EndRestoreTypes DEF RestoreTypes, AttemptFails, RestoreStages, healthVars

LEMMA StartRestoreTypes ==
    ASSUME CloseTypes, RestoreTypes, NEW cb \in Users \cup {None}, StartRestore(cb)
    PROVE  CloseTypes' /\ restore' \in RestoreStages /\ restoreCb' \in Users \cup {None}
<1>1. CASE RestoreCancelled \/ restore # "none"
  BY <1>1 DEF StartRestore, CloseTypes, RestoreTypes, closeVars
<1>2. CASE ~(RestoreCancelled \/ restore # "none")
  BY <1>2, CloseChannelTypes DEF StartRestore, Attempt, RestoreStages
<1> QED BY <1>1, <1>2

LEMMA FaultTypes == ASSUME faults \in 0..MaxFaults, Fault PROVE faults' \in 0..MaxFaults
BY ConstantsAssumption DEF Fault

LEMMA RegistrationFailsTypes ==
    ASSUME TypeOK, NEW a \in Actors, RegistrationFails(a)
    PROVE  /\ reg' \in [Actors -> RegStages] /\ regClient' \in [Actors -> Clients \cup {0}]
           /\ RestoreTypes' /\ CloseTypes' /\ UNCHANGED <<callback, unlistens>>
           /\ UNCHANGED destroyVars /\ UNCHANGED historyVars
<1>1. RestoreTypes /\ CloseTypes /\ RegTypes
  BY TypeParts
<1>2. reg' \in [Actors -> RegStages] /\ regClient' \in [Actors -> Clients \cup {0}]
  BY <1>1 DEF RegTypes, RegistrationFails, RegStages
<1>3. RestoreTypes'
  <2>1. CASE a = Restorer
    BY <1>1, <2>1, AttemptFailsTypes DEF RegistrationFails
  <2>2. CASE a # Restorer
    BY <1>1, <2>2 DEF RegistrationFails, RestoreTypes, restoreVars, healthVars
  <2> QED BY <2>1, <2>2
<1>4. CloseTypes'
  BY <1>1 DEF RegistrationFails, CloseTypes, closeVars
<1> QED BY <1>2, <1>3, <1>4 DEF RegistrationFails

LEMMA TypeStep == TypeOK /\ [Next]_vars => TypeOK'
<1> SUFFICES ASSUME TypeOK, [Next]_vars PROVE TypeOK'
  OBVIOUS
<1>1. CloseTypes /\ RestoreTypes /\ RegTypes /\ ClientTypes /\ OtherTypes
  BY TypeParts
<1>a. CloseTypes' /\ RestoreTypes' /\ RegTypes' /\ ClientTypes' /\ OtherTypes' => TypeOK'
  BY DEF TypeOK, CloseTypes, RestoreTypes, RegTypes, ClientTypes, OtherTypes
<1>2. CASE UNCHANGED vars
  BY <1>2 DEF TypeOK, vars, clientVars, regVars, restoreVars, healthVars, closeVars,
              destroyVars, historyVars, boundVars
<1>3. CASE CloseDone
  <2>1. CloseTypes'
    BY <1>1, <1>3 DEF CloseTypes, CloseDone
  <2>2. RestoreTypes'
    <3>1. restore' \in RestoreStages /\ cancelled' \in BOOLEAN /\ checking' \in BOOLEAN
          /\ checkAwaits' \in BOOLEAN /\ probes' \subseteq Clients
      BY <1>1, <1>3 DEF RestoreTypes, CloseDone, RestoreStages
    <3>2. restoreCb' \in Users \cup {None}
      BY <1>1, <1>3 DEF RestoreTypes, CloseDone
    <3> QED BY <3>1, <3>2 DEF RestoreTypes
  <2>3. RegTypes'
    <3>1. reg' = reg \/ reg' = [reg EXCEPT ![Restorer] = "queued"]
      BY <1>3 DEF CloseDone
    <3> QED BY <1>1, <1>3, <3>1 DEF RegTypes, CloseDone, RegStages
  <2>4. ClientTypes'
    BY <1>1, <1>3 DEF ClientTypes, CloseDone
  <2>5. OtherTypes'
    BY <1>1, <1>3 DEF OtherTypes, CloseDone, destroyVars, historyVars, boundVars
  <2> QED BY <2>1, <2>2, <2>3, <2>4, <2>5, <1>a
<1>4. ASSUME NEW u \in Users, Listen(u) PROVE TypeOK'
  <2>1. RegTypes'
    BY <1>1, <1>4 DEF RegTypes, Listen, RegStages
  <2>2. OtherTypes'
    BY <1>1, <1>4 DEF OtherTypes, Listen, destroyVars, boundVars
  <2>3. CloseTypes' /\ RestoreTypes' /\ ClientTypes'
    BY <1>1, <1>4 DEF Listen, CloseTypes, RestoreTypes, ClientTypes, closeVars, restoreVars,
                      healthVars, clientVars
  <2> QED BY <2>1, <2>2, <2>3, <1>a
<1>5. ASSUME NEW a \in Actors, StartRegistration(a) PROVE TypeOK'
  <2>1. CASE isDestroyed \/ AlreadyRegistered
    <3>1. RegistrationFails(a) /\ UNCHANGED <<client, pendingReg, faults>>
      BY <1>5, <2>1 DEF StartRegistration
    <3>2. RegTypes' /\ RestoreTypes' /\ CloseTypes'
      BY <1>1, <3>1, RegistrationFailsTypes DEF RegTypes
    <3>3. ClientTypes' /\ OtherTypes'
      BY <1>1, <3>1, RegistrationFailsTypes
         DEF ClientTypes, OtherTypes, destroyVars, historyVars
    <3> QED BY <3>2, <3>3, <1>a
  <2>2. CASE ~(isDestroyed \/ AlreadyRegistered)
    <3>1. RegTypes'
      BY <1>1, <1>5, <2>2 DEF RegTypes, StartRegistration, RegStages
    <3>2. ClientTypes' /\ OtherTypes'
      BY <1>1, <1>5, <2>2 DEF ClientTypes, OtherTypes, StartRegistration, clientVars,
                              destroyVars, historyVars, boundVars
    <3>3. RestoreTypes' /\ CloseTypes'
      BY <1>1, <1>5, <2>2 DEF RestoreTypes, CloseTypes, StartRegistration, restoreVars,
                              healthVars, closeVars
    <3> QED BY <3>1, <3>2, <3>3, <1>a
  <2> QED BY <2>1, <2>2
<1>6. ASSUME NEW a \in Actors, Connected(a) PROVE TypeOK'
  <2>1. RegTypes'
    <3>1. reg' \in [Actors -> RegStages]
      BY <1>1, <1>6 DEF RegTypes, Connected, RegStages
    <3>2. regClient' \in [Actors -> Clients \cup {0}]
      BY <1>1, <1>6 DEF RegTypes, Connected
    <3> QED BY <1>1, <1>6, <3>1, <3>2 DEF RegTypes, Connected
  <2>2. ClientTypes'
    BY <1>1, <1>6 DEF ClientTypes, Connected
  <2>3. OtherTypes'
    BY <1>1, <1>6 DEF OtherTypes, Connected, destroyVars, historyVars, boundVars
  <2>4. RestoreTypes' /\ CloseTypes'
    BY <1>1, <1>6 DEF RestoreTypes, CloseTypes, Connected, restoreVars, healthVars, closeVars
  <2> QED BY <2>1, <2>2, <2>3, <2>4, <1>a
<1>7. ASSUME NEW a \in Actors, ConnectFails(a) PROVE TypeOK'
  <2>1. RegistrationFails(a) /\ pendingReg' = FALSE /\ client' = client /\ Fault
    BY <1>7 DEF ConnectFails
  <2>2. faults' \in 0..MaxFaults
    BY <1>1, <2>1, FaultTypes DEF OtherTypes
  <2>3. RegTypes' /\ RestoreTypes' /\ CloseTypes'
    BY <2>1, RegistrationFailsTypes DEF RegTypes
  <2>4. ClientTypes' /\ OtherTypes'
    BY <1>1, <2>1, <2>2, RegistrationFailsTypes
       DEF ClientTypes, OtherTypes, destroyVars, historyVars
  <2> QED BY <2>3, <2>4, <1>a
<1>8. ASSUME NEW a \in Actors, Listened(a) PROVE TypeOK'
  <2>1. UNCHANGED client /\ UNCHANGED destroyVars /\ UNCHANGED boundVars
    BY <1>8 DEF Listened
  <2>2. CASE isDestroyed
    <3>1. RegTypes'
      BY <1>1, <1>8, <2>2 DEF RegTypes, Listened, RegStages
    <3>2. ClientTypes' /\ OtherTypes'
      BY <1>1, <1>8, <2>2 DEF ClientTypes, OtherTypes, Listened, clientVars,
                              destroyVars, historyVars, boundVars
    <3>3. RestoreTypes' /\ CloseTypes'
      BY <1>1, <1>8, <2>2 DEF RestoreTypes, CloseTypes, Listened, restoreVars,
                              healthVars, closeVars
    <3> QED BY <3>1, <3>2, <3>3, <1>a
  <2>3. CASE ~isDestroyed
    <3>1. /\ reg' = [reg EXCEPT ![a] = IF a = Restorer THEN "idle" ELSE "done"]
          /\ regClient' = [regClient EXCEPT ![a] = 0]
          /\ pendingReg' = FALSE
          /\ callback' = [callback EXCEPT ![regClient[a]] =
                            IF a = Restorer THEN restoreCb ELSE a]
          /\ Published(a, regClient[a])
      BY <1>8, <2>3 DEF Listened
    <3>2. RegTypes'
      BY <1>1, <3>1 DEF RegTypes, RegStages
    <3>3. (IF a = Restorer THEN restoreCb ELSE a) \in Users \cup {None}
      BY <1>1 DEF RestoreTypes, Actors
    <3>4. ClientTypes'
      BY <1>1, <2>1, <3>1, <3>3 DEF ClientTypes
    <3>5. regClient[a] \in Clients \cup {0}
      BY <1>1 DEF RegTypes
    <3>6. CloseTypes'
      BY <1>1, <3>1, <3>5 DEF CloseTypes, Published
    <3>7. RestoreTypes'
      <4>1. CASE a = Restorer /\ ~cancelled
        BY <1>1, <3>1, <4>1, EndRestoreTypes DEF Published
      <4>2. CASE ~(a = Restorer /\ ~cancelled)
        BY <1>1, <3>1, <4>2 DEF RestoreTypes, Published, RestoreStages, healthVars
      <4> QED BY <4>1, <4>2
    <3>8. OtherTypes'
      <4>1. a # Restorer => a \in Users
        BY DEF Actors
      <4> QED BY <1>1, <2>1, <3>1, <4>1
              DEF OtherTypes, Published, destroyVars, boundVars, historyVars
    <3> QED BY <3>2, <3>4, <3>6, <3>7, <3>8, <1>a
  <2> QED BY <2>2, <2>3
<1>9. ASSUME NEW a \in Actors, ListenFails(a) PROVE TypeOK'
  <2>1. faults' \in 0..MaxFaults
    BY <1>1, <1>9, FaultTypes DEF ListenFails, OtherTypes
  <2>2. RegTypes'
    BY <1>1, <1>9 DEF RegTypes, ListenFails, RegStages
  <2>3. ClientTypes' /\ OtherTypes'
    BY <1>1, <1>9, <2>1 DEF ClientTypes, OtherTypes, ListenFails, clientVars, destroyVars,
                            historyVars
  <2>4. RestoreTypes' /\ CloseTypes'
    BY <1>1, <1>9 DEF RestoreTypes, CloseTypes, ListenFails, restoreVars, healthVars, closeVars
  <2> QED BY <2>2, <2>3, <2>4, <1>a
<1>10. ASSUME NEW a \in Actors, RegistrationClosed(a) PROVE TypeOK'
  <2>1. /\ RegistrationFails(a) /\ pendingReg' = FALSE /\ faults' = faults
        /\ client' = [client EXCEPT ![regClient[a]] = "none"]
    BY <1>10 DEF RegistrationClosed
  <2>2. RegTypes' /\ RestoreTypes' /\ CloseTypes'
    BY <2>1, RegistrationFailsTypes DEF RegTypes
  <2>3. ClientTypes' /\ OtherTypes'
    BY <1>1, <2>1, RegistrationFailsTypes
       DEF ClientTypes, OtherTypes, destroyVars, historyVars
  <2> QED BY <2>2, <2>3, <1>a
<1>11. ASSUME NEW k \in Clients, ClientStep(k) PROVE TypeOK'
  <2>1. faults' \in 0..MaxFaults
    BY <1>1, <1>11, FaultTypes
       DEF ClientStep, ClientDies, LossReported, ProbeSucceeds, ProbeFails, OtherTypes,
           boundVars
  <2>2. ClientTypes' /\ RegTypes'
    BY <1>1, <1>11
       DEF ClientStep, ClientDies, LossReported, ProbeSucceeds, ProbeFails, ClientTypes,
           RegTypes, clientVars, regVars
  <2>3. OtherTypes'
    BY <1>1, <1>11, <2>1
       DEF ClientStep, ClientDies, LossReported, ProbeSucceeds, ProbeFails, OtherTypes,
           destroyVars, historyVars, boundVars
  <2>4. \/ StartRestore(callback[k])
        \/ UNCHANGED <<restore, restoreCb>> /\ UNCHANGED closeVars
    BY <1>11 DEF ClientStep, ClientDies, LossReported, ProbeSucceeds, ProbeFails, restoreVars
  <2>5. callback[k] \in Users \cup {None}
    BY <1>1 DEF ClientTypes
  <2>6. CloseTypes' /\ restore' \in RestoreStages /\ restoreCb' \in Users \cup {None}
    <3>1. CASE StartRestore(callback[k])
      BY <1>1, <2>5, <3>1, StartRestoreTypes
    <3>2. CASE UNCHANGED <<restore, restoreCb>> /\ UNCHANGED closeVars
      BY <1>1, <3>2 DEF CloseTypes, RestoreTypes, closeVars
    <3> QED BY <2>4, <3>1, <3>2
  <2>7. /\ cancelled' \in BOOLEAN /\ checking' \in BOOLEAN /\ checkAwaits' \in BOOLEAN
        /\ probes' \subseteq Clients
    BY <1>1, <1>11 DEF ClientStep, ClientDies, LossReported, ProbeSucceeds, ProbeFails,
                       RestoreTypes, restoreVars, healthVars
  <2> QED BY <2>2, <2>3, <2>6, <2>7, <1>a DEF RestoreTypes
<1>12. CASE HealthCheckTick
  <2>1. RestoreTypes'
    BY <1>1, <1>12 DEF RestoreTypes, CloseTypes, HealthCheckTick, restoreVars
  <2> QED BY <1>1, <1>12, <2>1, <1>a
          DEF HealthCheckTick, CloseTypes, RegTypes, ClientTypes, OtherTypes, clientVars,
              regVars, closeVars, destroyVars, historyVars, boundVars
<1>13. CASE DrainEnds
  <2>1. CloseTypes'
    BY <1>1, <1>13 DEF CloseTypes, DrainEnds
  <2> QED BY <1>1, <1>13, <2>1, <1>a
          DEF DrainEnds, RestoreTypes, RegTypes, ClientTypes, OtherTypes, clientVars,
              regVars, restoreVars, healthVars, destroyVars, historyVars, boundVars
<1>14. CASE RetryDelayEnds
  <2>1. CloseTypes' /\ RestoreTypes'
    BY <1>1, <1>14, CloseChannelTypes
       DEF RetryDelayEnds, Attempt, RestoreTypes, RestoreStages, healthVars
  <2> QED BY <1>1, <1>14, <2>1, <1>a
          DEF RetryDelayEnds, RegTypes, ClientTypes, OtherTypes, clientVars, regVars,
              destroyVars, historyVars, boundVars
<1>15. CASE Unlisten
  <2>1. CloseTypes'
    BY <1>1, <1>15, CloseChannelTypes DEF Unlisten
  <2>2. RestoreTypes'
    <3>1. CancelRestore
      BY <1>15 DEF Unlisten
    <3> QED BY <1>1, <3>1, EndRestoreTypes DEF CancelRestore, RestoreTypes, healthVars
  <2>3. OtherTypes'
    <3>1. unlistens' \in 0..MaxUnlistens
      BY <1>1, <1>15, ConstantsAssumption DEF Unlisten, OtherTypes
    <3>2. unlistened' \in BOOLEAN /\ overlapped' \in BOOLEAN /\ missed' \in BOOLEAN
      BY <1>1, <1>15 DEF Unlisten, OtherTypes
    <3> QED BY <1>1, <1>15, <3>1, <3>2 DEF Unlisten, OtherTypes, destroyVars
  <2> QED BY <1>1, <1>15, <2>1, <2>2, <2>3, <1>a
          DEF Unlisten, RegTypes, ClientTypes, clientVars, regVars
<1>16. CASE Destroy
  <2>1. CloseTypes'
    BY <1>1, <1>16, CloseChannelTypes DEF Destroy, CloseTypes, closeVars
  <2>2. RestoreTypes'
    BY <1>1, <1>16 DEF Destroy, RestoreTypes, RestoreStages
  <2>3. OtherTypes'
    BY <1>1, <1>16 DEF Destroy, OtherTypes, historyVars, boundVars
  <2> QED BY <1>1, <1>16, <2>1, <2>2, <2>3, <1>a
          DEF Destroy, RegTypes, ClientTypes, clientVars, regVars
<1>17. CASE SecondPass
  <2>1. CloseTypes'
    BY <1>1, <1>17, CloseChannelTypes DEF SecondPass, CloseTypes, closeVars
  <2> QED BY <1>1, <1>17, <2>1, <1>a
          DEF SecondPass, RestoreTypes, RegTypes, ClientTypes, OtherTypes, clientVars,
              regVars, restoreVars, healthVars, historyVars, boundVars
<1>18. CASE DestroyDone
  <2>1. CloseTypes' /\ RestoreTypes'
    BY <1>1, <1>18 DEF DestroyDone, CloseTypes, RestoreTypes, restoreVars, closeVars, healthVars
  <2>2. RegTypes' /\ ClientTypes'
    BY <1>1, <1>18 DEF DestroyDone, RegTypes, ClientTypes, clientVars, regVars
  <2>3. OtherTypes'
    BY <1>1, <1>18 DEF DestroyDone, OtherTypes, historyVars, boundVars
  <2> QED BY <2>1, <2>2, <2>3, <1>a
<1> QED
  BY <1>2, <1>3, <1>4, <1>5, <1>6, <1>7, <1>8, <1>9, <1>10, <1>11, <1>12, <1>13, <1>14,
     <1>15, <1>16, <1>17, <1>18 DEF Next, RegistrationStep

-----------------------------------------------------------------------------
(* One lemma per kind of step.                                             *)

\* What a step may do to the client of the channel short of publishing one:
\* nothing, or begin a phase of a close.
CloseMove ==
    \/ pool' = pool /\ closeClient' = closeClient /\ closeState' = closeState
    \/ /\ pool # 0 /\ closeState = "none" /\ closeState' = "draining"
       /\ pool' = pool /\ closeClient' = closeClient
    \/ /\ closeState # "closing" /\ closeState' = "closing"
       /\ pool' = 0 /\ closeClient = 0 /\ closeClient' = pool

LEMMA CloseChannelMoves ==
    ASSUME CloseFacts, NEW w, CloseChannel(w)
    PROVE  CloseMove /\ closeWaiters' = closeWaiters \cup {w} /\ closeState' # "none"
BY DEF CloseFacts, CloseChannel, CloseMove

LEMMA CloseMoveClients ==
    ASSUME ChannelInv, CloseMove, UNCHANGED regVars,
           \A k \in Clients : Open(k)' <=> Open(k)
    PROVE  RegFacts' /\ ClientFacts' /\ CloseFacts'
<1>1. TypeOK /\ RegFacts /\ ClientFacts /\ CloseFacts
  BY DEF ChannelInv
<1>2. \A j : j \in Clients => j # 0
  BY ConstantsAssumption DEF Clients
<1>3. pool \in Clients \cup {0} /\ closeClient \in Clients \cup {0}
  BY <1>1 DEF TypeOK
<1>4. \A a \in Actors : regClient[a] \in Clients \cup {0}
  BY <1>1 DEF TypeOK
<1>5. RegFacts'
  BY <1>1 DEF RegFacts, CloseMove, regVars
<1>6. CloseFacts'
  BY <1>1 DEF CloseFacts, CloseMove
<1>7. CASE pool' = pool /\ closeClient' = closeClient
  BY <1>1, <1>2, <1>3, <1>4, <1>5, <1>6, <1>7
     DEF ClientFacts, NoClientForgotten, regVars, Open
<1>8. CASE pool' = 0 /\ closeClient = 0 /\ closeClient' = pool
  <2>1. /\ pool' # 0 => client'[pool'] # "none" /\ pool' # closeClient'
        /\ closeClient' # 0 => client'[closeClient'] # "none"
    BY <1>1, <1>3, <1>8 DEF ClientFacts, Open
  <2>2. \A a \in Actors :
           regClient'[a] # 0 =>
              client'[regClient'[a]] # "none" /\ regClient'[a] \notin {pool', closeClient'}
    BY <1>1, <1>4, <1>8 DEF ClientFacts, regVars, Open
  <2>3. NoClientForgotten'
    BY <1>1, <1>2, <1>8 DEF ClientFacts, NoClientForgotten, regVars
  <2> QED BY <1>5, <1>6, <2>1, <2>2, <2>3 DEF ClientFacts, Open
<1> QED BY <1>7, <1>8 DEF CloseMove

LEMMA CloseMoveDestroy ==
    ASSUME DestroyFacts, CloseMove, UNCHANGED destroyVars, closeWaiters \subseteq closeWaiters'
    PROVE  DestroyFacts'
BY DEF DestroyFacts, CloseMove, destroyVars

LEMMA CloseMoveRestore ==
    ASSUME RestoreFacts, CloseMove, UNCHANGED regVars,
           restore' = "registering" <=> restore = "registering",
           restore' = "delay" => ~RestoreCancelled'
    PROVE  RestoreFacts'
BY DEF RestoreFacts, CloseMove, regVars, InFlight

\* The steps that leave registrations alone.
LEMMA CloseMoveStep ==
    ASSUME ChannelInv, TypeOK', CloseMove, UNCHANGED regVars,
           \A k \in Clients : Open(k)' <=> Open(k),
           WaiterFacts', DestroyFacts',
           restore' = "registering" <=> restore = "registering",
           restore' = "delay" => ~RestoreCancelled'
    PROVE  ChannelInv'
BY CloseMoveClients, CloseMoveRestore DEF ChannelInv

\* A step of one registration, or of a listenNotify call before it.
LEMMA RegMove ==
    ASSUME RegFacts, NEW a \in Actors,
           \A b \in Actors \ {a} : reg'[b] = reg[b] /\ regClient'[b] = regClient[b],
           regClient'[a] # 0 <=> reg'[a] \in {"listening", "closing"},
           pool' # 0 => ~pendingReg',
           \/ (reg'[a] \in Working <=> reg[a] \in Working) /\ pendingReg' = pendingReg
           \/ ~pendingReg /\ pendingReg' /\ reg'[a] \in Working
           \/ ~pendingReg' /\ reg[a] \in Working /\ reg'[a] \notin Working
    PROVE  RegFacts'
<1>1. \A b, c \in Actors : reg'[b] \in Working /\ reg'[c] \in Working => b = c
  BY DEF RegFacts
<1>2. pendingReg' <=> \E b \in Actors : reg'[b] \in Working
  BY DEF RegFacts
<1>3. \A b \in Actors : regClient'[b] # 0 <=> reg'[b] \in {"listening", "closing"}
  BY DEF RegFacts
<1> QED BY <1>1, <1>2, <1>3 DEF RegFacts

\* A step of a registration that keeps every client where it is.
LEMMA RegKeepsClients ==
    ASSUME ClientFacts, TypeOK, \A k \in Clients : Open(k)' <=> Open(k),
           pool' = pool, closeClient' = closeClient,
           \A a \in Actors : regClient'[a] = regClient[a]
    PROVE  ClientFacts'
<1>1. \A k \in Clients : k # 0
  BY ConstantsAssumption DEF Clients
<1>2. /\ pool \in Clients \cup {0} /\ closeClient \in Clients \cup {0}
      /\ \A a \in Actors : regClient[a] \in Clients \cup {0}
  BY DEF TypeOK
<1> QED BY <1>1, <1>2 DEF ClientFacts, NoClientForgotten, Open

\* The end of a failed attempt leaves the restore without a registration.
LEMMA RegistrationFailsMoves ==
    ASSUME TypeOK, NEW a \in Actors, RegistrationFails(a)
    PROVE  /\ reg'[a] = IF a = Restorer THEN "idle" ELSE "failed"
           /\ regClient'[a] = 0
           /\ \A b \in Actors \ {a} : reg'[b] = reg[b] /\ regClient'[b] = regClient[b]
           /\ UNCHANGED closeVars /\ UNCHANGED destroyVars
           /\ UNCHANGED historyVars /\ UNCHANGED callback
           /\ a # Restorer => UNCHANGED restoreVars
           /\ restore' # "none" => restoreCb' = restoreCb
           /\ a = Restorer =>
                \/ restore' = "none" /\ RestoreCancelled
                \/ restore' = "delay" /\ ~RestoreCancelled /\ cancelled' = cancelled
<1>1. a = Restorer =>
        \/ restore' = "none" /\ RestoreCancelled
        \/ restore' = "delay" /\ ~RestoreCancelled /\ cancelled' = cancelled
  BY DEF RegistrationFails, AttemptFails, EndRestore
<1>2. /\ reg'[a] = IF a = Restorer THEN "idle" ELSE "failed"
      /\ regClient'[a] = 0
      /\ \A b \in Actors \ {a} : reg'[b] = reg[b] /\ regClient'[b] = regClient[b]
  BY DEF RegistrationFails, TypeOK
<1>3. restore' # "none" => restoreCb' = restoreCb
  BY DEF RegistrationFails, AttemptFails, EndRestore, restoreVars
<1> QED BY <1>1, <1>2, <1>3 DEF RegistrationFails

\* What remains of the channel when a registration fails.
LEMMA RegistrationFailsFacts ==
    ASSUME ChannelInv, NEW a \in Actors, InFlight(a), RegistrationFails(a)
    PROVE  CloseFacts' /\ WaiterFacts' /\ DestroyFacts' /\ RestoreFacts'
<1>1. TypeOK /\ CloseFacts /\ WaiterFacts /\ DestroyFacts /\ RestoreFacts
  BY DEF ChannelInv
<1>2. CloseFacts' /\ DestroyFacts'
  BY <1>1, RegistrationFailsMoves DEF CloseFacts, DestroyFacts, closeVars, destroyVars
<1>3. a = Restorer => restore = "registering"
  BY <1>1 DEF RestoreFacts
<1>4. WaiterFacts'
  BY <1>1, <1>3, RegistrationFailsMoves DEF WaiterFacts, closeVars, destroyVars, restoreVars
<1>5. RestoreFacts'
  <2>1. CASE a = Restorer
    BY <1>1, <2>1, RegistrationFailsMoves
       DEF RestoreFacts, InFlight, RestoreCancelled, destroyVars
  <2>2. CASE a # Restorer
    <3>1. InFlight(Restorer)' <=> InFlight(Restorer)
      BY <1>1, <2>2, RegistrationFailsMoves DEF InFlight, Actors
    <3> QED BY <1>1, <2>2, <3>1, RegistrationFailsMoves
            DEF RestoreFacts, RestoreCancelled, closeVars, destroyVars, restoreVars
  <2> QED BY <2>1, <2>2
<1> QED BY <1>2, <1>4, <1>5

-----------------------------------------------------------------------------
(* Every step keeps the invariant of the channel.                          *)

LEMMA InitChannel == Init => ChannelInv
<1> SUFFICES ASSUME Init PROVE ChannelInv
  OBVIOUS
<1>1. TypeOK
  BY TypeInit
<1>2. Restorer \in Actors /\ \A a \in Actors : reg[a] = "idle" /\ regClient[a] = 0
  BY DEF Init, Actors
<1>3. RegFacts
  BY <1>2 DEF Init, RegFacts, Working
<1>4. ClientFacts
  BY <1>2 DEF Init, ClientFacts, NoClientForgotten, Open
<1>5. CloseFacts /\ WaiterFacts /\ DestroyFacts
  BY DEF Init, CloseFacts, WaiterFacts, DestroyFacts
<1>6. RestoreFacts
  BY <1>2 DEF Init, RestoreFacts, InFlight
<1> QED BY <1>1, <1>3, <1>4, <1>5, <1>6 DEF ChannelInv

LEMMA ListenChannel ==
    ASSUME ChannelInv, TypeOK', NEW u \in Users, Listen(u)
    PROVE  ChannelInv'
<1>1. TypeOK /\ RegFacts /\ ClientFacts /\ CloseFacts /\ WaiterFacts /\ DestroyFacts
      /\ RestoreFacts
  BY DEF ChannelInv
<1>2. u \in Actors /\ u # Restorer /\ Restorer \in Actors
  BY UsersAreActors DEF Actors
<1>3. /\ reg[u] = "idle" /\ reg'[u] \in {"failed", "queued"}
      /\ \A b \in Actors \ {u} : reg'[b] = reg[b]
  BY <1>1, <1>2 DEF Listen, TypeOK
<1>4. /\ UNCHANGED <<pendingReg, regClient>> /\ UNCHANGED clientVars /\ UNCHANGED restoreVars
      /\ UNCHANGED closeVars /\ UNCHANGED destroyVars
  BY DEF Listen
<1>5. RegFacts'
  <2>1. regClient[u] = 0
    BY <1>1, <1>2, <1>3 DEF RegFacts
  <2>2. (reg'[u] \in Working <=> reg[u] \in Working) /\ pendingReg' = pendingReg
    BY <1>3, <1>4 DEF Working
  <2>3. /\ regClient'[u] # 0 <=> reg'[u] \in {"listening", "closing"}
        /\ pool' # 0 => ~pendingReg'
    BY <1>1, <1>3, <1>4, <2>1 DEF RegFacts, closeVars
  <2>4. \A b \in Actors \ {u} : reg'[b] = reg[b] /\ regClient'[b] = regClient[b]
    BY <1>3, <1>4
  <2> QED BY <1>1, <1>2, <2>2, <2>3, <2>4, RegMove
<1>6. ClientFacts'
  <2>1. /\ \A k \in Clients : Open(k)' <=> Open(k)
        /\ pool' = pool /\ closeClient' = closeClient
        /\ \A a \in Actors : regClient'[a] = regClient[a]
    BY <1>4 DEF clientVars, closeVars, Open
  <2> QED BY <1>1, <2>1, RegKeepsClients
<1>7. CloseFacts' /\ WaiterFacts' /\ DestroyFacts'
  BY <1>1, <1>4 DEF CloseFacts, WaiterFacts, DestroyFacts, closeVars, restoreVars, destroyVars
<1>8. RestoreFacts'
  <2>1. InFlight(Restorer)' <=> InFlight(Restorer)
    BY <1>2, <1>3 DEF InFlight
  <2> QED BY <1>1, <1>4, <2>1
          DEF RestoreFacts, RestoreCancelled, closeVars, restoreVars, destroyVars
<1> QED BY <1>5, <1>6, <1>7, <1>8 DEF ChannelInv

\* A registration that moves on and leaves everything but the clients alone.
LEMMA RegistrationMovesOn ==
    ASSUME ChannelInv, TypeOK', NEW a \in Actors, InFlight(a),
           reg'[a] \in Working, \A b \in Actors \ {a} : reg'[b] = reg[b],
           UNCHANGED restoreVars, UNCHANGED closeVars, UNCHANGED destroyVars,
           RegFacts', ClientFacts'
    PROVE  ChannelInv'
<1>1. CloseFacts /\ WaiterFacts /\ DestroyFacts /\ RestoreFacts
  BY DEF ChannelInv
<1>2. CloseFacts' /\ WaiterFacts' /\ DestroyFacts'
  BY <1>1 DEF CloseFacts, WaiterFacts, DestroyFacts, closeVars, restoreVars, destroyVars
<1>3. InFlight(Restorer)' <=> InFlight(Restorer)
  BY DEF InFlight, Working, Actors
<1>4. RestoreFacts'
  BY <1>1, <1>3 DEF RestoreFacts, RestoreCancelled, closeVars, restoreVars, destroyVars
<1> QED BY <1>2, <1>4 DEF ChannelInv

LEMMA StartRegistrationChannel ==
    ASSUME ChannelInv, TypeOK', NEW a \in Actors, StartRegistration(a)
    PROVE  ChannelInv'
<1>1. TypeOK /\ RegFacts /\ ClientFacts
  BY DEF ChannelInv
<1>2. reg[a] = "queued" /\ regClient[a] = 0 /\ InFlight(a)
  BY <1>1 DEF StartRegistration, RegFacts, InFlight
<1>3. CASE isDestroyed \/ AlreadyRegistered
  <2>1. RegistrationFails(a) /\ UNCHANGED <<client, pendingReg>>
    BY <1>3 DEF StartRegistration
  <2>2. /\ reg'[a] \in {"idle", "failed"} /\ regClient'[a] = 0
        /\ \A b \in Actors \ {a} : reg'[b] = reg[b] /\ regClient'[b] = regClient[b]
        /\ pool' = pool /\ closeClient' = closeClient
    BY <1>1, <2>1, RegistrationFailsMoves DEF closeVars
  <2>3. RegFacts'
    <3>1. /\ reg'[a] \in Working <=> reg[a] \in Working
          /\ pool' # 0 => ~pendingReg'
      BY <1>1, <1>2, <2>1, <2>2 DEF RegFacts, Working
    <3> QED BY <1>1, <2>1, <2>2, <3>1, RegMove
  <2>4. ClientFacts'
    <3>1. \A b \in Actors : regClient'[b] = regClient[b]
      BY <1>2, <2>2
    <3>2. \A k \in Clients : Open(k)' <=> Open(k)
      BY <2>1 DEF Open
    <3> QED BY <1>1, <2>2, <3>1, <3>2, RegKeepsClients
  <2> QED BY <1>2, <2>1, <2>3, <2>4, RegistrationFailsFacts DEF ChannelInv
<1>4. CASE ~(isDestroyed \/ AlreadyRegistered)
  <2>1. /\ pendingReg' = TRUE /\ pendingReg = FALSE /\ pool = 0
        /\ reg'[a] = "connecting" /\ \A b \in Actors \ {a} : reg'[b] = reg[b]
        /\ UNCHANGED regClient /\ UNCHANGED clientVars /\ UNCHANGED restoreVars
        /\ UNCHANGED closeVars /\ UNCHANGED destroyVars
    BY <1>1, <1>4 DEF StartRegistration, AlreadyRegistered, TypeOK
  <2>2. RegFacts'
    <3>1. /\ pool' # 0 => ~pendingReg'
          /\ regClient'[a] # 0 <=> reg'[a] \in {"listening", "closing"}
          /\ reg'[a] \in Working
          /\ \A b \in Actors \ {a} : reg'[b] = reg[b] /\ regClient'[b] = regClient[b]
      BY <1>2, <2>1 DEF closeVars, Working
    <3> QED BY <1>1, <2>1, <3>1, RegMove
  <2>3. ClientFacts'
    <3>1. /\ \A k \in Clients : Open(k)' <=> Open(k)
          /\ pool' = pool /\ closeClient' = closeClient
          /\ \A b \in Actors : regClient'[b] = regClient[b]
      BY <2>1 DEF clientVars, closeVars, Open
    <3> QED BY <1>1, <3>1, RegKeepsClients
  <2> QED BY <1>2, <2>1, <2>2, <2>3, RegistrationMovesOn DEF Working
<1> QED BY <1>3, <1>4

LEMMA ConnectedChannel ==
    ASSUME ChannelInv, TypeOK', NEW a \in Actors, Connected(a)
    PROVE  ChannelInv'
<1>1. TypeOK /\ RegFacts /\ ClientFacts
  BY DEF ChannelInv
<1>2. PICK k \in Clients : /\ client[k] = "none"
                           /\ client' = [client EXCEPT ![k] = "live"]
                           /\ regClient' = [regClient EXCEPT ![a] = k]
  BY DEF Connected
<1>3. /\ reg[a] = "connecting" /\ regClient[a] = 0 /\ InFlight(a)
      /\ reg'[a] \in {"closing", "listening"}
      /\ \A b \in Actors \ {a} : reg'[b] = reg[b] /\ regClient'[b] = regClient[b]
      /\ regClient'[a] = k /\ k # 0
      /\ pendingReg' = pendingReg /\ UNCHANGED restoreVars
      /\ UNCHANGED closeVars /\ UNCHANGED destroyVars
  BY <1>1, <1>2, ZeroIsNoClient DEF Connected, RegFacts, InFlight, TypeOK
<1>4. client'[k] = "live" /\ \A j \in Clients \ {k} : client'[j] = client[j]
  BY <1>1, <1>2 DEF TypeOK
<1>5. RegFacts'
  <2>1. /\ reg'[a] \in Working <=> reg[a] \in Working
        /\ pool' # 0 => ~pendingReg'
        /\ regClient'[a] # 0 <=> reg'[a] \in {"listening", "closing"}
    BY <1>1, <1>3 DEF RegFacts, Working, closeVars
  <2> QED BY <1>1, <1>3, <2>1, RegMove
<1>6. ClientFacts'
  <2>1. pool \in Clients \cup {0} /\ closeClient \in Clients \cup {0}
        /\ \A b \in Actors : regClient[b] \in Clients \cup {0}
    BY <1>1 DEF TypeOK
  <2>2. pool # k /\ closeClient # k /\ \A b \in Actors : regClient[b] # k
    BY <1>1, <1>2, <1>3 DEF ClientFacts, Open
  <2>3. /\ pool' # 0 => client'[pool'] # "none" /\ pool' # closeClient'
        /\ closeClient' # 0 => client'[closeClient'] # "none"
    BY <1>1, <1>3, <1>4, <2>1, <2>2 DEF ClientFacts, Open, closeVars
  <2>4. \A b \in Actors :
          regClient'[b] # 0 =>
            client'[regClient'[b]] # "none" /\ regClient'[b] \notin {pool', closeClient'}
    BY <1>1, <1>3, <1>4, <2>1, <2>2 DEF ClientFacts, Open, closeVars
  <2>5. NoClientForgotten'
    <3> SUFFICES ASSUME NEW j \in Clients, client'[j] # "none"
                 PROVE  j = pool' \/ j = closeClient' \/ \E b \in Actors : regClient'[b] = j
      BY DEF NoClientForgotten, Open
    <3>1. CASE j = k
      BY <1>3, <3>1
    <3>2. CASE j # k
      <4>1. j = pool \/ j = closeClient \/ \E b \in Actors : regClient[b] = j
        BY <1>1, <1>4, <3>2 DEF ClientFacts, NoClientForgotten, Open
      <4>2. \A b \in Actors : regClient[b] = j => regClient'[b] = j
        BY <1>3, ZeroIsNoClient
      <4> QED BY <1>3, <4>1, <4>2 DEF closeVars
    <3> QED BY <3>1, <3>2
  <2> QED BY <2>3, <2>4, <2>5 DEF ClientFacts, Open
<1> QED BY <1>3, <1>5, <1>6, RegistrationMovesOn DEF Working

\* The end of a registration whose client, if it has one, is closed.
LEMMA RegistrationEndsChannel ==
    ASSUME ChannelInv, TypeOK', NEW a \in Actors, reg[a] \in Working, RegistrationFails(a),
           pendingReg' = FALSE,
           \A k \in Clients :
              IF k = regClient[a] THEN ~Open(k)' ELSE Open(k)' <=> Open(k)
    PROVE  ChannelInv'
<1>1. TypeOK /\ RegFacts /\ ClientFacts
  BY DEF ChannelInv
<1>2. /\ reg'[a] \in {"idle", "failed"} /\ regClient'[a] = 0
      /\ \A b \in Actors \ {a} : reg'[b] = reg[b] /\ regClient'[b] = regClient[b]
      /\ pool' = pool /\ closeClient' = closeClient
  BY <1>1, RegistrationFailsMoves DEF closeVars
<1>3. pool = 0 /\ \A b \in Actors \ {a} : regClient[b] = 0
  BY <1>1 DEF RegFacts, Working
<1>4. RegFacts'
  <2>1. /\ reg'[a] \notin Working
        /\ regClient'[a] # 0 <=> reg'[a] \in {"listening", "closing"}
    BY <1>2 DEF Working
  <2> QED BY <1>1, <1>2, <2>1, RegMove
<1>5. ClientFacts'
  <2>1. closeClient \in Clients \cup {0}
    BY <1>1 DEF TypeOK
  <2>2. closeClient # 0 => Open(closeClient) /\ closeClient # regClient[a]
    BY <1>1 DEF ClientFacts
  <2>3. closeClient' # 0 => client'[closeClient'] # "none"
    BY <1>2, <2>1, <2>2 DEF Open
  <2>4. \A b \in Actors : regClient'[b] = 0
    BY <1>2, <1>3
  <2>5. NoClientForgotten'
    <3> SUFFICES ASSUME NEW j \in Clients, client'[j] # "none"
                 PROVE  j = closeClient'
      BY DEF NoClientForgotten, Open
    <3>1. j # regClient[a] /\ client[j] # "none"
      BY DEF Open
    <3>2. j = pool \/ j = closeClient \/ \E b \in Actors : regClient[b] = j
      BY <1>1, <3>1 DEF ClientFacts, NoClientForgotten, Open
    <3> QED BY <1>2, <1>3, <3>1, <3>2, ZeroIsNoClient
  <2> QED BY <1>2, <1>3, <2>3, <2>4, <2>5 DEF ClientFacts, Open
<1>6. InFlight(a)
  BY DEF InFlight, Working
<1> QED BY <1>4, <1>5, <1>6, RegistrationFailsFacts DEF ChannelInv

LEMMA ConnectFailsChannel ==
    ASSUME ChannelInv, TypeOK', NEW a \in Actors, ConnectFails(a)
    PROVE  ChannelInv'
<1>1. reg[a] \in Working /\ regClient[a] = 0
  BY DEF ChannelInv, RegFacts, ConnectFails, Working
<1>2. RegistrationFails(a) /\ pendingReg' = FALSE /\ client' = client
  BY DEF ConnectFails
<1>3. \A k \in Clients : k # regClient[a] /\ (Open(k)' <=> Open(k))
  BY <1>1, <1>2, ZeroIsNoClient DEF Open
<1> QED BY <1>1, <1>2, <1>3, RegistrationEndsChannel

LEMMA RegistrationClosedChannel ==
    ASSUME ChannelInv, TypeOK', NEW a \in Actors, RegistrationClosed(a)
    PROVE  ChannelInv'
<1>1. reg[a] \in Working
  BY DEF RegistrationClosed, Working
<1>2. /\ RegistrationFails(a) /\ pendingReg' = FALSE
      /\ client' = [client EXCEPT ![regClient[a]] = "none"]
  BY DEF RegistrationClosed
<1>3. \A k \in Clients : IF k = regClient[a] THEN ~Open(k)' ELSE Open(k)' <=> Open(k)
  <2>1. client \in [Clients -> {"none", "live", "dead", "reported"}]
    BY DEF ChannelInv, TypeOK
  <2> QED BY <1>2, <2>1 DEF Open
<1> QED BY <1>1, <1>2, <1>3, RegistrationEndsChannel

\* LISTEN that is rejected, or answered after destroy() began.
LEMMA ListenFailsChannel ==
    ASSUME ChannelInv, TypeOK', NEW a \in Actors, reg[a] = "listening",
           reg' = [reg EXCEPT ![a] = "closing"],
           UNCHANGED <<pendingReg, regClient>>, UNCHANGED clientVars,
           UNCHANGED restoreVars, UNCHANGED closeVars, UNCHANGED destroyVars
    PROVE  ChannelInv'
<1>1. TypeOK /\ RegFacts /\ ClientFacts
  BY DEF ChannelInv
<1>2. /\ reg'[a] = "closing" /\ \A b \in Actors \ {a} : reg'[b] = reg[b]
      /\ InFlight(a) /\ reg'[a] \in Working /\ reg[a] \in Working
  BY <1>1 DEF TypeOK, InFlight, Working
<1>3. RegFacts'
  <2>1. /\ regClient'[a] # 0 <=> reg'[a] \in {"listening", "closing"}
        /\ pool' # 0 => ~pendingReg'
        /\ \A b \in Actors \ {a} : reg'[b] = reg[b] /\ regClient'[b] = regClient[b]
    BY <1>1, <1>2 DEF RegFacts, closeVars
  <2> QED BY <1>1, <1>2, <2>1, RegMove
<1>4. ClientFacts'
  <2>1. /\ \A k \in Clients : Open(k)' <=> Open(k)
        /\ pool' = pool /\ closeClient' = closeClient
        /\ \A b \in Actors : regClient'[b] = regClient[b]
    BY DEF clientVars, closeVars, Open
  <2> QED BY <1>1, <2>1, RegKeepsClients
<1> QED BY <1>2, <1>3, <1>4, RegistrationMovesOn

\* While the restore registers its client nothing is being closed.
LEMMA NoCloseBesidesRestorer ==
    ASSUME ChannelInv, Quiet, restore = "registering"
    PROVE  closeState = "none"
BY DEF ChannelInv, TypeOK, RestoreFacts, CloseFacts, Quiet, CloseIsImmediate

\* A publication, by whose registration it is.
LEMMA ListenedMoves ==
    ASSUME ChannelInv, Quiet, NEW a \in Actors, Listened(a), ~isDestroyed
    PROVE  /\ reg[a] = "listening" /\ regClient[a] # 0 /\ regClient[a] \in Clients
           /\ pendingReg /\ pool = 0 /\ ~pendingReg'
           /\ reg'[a] = IF a = Restorer THEN "idle" ELSE "done"
           /\ \A b \in Actors \ {a} : reg'[b] = reg[b] /\ regClient'[b] = regClient[b]
           /\ \A b \in Actors : regClient'[b] = 0
           /\ client' = client /\ UNCHANGED destroyVars /\ ~isDestroyed'
           /\ callback'[regClient[a]] = IF a = Restorer THEN restoreCb ELSE a
           /\ \/ /\ a = Restorer /\ cancelled /\ restore = "registering"
                 /\ restore' = "undoing" /\ cancelled' /\ restoreCb' = restoreCb
                 /\ closeState = "none" /\ closeClient = 0
                 /\ closeState' = "closing" /\ closeClient' = regClient[a] /\ pool' = 0
                 /\ closeWaiters' = closeWaiters \cup {"restore"}
                 /\ UNCHANGED historyVars
              \/ /\ a = Restorer /\ ~cancelled /\ restore = "registering"
                 /\ restore' = "none" /\ ~cancelled' /\ pool' = regClient[a]
                 /\ UNCHANGED <<closeState, closeClient, closeWaiters>>
                 /\ UNCHANGED historyVars
              \/ /\ a \in Users /\ a # Restorer /\ pool' = regClient[a]
                 /\ restore' = restore /\ restoreCb' = restoreCb
                 /\ cancelled' = (cancelled /\ restore # "none")
                 /\ UNCHANGED <<closeState, closeClient, closeWaiters>>
                 /\ subscribed' = a /\ UNCHANGED <<unlistened, overlapped, missed>>
<1>1. TypeOK /\ RegFacts /\ RestoreFacts
  BY DEF ChannelInv
<1>2. reg[a] = "listening" /\ InFlight(a) /\ reg[a] \in Working
  BY DEF Listened, InFlight, Working
<1>3. /\ reg' = [reg EXCEPT ![a] = IF a = Restorer THEN "idle" ELSE "done"]
      /\ regClient' = [regClient EXCEPT ![a] = 0]
      /\ pendingReg' = FALSE /\ client' = client /\ UNCHANGED destroyVars
      /\ callback' = [callback EXCEPT ![regClient[a]] = IF a = Restorer THEN restoreCb ELSE a]
      /\ Published(a, regClient[a])
  BY DEF Listened
<1>4. regClient[a] # 0 /\ regClient[a] \in Clients /\ pendingReg /\ pool = 0
  BY <1>1, <1>2 DEF RegFacts, TypeOK
<1>5. /\ reg'[a] = IF a = Restorer THEN "idle" ELSE "done"
      /\ \A b \in Actors \ {a} : reg'[b] = reg[b] /\ regClient'[b] = regClient[b]
      /\ regClient'[a] = 0
      /\ callback'[regClient[a]] = IF a = Restorer THEN restoreCb ELSE a
  BY <1>1, <1>3, <1>4 DEF TypeOK
<1>6. \A b \in Actors \ {a} : regClient[b] = 0
  BY <1>1, <1>2 DEF RegFacts, Working
<1>7. \A b \in Actors : regClient'[b] = 0
  BY <1>5, <1>6
<1>8. CASE a = Restorer
  <2>1. restore = "registering"
    BY <1>1, <1>2, <1>8 DEF RestoreFacts
  <2>2. closeState = "none" /\ closeClient = 0
    BY <1>1, <2>1, NoCloseBesidesRestorer DEF RestoreFacts
  <2>3. CASE cancelled
    BY <1>2, <1>3, <1>4, <1>5, <1>7, <1>8, <2>1, <2>2, <2>3 DEF Published, destroyVars
  <2>4. CASE ~cancelled
    BY <1>2, <1>3, <1>4, <1>5, <1>7, <1>8, <2>1, <2>2, <2>4
       DEF Published, EndRestore, destroyVars
  <2> QED BY <2>3, <2>4
<1>9. CASE a # Restorer
  BY <1>2, <1>3, <1>4, <1>5, <1>7, <1>9 DEF Published, Actors, destroyVars
<1> QED BY <1>8, <1>9

\* The client of the registration becomes that of the channel, or of its close.
LEMMA ListenedChannel ==
    ASSUME ChannelInv, TypeOK', Quiet, NEW a \in Actors, Listened(a), ~isDestroyed
    PROVE  ChannelInv'
<1> DEFINE k == regClient[a]
<1>1. /\ TypeOK /\ RegFacts /\ ClientFacts /\ CloseFacts /\ WaiterFacts /\ DestroyFacts
      /\ RestoreFacts
  BY DEF ChannelInv
<1>2. /\ reg[a] = "listening" /\ k # 0 /\ k \in Clients
      /\ pendingReg /\ pool = 0 /\ ~pendingReg'
      /\ reg'[a] = IF a = Restorer THEN "idle" ELSE "done"
      /\ \A b \in Actors \ {a} : reg'[b] = reg[b] /\ regClient'[b] = regClient[b]
      /\ \A b \in Actors : regClient'[b] = 0
      /\ client' = client /\ isDestroyed' = isDestroyed /\ destroyStage' = destroyStage
      /\ ~isDestroyed'
  BY ListenedMoves DEF destroyVars
<1>3. \/ pool' = k /\ UNCHANGED <<closeState, closeClient, closeWaiters>>
      \/ /\ pool' = 0 /\ closeClient' = k /\ closeClient = 0 /\ closeState' = "closing"
         /\ closeWaiters' = closeWaiters \cup {"restore"}
  BY ListenedMoves
<1>4. Open(k) /\ k # closeClient
  BY <1>1, <1>2 DEF ClientFacts
<1>5. RegFacts'
  <2>1. /\ regClient'[a] # 0 <=> reg'[a] \in {"listening", "closing"}
        /\ reg[a] \in Working /\ reg'[a] \notin Working
    BY <1>2 DEF Working
  <2> QED BY <1>1, <1>2, <2>1, RegMove
<1>6. ClientFacts'
  <2>1. /\ pool' # 0 => client'[pool'] # "none" /\ pool' # closeClient'
        /\ closeClient' # 0 => client'[closeClient'] # "none"
    BY <1>1, <1>2, <1>3, <1>4 DEF ClientFacts, Open
  <2>2. NoClientForgotten'
    <3> SUFFICES ASSUME NEW j \in Clients, client'[j] # "none"
                 PROVE  j = pool' \/ j = closeClient'
      BY DEF NoClientForgotten, Open
    <3>1. \A b \in Actors \ {a} : regClient[b] = 0
      BY <1>2
    <3>2. j = closeClient \/ j = k
      BY <1>1, <1>2, <3>1, ZeroIsNoClient DEF ClientFacts, NoClientForgotten, Open
    <3> QED BY <1>3, <3>2, ZeroIsNoClient
  <2> QED BY <1>2, <2>1, <2>2 DEF ClientFacts, Open
<1>7. CloseFacts'
  BY <1>1, <1>2, <1>3 DEF CloseFacts
<1>8. DestroyFacts'
  BY <1>1, <1>2 DEF DestroyFacts
<1>9. WaiterFacts' /\ RestoreFacts'
  <2>1. CASE a = Restorer
    <3>1. \/ restore' = "undoing" /\ closeState' = "closing"
             /\ closeWaiters' = closeWaiters \cup {"restore"}
          \/ restore' = "none" /\ UNCHANGED <<closeState, closeClient, closeWaiters>>
      BY <2>1, ListenedMoves, UsersAreActors
    <3>2. restore = "registering" /\ ~InFlight(Restorer)'
      BY <1>1, <1>2, <2>1 DEF RestoreFacts, InFlight
    <3> QED BY <1>1, <1>2, <3>1, <3>2 DEF WaiterFacts, RestoreFacts
  <2>2. CASE a # Restorer
    <3>1. /\ restore' = restore /\ (cancelled' => cancelled)
          /\ UNCHANGED <<closeState, closeClient, closeWaiters>>
      BY <2>2, ListenedMoves
    <3>2. ~InFlight(Restorer)' /\ restore # "registering"
      <4>1. Restorer \in Actors /\ reg[Restorer] # "queued" /\ reg[Restorer] \notin Working
        BY <1>1, <1>2, <2>2 DEF Quiet, RegFacts, Working, Actors
      <4>2. reg'[Restorer] = reg[Restorer]
        BY <1>2, <2>2, <4>1
      <4> QED BY <1>1, <4>1, <4>2 DEF RestoreFacts, InFlight, Working
    <3> QED BY <1>1, <1>2, <3>1, <3>2 DEF WaiterFacts, RestoreFacts, RestoreCancelled
  <2> QED BY <2>1, <2>2
<1> QED BY <1>5, <1>6, <1>7, <1>8, <1>9 DEF ChannelInv

\* The end of a close, case by case: what it was for goes on.
LEMMA CloseDoneMoves ==
    ASSUME ChannelInv, CloseDone
    PROVE  /\ closeState = "closing" /\ closeState' = "none"
           /\ closeClient' = 0 /\ closeWaiters' = {}
           /\ \A k \in Clients :
                /\ Open(k)' <=> Open(k) /\ k # closeClient
                /\ callback'[k] = IF k = closeClient THEN None ELSE callback[k]
           /\ UNCHANGED <<pool, pendingReg, regClient>> /\ UNCHANGED destroyVars
           /\ UNCHANGED historyVars
           /\ \A a \in Actors \ {Restorer} : reg'[a] = reg[a]
           /\ cancelled' => cancelled
           /\ cancelled /\ ~cancelled' => ~isDestroyed /\ restore' = "none"
           /\ restoreCb' = IF restore' = "none" THEN None ELSE restoreCb
           /\ \/ /\ restore = "closing" /\ ~RestoreCancelled /\ AlreadyRegistered
                 /\ restore' = "delay" /\ reg' = reg
              \/ /\ restore = "closing" /\ ~RestoreCancelled /\ ~AlreadyRegistered
                 /\ restore' = "registering" /\ reg'[Restorer] = "queued"
              \/ /\ restore \in {"closing", "undoing"}
                 /\ restore' = "none" /\ reg' = reg
              \/ /\ restore \notin {"closing", "undoing"}
                 /\ restore' = restore /\ reg' = reg
<1>1. TypeOK /\ WaiterFacts
  BY DEF ChannelInv
<1>2. /\ closeState = "closing" /\ closeState' = "none"
      /\ closeClient' = 0 /\ closeWaiters' = {}
      /\ UNCHANGED <<pool, pendingReg, regClient>> /\ UNCHANGED destroyVars
      /\ UNCHANGED historyVars
      /\ restoreCb' = IF restore' = "none" THEN None ELSE restoreCb
  BY DEF CloseDone
<1>3. \A k \in Clients :
        /\ Open(k)' <=> Open(k) /\ k # closeClient
        /\ callback'[k] = IF k = closeClient THEN None ELSE callback[k]
  BY DEF CloseDone, Open
<1>4. "restore" \in closeWaiters <=> restore \in {"closing", "undoing"}
  BY <1>1 DEF WaiterFacts
<1>5. \/ /\ restore = "closing" /\ ~RestoreCancelled /\ AlreadyRegistered
         /\ restore' = "delay" /\ reg' = reg
      \/ /\ restore = "closing" /\ ~RestoreCancelled /\ ~AlreadyRegistered
         /\ restore' = "registering" /\ reg' = [reg EXCEPT ![Restorer] = "queued"]
      \/ /\ restore \in {"closing", "undoing"}
         /\ restore' = "none" /\ reg' = reg
      \/ /\ restore \notin {"closing", "undoing"}
         /\ restore' = restore /\ reg' = reg
  BY <1>4 DEF CloseDone
<1>6. /\ cancelled' => cancelled
      /\ cancelled /\ ~cancelled' => ~isDestroyed /\ restore' = "none"
  BY <1>1 DEF CloseDone, TypeOK
<1>7. /\ \A a \in Actors \ {Restorer} : reg'[a] = reg[a]
      /\ reg' = [reg EXCEPT ![Restorer] = "queued"] => reg'[Restorer] = "queued"
  BY <1>1, <1>5 DEF TypeOK, Actors
<1> QED BY <1>2, <1>3, <1>5, <1>6, <1>7

LEMMA CloseDoneChannel ==
    ASSUME ChannelInv, TypeOK', CloseDone
    PROVE  ChannelInv'
<1>1. /\ TypeOK /\ RegFacts /\ ClientFacts /\ CloseFacts /\ WaiterFacts /\ DestroyFacts
      /\ RestoreFacts
  BY DEF ChannelInv
<1>2. /\ closeState = "closing" /\ closeState' = "none"
      /\ closeClient' = 0 /\ closeWaiters' = {}
      /\ \A k \in Clients : Open(k)' <=> Open(k) /\ k # closeClient
      /\ UNCHANGED <<pool, pendingReg, regClient, isDestroyed, destroyStage>>
      /\ \A a \in Actors \ {Restorer} : reg'[a] = reg[a]
      /\ cancelled' => cancelled
  BY CloseDoneMoves DEF destroyVars
<1>3. \/ /\ restore = "closing" /\ ~RestoreCancelled /\ restore' = "delay" /\ reg' = reg
      \/ /\ restore = "closing" /\ ~AlreadyRegistered
         /\ restore' = "registering" /\ reg'[Restorer] = "queued"
      \/ /\ restore \in {"closing", "undoing"} /\ restore' = "none" /\ reg' = reg
      \/ /\ restore \notin {"closing", "undoing"} /\ restore' = restore /\ reg' = reg
  BY CloseDoneMoves
<1>4. RegFacts'
  <2>1. CASE reg' = reg
    BY <1>1, <1>2, <2>1 DEF RegFacts
  <2>2. CASE restore = "closing" /\ reg'[Restorer] = "queued"
    <3>1. Restorer \in Actors /\ reg[Restorer] \notin Working /\ regClient[Restorer] = 0
      BY <1>1, <2>2 DEF RestoreFacts, RegFacts, InFlight, Working, Actors
    <3>2. /\ \A b \in Actors \ {Restorer} : reg'[b] = reg[b] /\ regClient'[b] = regClient[b]
          /\ regClient'[Restorer] # 0 <=> reg'[Restorer] \in {"listening", "closing"}
          /\ pool' # 0 => ~pendingReg'
          /\ reg'[Restorer] \in Working <=> reg[Restorer] \in Working
      BY <1>1, <1>2, <2>2, <3>1 DEF RegFacts, Working
    <3> QED BY <1>1, <1>2, <3>1, <3>2, RegMove
  <2> QED BY <1>3, <2>1, <2>2
<1>5. ClientFacts'
  <2>1. /\ pool \in Clients \cup {0} /\ closeClient \in Clients \cup {0}
        /\ \A a \in Actors : regClient[a] \in Clients \cup {0}
    BY <1>1 DEF TypeOK
  <2>2. pool' # 0 => client'[pool'] # "none" /\ pool' # closeClient'
    BY <1>1, <1>2, <2>1 DEF ClientFacts, Open
  <2>3. \A a \in Actors :
          regClient'[a] # 0 =>
            client'[regClient'[a]] # "none" /\ regClient'[a] \notin {pool', closeClient'}
    BY <1>1, <1>2, <2>1 DEF ClientFacts, Open
  <2>4. NoClientForgotten'
    BY <1>1, <1>2 DEF ClientFacts, NoClientForgotten
  <2> QED BY <1>2, <2>2, <2>3, <2>4 DEF ClientFacts, Open
<1>6. CloseFacts'
  BY <1>2 DEF CloseFacts
<1>7. WaiterFacts'
  BY <1>2, <1>3 DEF WaiterFacts
<1>8. DestroyFacts'
  BY <1>1, <1>2 DEF DestroyFacts
<1>9. RestoreFacts'
  <2>1. CASE reg' = reg
    <3>1. restore' = "registering" <=> restore = "registering"
      BY <1>1, <1>3, <2>1 DEF RestoreFacts, InFlight
    <3>2. restore' = "delay" => ~RestoreCancelled
      BY <1>1, <1>3 DEF RestoreFacts
    <3> QED BY <1>1, <1>2, <2>1, <3>1, <3>2 DEF RestoreFacts, RestoreCancelled, InFlight
  <2>2. CASE reg'[Restorer] = "queued" /\ restore' = "registering" /\ ~AlreadyRegistered
    BY <1>2, <2>2 DEF RestoreFacts, InFlight, AlreadyRegistered
  <2> QED BY <1>3, <2>1, <2>2
<1> QED BY <1>4, <1>5, <1>6, <1>7, <1>8, <1>9 DEF ChannelInv

\* The begin of a restore: it closes what is left of the channel.
LEMMA StartRestoreMoves ==
    ASSUME ChannelInv, NEW cb, StartRestore(cb), UNCHANGED destroyVars,
           cancelled' = cancelled
    PROVE  /\ CloseMove /\ closeWaiters \subseteq closeWaiters' /\ WaiterFacts'
           /\ restore' = "registering" <=> restore = "registering"
           /\ restore' = "delay" => ~RestoreCancelled'
           /\ \/ /\ restore' = restore /\ restoreCb' = restoreCb /\ UNCHANGED closeVars
                 /\ RestoreCancelled \/ restore # "none"
              \/ /\ restore = "none" /\ restore' = "closing" /\ ~RestoreCancelled
                 /\ restoreCb' = cb /\ CloseChannel("restore")
<1>1. CloseFacts /\ WaiterFacts /\ RestoreFacts
  BY DEF ChannelInv
<1>2. CASE RestoreCancelled \/ restore # "none"
  BY <1>1, <1>2 DEF StartRestore, closeVars, CloseMove, WaiterFacts, RestoreFacts,
                    RestoreCancelled, destroyVars
<1>3. CASE ~(RestoreCancelled \/ restore # "none")
  <2>1. restore = "none" /\ restore' = "closing" /\ restoreCb' = cb /\ CloseChannel("restore")
    BY <1>3 DEF StartRestore, Attempt
  <2>2. CloseMove /\ closeWaiters' = closeWaiters \cup {"restore"} /\ closeState' # "none"
    BY <1>1, <2>1, CloseChannelMoves
  <2>3. WaiterFacts'
    BY <1>1, <2>1, <2>2 DEF WaiterFacts, destroyVars
  <2> QED BY <1>3, <2>1, <2>2, <2>3
<1> QED BY <1>2, <1>3

LEMMA UnlistenChannel ==
    ASSUME ChannelInv, TypeOK', Unlisten
    PROVE  ChannelInv'
<1>1. CloseFacts /\ WaiterFacts /\ DestroyFacts /\ RestoreFacts
  BY DEF ChannelInv
<1>2. CloseChannel("unlisten") /\ CancelRestore
      /\ UNCHANGED clientVars /\ UNCHANGED regVars /\ UNCHANGED destroyVars
  BY DEF Unlisten
<1>3. CloseMove /\ closeWaiters' = closeWaiters \cup {"unlisten"} /\ closeState' # "none"
  BY <1>1, <1>2, CloseChannelMoves
<1>4. \/ restore = "delay" /\ restore' = "none"
      \/ restore # "delay" /\ restore' = restore
  BY <1>2 DEF CancelRestore, EndRestore
<1>5. WaiterFacts'
  BY <1>1, <1>2, <1>3, <1>4 DEF WaiterFacts, destroyVars
<1>6. DestroyFacts'
  BY <1>1, <1>2, <1>3, CloseMoveDestroy
<1>7. \A k \in Clients : Open(k)' <=> Open(k)
  BY <1>2 DEF clientVars, Open
<1> QED BY <1>2, <1>3, <1>4, <1>5, <1>6, <1>7, CloseMoveStep

LEMMA DestroyChannel ==
    ASSUME ChannelInv, TypeOK', Destroy
    PROVE  ChannelInv'
<1>1. TypeOK /\ CloseFacts /\ WaiterFacts /\ DestroyFacts /\ RestoreFacts
  BY DEF ChannelInv
<1>2. /\ ~isDestroyed /\ isDestroyed' /\ destroyStage' = "first"
      /\ UNCHANGED clientVars /\ UNCHANGED regVars
  BY DEF Destroy
<1>3. \/ /\ pool # 0 /\ CloseMove /\ closeState' # "none"
         /\ closeWaiters' = closeWaiters \cup {"destroy"}
      \/ pool = 0 /\ CloseMove /\ UNCHANGED closeVars
  <2>1. CASE pool # 0
    BY <1>1, <2>1, CloseChannelMoves DEF Destroy
  <2>2. CASE pool = 0
    BY <2>2 DEF Destroy, closeVars, CloseMove
  <2> QED BY <2>1, <2>2
<1>4. \/ restore = "delay" /\ restore' = "none"
      \/ restore # "delay" /\ restore' = restore
  BY DEF Destroy
<1>5. WaiterFacts'
  BY <1>1, <1>2, <1>3, <1>4 DEF WaiterFacts, closeVars
<1>6. DestroyFacts'
  BY <1>2, <1>3 DEF DestroyFacts, closeVars
<1>7. \A k \in Clients : Open(k)' <=> Open(k)
  BY <1>2 DEF clientVars, Open
<1>8. CloseMove
  BY <1>3
<1>9. /\ restore' = "registering" <=> restore = "registering"
      /\ restore' = "delay" => ~RestoreCancelled'
  BY <1>4
<1> QED BY <1>2, <1>5, <1>6, <1>7, <1>8, <1>9, CloseMoveStep

LEMMA SecondPassChannel ==
    ASSUME ChannelInv, TypeOK', SecondPass
    PROVE  ChannelInv'
<1>1. TypeOK /\ CloseFacts /\ WaiterFacts /\ DestroyFacts /\ RestoreFacts
  BY DEF ChannelInv
<1>2. /\ destroyStage = "first" /\ "destroy" \notin closeWaiters /\ destroyStage' = "second"
      /\ isDestroyed' = isDestroyed
      /\ UNCHANGED clientVars /\ UNCHANGED regVars /\ UNCHANGED restoreVars
  BY DEF SecondPass
<1>3. \/ /\ pool # 0 /\ CloseChannel("destroy") /\ CloseMove /\ closeState' # "none"
         /\ closeWaiters' = closeWaiters \cup {"destroy"}
      \/ pool = 0 /\ CloseMove /\ UNCHANGED closeVars
  <2>1. CASE pool # 0
    BY <1>1, <2>1, CloseChannelMoves DEF SecondPass
  <2>2. CASE pool = 0
    BY <2>2 DEF SecondPass, closeVars, CloseMove
  <2> QED BY <2>1, <2>2
<1>4. WaiterFacts'
  BY <1>1, <1>2, <1>3 DEF WaiterFacts, closeVars, restoreVars, DestroyFacts
<1>5. DestroyFacts'
  <2>1. CASE pool = 0
    BY <1>1, <1>2, <1>3, <2>1 DEF DestroyFacts, closeVars
  <2>2. CASE pool # 0
    \* The close of an older client would be active only if a client had been
    \* published after destroy() began.
    <3>1. closeState # "closing"
      BY <1>1, <1>2, <2>2 DEF DestroyFacts
    <3>2. pool' = 0 \/ (closeState' = "draining" /\ "destroy" \in closeWaiters')
      BY <1>1, <1>3, <2>2, <3>1 DEF CloseChannel, TypeOK
    <3> QED BY <1>1, <1>2, <3>2 DEF DestroyFacts
  <2> QED BY <2>1, <2>2
<1>6. \A k \in Clients : Open(k)' <=> Open(k)
  BY <1>2 DEF clientVars, Open
<1>7. CloseMove
  BY <1>3
<1>8. /\ restore' = "registering" <=> restore = "registering"
      /\ restore' = "delay" => ~RestoreCancelled'
  BY <1>1, <1>2 DEF RestoreFacts, RestoreCancelled, restoreVars
<1> QED BY <1>2, <1>4, <1>5, <1>6, <1>7, <1>8, CloseMoveStep

LEMMA DestroyDoneChannel ==
    ASSUME ChannelInv, TypeOK', DestroyDone
    PROVE  ChannelInv'
<1>1. WaiterFacts /\ DestroyFacts /\ RestoreFacts
  BY DEF ChannelInv
<1>2. /\ destroyStage = "second" /\ "destroy" \notin closeWaiters /\ destroyStage' = "done"
      /\ pool' = 0 /\ UNCHANGED <<closeState, closeClient, closeWaiters, isDestroyed>>
      /\ restore' = restore
      /\ UNCHANGED clientVars /\ UNCHANGED regVars
  BY DEF DestroyDone
<1>3. pool = 0 /\ isDestroyed
  BY <1>1, <1>2 DEF DestroyFacts
<1>4. CloseMove
  BY <1>2, <1>3 DEF CloseMove
<1>5. WaiterFacts' /\ DestroyFacts'
  BY <1>1, <1>2, <1>3 DEF WaiterFacts, DestroyFacts
<1>6. restore' = "delay" => ~RestoreCancelled'
  BY <1>1, <1>2, <1>3 DEF RestoreFacts, RestoreCancelled
<1>7. \A k \in Clients : Open(k)' <=> Open(k)
  BY <1>2 DEF clientVars, Open
<1>8. restore' = "registering" <=> restore = "registering"
  BY <1>2
<1> QED BY <1>2, <1>4, <1>5, <1>6, <1>7, <1>8, CloseMoveStep

LEMMA DrainEndsChannel ==
    ASSUME ChannelInv, TypeOK', DrainEnds
    PROVE  ChannelInv'
<1>1. CloseFacts /\ WaiterFacts /\ DestroyFacts /\ RestoreFacts
  BY DEF ChannelInv
<1>2. /\ closeState = "draining" /\ closeState' = "closing"
      /\ closeClient' = pool /\ pool' = 0 /\ closeWaiters' = closeWaiters
      /\ UNCHANGED clientVars /\ UNCHANGED regVars /\ UNCHANGED restoreVars
      /\ UNCHANGED destroyVars
  BY DEF DrainEnds
<1>3. CloseMove
  BY <1>1, <1>2 DEF CloseMove, CloseFacts
<1>4. WaiterFacts'
  BY <1>1, <1>2 DEF WaiterFacts, restoreVars, destroyVars
<1>5. DestroyFacts'
  BY <1>1, <1>2, <1>3, CloseMoveDestroy
<1>6. /\ restore' = "registering" <=> restore = "registering"
      /\ restore' = "delay" => ~RestoreCancelled'
  BY <1>1, <1>2 DEF RestoreFacts, RestoreCancelled, restoreVars, destroyVars
<1>7. \A k \in Clients : Open(k)' <=> Open(k)
  BY <1>2 DEF clientVars, Open
<1> QED BY <1>2, <1>3, <1>4, <1>5, <1>6, <1>7, CloseMoveStep

LEMMA RetryDelayEndsChannel ==
    ASSUME ChannelInv, TypeOK', RetryDelayEnds
    PROVE  ChannelInv'
<1>1. CloseFacts /\ WaiterFacts /\ DestroyFacts
  BY DEF ChannelInv
<1>2. /\ restore = "delay" /\ restore' = "closing" /\ CloseChannel("restore")
      /\ UNCHANGED clientVars /\ UNCHANGED regVars /\ UNCHANGED destroyVars
  BY DEF RetryDelayEnds, Attempt
<1>3. CloseMove /\ closeWaiters' = closeWaiters \cup {"restore"} /\ closeState' # "none"
  BY <1>1, <1>2, CloseChannelMoves
<1>4. WaiterFacts'
  BY <1>1, <1>2, <1>3 DEF WaiterFacts, destroyVars
<1>5. DestroyFacts'
  BY <1>1, <1>2, <1>3, CloseMoveDestroy
<1>6. \A k \in Clients : Open(k)' <=> Open(k)
  BY <1>2 DEF clientVars, Open
<1> QED BY <1>2, <1>3, <1>4, <1>5, <1>6, CloseMoveStep

\* Health checks and the loss of a connection touch the channel only through
\* the restore that they start.
LEMMA ClientStepChannel ==
    ASSUME ChannelInv, TypeOK', NEW k \in Clients, ClientStep(k)
    PROVE  ChannelInv'
<1>1. TypeOK /\ WaiterFacts /\ DestroyFacts /\ RestoreFacts
  BY DEF ChannelInv
<1>2. UNCHANGED regVars /\ UNCHANGED destroyVars
  BY DEF ClientStep, ClientDies, LossReported, ProbeSucceeds, ProbeFails
<1>3. \A j \in Clients : Open(j)' <=> Open(j)
  BY <1>1 DEF ClientStep, ClientDies, LossReported, ProbeSucceeds, ProbeFails, clientVars,
              Open, TypeOK
<1>4. \/ /\ cancelled' = cancelled /\ StartRestore(callback[k])
      \/ /\ UNCHANGED closeVars /\ restore' = restore /\ cancelled' = cancelled
  BY DEF ClientStep, ClientDies, LossReported, ProbeSucceeds, ProbeFails, restoreVars
<1>5. /\ CloseMove /\ closeWaiters \subseteq closeWaiters' /\ WaiterFacts'
      /\ restore' = "registering" <=> restore = "registering"
      /\ restore' = "delay" => ~RestoreCancelled'
  <2>1. CASE cancelled' = cancelled /\ StartRestore(callback[k])
    BY <1>2, <2>1, StartRestoreMoves
  <2>2. CASE UNCHANGED closeVars /\ restore' = restore /\ cancelled' = cancelled
    BY <1>1, <1>2, <2>2 DEF CloseMove, WaiterFacts, RestoreFacts, RestoreCancelled,
                            closeVars, destroyVars
  <2> QED BY <1>4, <2>1, <2>2
<1>6. DestroyFacts'
  BY <1>1, <1>2, <1>5, CloseMoveDestroy
<1> QED BY <1>2, <1>3, <1>5, <1>6, CloseMoveStep

\* Steps that leave the channel alone.
LEMMA ChannelUntouched ==
    ASSUME ChannelInv, TypeOK', UNCHANGED client, UNCHANGED regVars,
           UNCHANGED restoreVars, UNCHANGED closeVars, UNCHANGED destroyVars
    PROVE  ChannelInv'
<1>1. TypeOK /\ WaiterFacts /\ DestroyFacts /\ RestoreFacts
  BY DEF ChannelInv
<1>2. CloseMove /\ (\A k \in Clients : Open(k)' <=> Open(k)) /\ WaiterFacts' /\ DestroyFacts'
  BY <1>1 DEF CloseMove, Open, WaiterFacts, DestroyFacts, closeVars, restoreVars, destroyVars
<1>3. /\ restore' = "registering" <=> restore = "registering"
      /\ restore' = "delay" => ~RestoreCancelled'
  BY <1>1 DEF RestoreFacts, RestoreCancelled, restoreVars, destroyVars
<1> QED BY <1>2, <1>3, CloseMoveStep

LEMMA ChannelStep == ChannelInv /\ [Next]_vars => ChannelInv'
<1> SUFFICES ASSUME ChannelInv, [Next]_vars PROVE ChannelInv'
  OBVIOUS
<1>1. TypeOK'
  BY TypeStep DEF ChannelInv
<1>2. CASE UNCHANGED vars \/ HealthCheckTick
  BY <1>1, <1>2, ChannelUntouched DEF vars, HealthCheckTick, clientVars
<1>3. ASSUME NEW a \in Actors, Quiet, RegistrationStep(a) PROVE ChannelInv'
  <2>1. CASE ListenFails(a)
    BY <1>1, <2>1, ListenFailsChannel DEF ListenFails
  <2>2. CASE Listened(a) /\ isDestroyed
    <3>1. /\ reg[a] = "listening" /\ reg' = [reg EXCEPT ![a] = "closing"]
          /\ UNCHANGED <<pendingReg, regClient>> /\ UNCHANGED clientVars
          /\ UNCHANGED restoreVars /\ UNCHANGED closeVars /\ UNCHANGED destroyVars
      BY <2>2 DEF Listened, clientVars
    <3> QED BY <1>1, <3>1, ListenFailsChannel
  <2>3. CASE Listened(a) /\ ~isDestroyed
    BY <1>1, <1>3, <2>3, ListenedChannel
  <2> QED BY <1>1, <1>3, <2>1, <2>2, <2>3, ConnectedChannel, ConnectFailsChannel,
             RegistrationClosedChannel DEF RegistrationStep
<1> QED
  BY <1>1, <1>2, <1>3, CloseDoneChannel, ListenChannel, StartRegistrationChannel,
     UnlistenChannel, DestroyChannel, ClientStepChannel, DrainEndsChannel,
     RetryDelayEndsChannel, SecondPassChannel, DestroyDoneChannel DEF Next

(***************************************************************************)
(* The inductive invariant of the channel: one registration at a time gets *)
(* past the guard of registerListener, the clients of the channel, of its  *)
(* close and of its registration are different and all that is open, and   *)
(* the restore loop registers only when it finds nothing left to close.    *)
(***************************************************************************)
THEOREM ChannelInvariant == Spec => []ChannelInv
<1>1. Init => ChannelInv
  BY InitChannel
<1>2. ChannelInv /\ [Next]_vars => ChannelInv'
  BY ChannelStep
<1> QED BY <1>1, <1>2, PTL DEF Spec

(***************************************************************************)
(* The maps and sets that PostgreNotify and DatabaseNotify keep for a      *)
(* channel, and the calls under way on it, stay well formed.               *)
(***************************************************************************)
THEOREM ChannelTypeCorrect == Spec => []TypeOK
<1>1. ChannelInv => TypeOK
  BY DEF ChannelInv
<1> QED BY <1>1, ChannelInvariant, PTL

(***************************************************************************)
(* No dedicated client is forgotten: whatever order the registrations, the *)
(* closes, the restores and the two passes of destroy() come in, an open   *)
(* client is in notificationPool, in the call that registers it or in the  *)
(* close that ends it.                                                     *)
(***************************************************************************)
THEOREM ClientsKept == Spec => []NoClientForgotten
<1>1. ChannelInv => NoClientForgotten
  BY DEF ChannelInv, ClientFacts
<1> QED BY <1>1, ChannelInvariant, PTL

(***************************************************************************)
(* The channel has one listener: the guards of listenNotify and of         *)
(* registerListener admit one registration, and none while a client is     *)
(* published.                                                              *)
(***************************************************************************)
THEOREM AtMostOneListener == Spec => []OneListener
<1>1. ChannelInv => OneListener
  BY DEF ChannelInv, RegFacts, Working, OneListener
<1> QED BY <1>1, ChannelInvariant, PTL

(***************************************************************************)
(* After destroy() began no client is published: the look at isDestroyed   *)
(* after LISTEN is the last await of registerListener.                     *)
(***************************************************************************)
THEOREM NothingPublishedAfterDestroy == Spec => NoPublicationAfterDestroy
<1> DEFINE Unpublished == isDestroyed => pool' \in {pool, 0}
<1>1. [Next]_vars => [Unpublished]_vars
  <2> SUFFICES ASSUME Next, isDestroyed PROVE pool' \in {pool, 0}
    OBVIOUS
  <2>1. ASSUME NEW a \in Actors, StartRegistration(a) \/ RegistrationStep(a)
        PROVE  pool' = pool
    BY <2>1 DEF StartRegistration, RegistrationStep, Connected, ConnectFails, Listened,
                ListenFails, RegistrationClosed, RegistrationFails, closeVars
  <2>2. ASSUME NEW k \in Clients, ClientStep(k) PROVE pool' \in {pool, 0}
    BY <2>2 DEF ClientStep, ClientDies, LossReported, ProbeSucceeds, ProbeFails,
                StartRestore, Attempt, CloseChannel, closeVars
  <2>3. ASSUME NEW u \in Users, Listen(u) PROVE pool' = pool
    BY <2>3 DEF Listen, closeVars
  <2>4. Unlisten \/ Destroy \/ SecondPass \/ DestroyDone \/ DrainEnds \/ RetryDelayEnds
          => pool' \in {pool, 0}
    BY DEF Unlisten, Destroy, SecondPass, DestroyDone, DrainEnds, RetryDelayEnds, Attempt,
           CloseChannel, closeVars
  <2>5. CloseDone \/ HealthCheckTick => pool' = pool
    BY DEF CloseDone, HealthCheckTick, closeVars
  <2> QED BY <2>1, <2>2, <2>3, <2>4, <2>5 DEF Next
<1>2. Spec => [][Unpublished]_vars
  BY <1>1, PTL DEF Spec
<1> QED BY <1>2 DEF NoPublicationAfterDestroy, Unpublished

(***************************************************************************)
(* A restore that unlistenNotify or destroy() cancelled makes no further   *)
(* attempt: it never waits for one (cancelRestoreRetryDelay and the looks  *)
(* of restoreNotificationWithRetry), so that no timer can start it again.  *)
(***************************************************************************)
THEOREM CancelledRestoresEnd == Spec => CancelledRestoreEnds
<1> DEFINE Ends == restore # "none" /\ RestoreCancelled
                     => restore' \in {restore, "undoing", "none"}
<1>1. ChannelInv /\ [Next]_vars => [Ends]_vars
  <2> SUFFICES ASSUME ChannelInv, Next, restore # "none", RestoreCancelled
               PROVE  restore' \in {restore, "undoing", "none"}
    OBVIOUS
  <2>1. ASSUME NEW a \in Actors, RegistrationFails(a)
        PROVE  restore' \in {restore, "none"}
    BY <2>1 DEF RegistrationFails, AttemptFails, EndRestore, restoreVars
  <2>2. ASSUME NEW a \in Actors, StartRegistration(a) \/ RegistrationStep(a)
        PROVE  restore' \in {restore, "undoing", "none"}
    <3>1. CASE RegistrationFails(a)
      BY <2>1, <3>1
    <3>2. CASE ~RegistrationFails(a)
      BY <2>2, <3>2 DEF StartRegistration, RegistrationStep, Connected, ConnectFails,
                        Listened, ListenFails, RegistrationClosed, Published, EndRestore,
                        restoreVars
    <3> QED BY <3>1, <3>2
  <2>3. ASSUME NEW k \in Clients, ClientStep(k) PROVE restore' = restore
    BY <2>3 DEF ClientStep, ClientDies, LossReported, ProbeSucceeds, ProbeFails,
                StartRestore, restoreVars
  <2>4. ASSUME NEW u \in Users, Listen(u) PROVE restore' = restore
    BY <2>4 DEF Listen, restoreVars
  <2>5. Unlisten \/ Destroy => restore' \in {restore, "none"}
    BY DEF Unlisten, Destroy, CancelRestore, EndRestore
  <2>6. HealthCheckTick \/ DrainEnds \/ SecondPass \/ DestroyDone => restore' = restore
    BY DEF HealthCheckTick, DrainEnds, SecondPass, DestroyDone, restoreVars
  <2>7. CloseDone => restore' \in {restore, "none"}
    BY CloseDoneMoves
  <2>8. ~RetryDelayEnds
    BY DEF ChannelInv, RestoreFacts, RetryDelayEnds
  <2> QED BY <2>2, <2>3, <2>4, <2>5, <2>6, <2>7, <2>8 DEF Next
<1>2. Spec => [][Ends]_vars
  BY <1>1, ChannelInvariant, PTL DEF Spec
<1> QED BY <1>2 DEF CancelledRestoreEnds, Ends

-----------------------------------------------------------------------------
(* Subscriptions: what holds of a channel over calls that end.             *)

\* Steps that neither start a restore nor begin or end a call of the
\* application in success: what they take away, they take away for good.
SubscriptionKept ==
    /\ UNCHANGED historyVars
    /\ \A u \in Users : /\ InFlight(u)' => InFlight(u)
                        /\ reg'[u] = "idle" => reg[u] = "idle"
                        /\ reg[u] = "done" => reg'[u] = "done"
    /\ pool' # 0 => pool' = pool /\ callback'[pool'] = callback[pool]
    /\ closeClient' # 0 => closeClient # 0 \/ pool # 0 \/ restore # "none"
    /\ closeState' = "closing" => pool' = 0 \/ closeState = "closing"
    /\ closeState = "draining" => closeState' = "draining" \/ pool' = 0
    /\ "unlisten" \in closeWaiters' => "unlisten" \in closeWaiters
    /\ restore' # "none" => restore # "none" /\ restoreCb' = restoreCb
    /\ restore' = "closing" => restore = "closing"
    /\ restore' = "delay" => \/ restore = "delay" \/ pool' = 0
                             \/ restore = "closing" /\ closeState = "closing" /\ ~RestoreCancelled
    /\ RestoreCancelled => \/ RestoreCancelled'
                           \/ restore' = "none" /\ (pool' = 0 \/ closeState = "closing")

LEMMA SubscriptionKeptStep ==
    ASSUME SubscriptionInv, ChannelInv', SubscriptionKept
    PROVE  SubscriptionInv'
<1> USE DEF SubscriptionKept
<1>1. UnlistenedFacts /\ ListenedOnceFacts /\ UndisturbedFacts
  BY DEF SubscriptionInv
<1>2. UnlistenedFacts'
  BY <1>1 DEF UnlistenedFacts, historyVars
<1>3. ListenedOnceFacts'
  <2> SUFFICES ASSUME ListenedOnce'
               PROVE  /\ pool' # 0 \/ closeClient' # 0 \/ restore' # "none"
                           => \E u \in Users : reg'[u] = "done"
                      /\ restore' = "delay" => pool' = 0
                      /\ closeState' = "closing" => pool' = 0
                      /\ unlistened' =>
                           \/ pool' = 0 /\ restore' = "none"
                           \/ RestoreCancelled' /\ (pool' # 0 => closeState' = "draining")
    BY DEF ListenedOnceFacts
  <2>1. ListenedOnce
    BY DEF ListenedOnce
  <2>2. /\ pool # 0 \/ closeClient # 0 \/ restore # "none"
              => \E u \in Users : reg[u] = "done"
        /\ restore = "delay" => pool = 0
        /\ closeState = "closing" => pool = 0
        /\ unlistened => \/ pool = 0 /\ restore = "none"
                         \/ RestoreCancelled /\ (pool # 0 => closeState = "draining")
    BY <1>1, <2>1 DEF ListenedOnceFacts
  <2>3. pool' # 0 \/ closeClient' # 0 \/ restore' # "none"
           => \E u \in Users : reg'[u] = "done"
    BY <2>2
  <2>4. (restore' = "delay" => pool' = 0) /\ (closeState' = "closing" => pool' = 0)
    BY <2>2
  <2>5. unlistened' => \/ pool' = 0 /\ restore' = "none"
                       \/ RestoreCancelled' /\ (pool' # 0 => closeState' = "draining")
    BY <2>2 DEF historyVars
  <2> QED BY <2>3, <2>4, <2>5
<1>4. UndisturbedFacts'
  <2> SUFFICES ASSUME Undisturbed'
               PROVE  UndisturbedFacts'
    BY DEF UndisturbedFacts
  <2>1. Undisturbed /\ UNCHANGED subscribed
    BY DEF Undisturbed, historyVars
  <2>2. /\ \A u, v \in Users : InFlight(u) /\ InFlight(v) => u = v
        /\ \A u \in Users :
              InFlight(u) => subscribed = None /\ "unlisten" \notin closeWaiters
        /\ "unlisten" \in closeWaiters => subscribed = None
        /\ pool # 0 /\ subscribed = None => RestoreCancelled /\ closeState = "draining"
        /\ restore # "none" /\ subscribed = None => RestoreCancelled
        /\ restore # "none" /\ ~RestoreCancelled => restoreCb = subscribed
        /\ restore = "closing" /\ ~RestoreCancelled => pool = 0 \/ closeState = "draining"
        /\ restore = "delay" => pool = 0
        /\ CallbackIsLast
    BY <1>1, <2>1 DEF UndisturbedFacts
  <2>3. CallbackIsLast'
    BY <2>1, <2>2 DEF CallbackIsLast
  <2>4. /\ pool' # 0 /\ subscribed = None => RestoreCancelled' /\ closeState' = "draining"
        /\ restore' # "none" /\ subscribed = None => RestoreCancelled'
        /\ restore' # "none" /\ ~RestoreCancelled' => restoreCb' = subscribed
    BY <2>2
  <2>5. /\ restore' = "closing" /\ ~RestoreCancelled' => pool' = 0 \/ closeState' = "draining"
        /\ restore' = "delay" => pool' = 0
    BY <2>2
  <2>6. /\ \A u, v \in Users : InFlight(u)' /\ InFlight(v)' => u = v
        /\ \A u \in Users :
              InFlight(u)' => subscribed = None /\ "unlisten" \notin closeWaiters'
        /\ "unlisten" \in closeWaiters' => subscribed = None
    BY <2>2
  <2> QED BY <2>1, <2>3, <2>4, <2>5, <2>6 DEF UndisturbedFacts
<1> QED BY <1>2, <1>3, <1>4 DEF SubscriptionInv

\* The part of it that is about the client, for steps that begin a close.
LEMMA CloseMoveKeeps ==
    ASSUME TypeOK, CloseMove, callback' = callback
    PROVE  /\ pool' # 0 => pool' = pool /\ callback'[pool'] = callback[pool]
           /\ closeClient' # 0 => closeClient # 0 \/ pool # 0
           /\ closeState' = "closing" => pool' = 0 \/ closeState = "closing"
           /\ closeState = "draining" => closeState' = "draining" \/ pool' = 0
BY DEF CloseMove

LEMMA InitSubscription == Init => SubscriptionInv
<1> SUFFICES ASSUME Init PROVE SubscriptionInv
  OBVIOUS
<1>1. \A u \in Users : ~InFlight(u)
  BY UsersAreActors DEF Init, InFlight
<1>2. UnlistenedFacts /\ ListenedOnceFacts
  BY DEF Init, UnlistenedFacts, ListenedOnceFacts
<1>3. UndisturbedFacts
  BY <1>1 DEF Init, UndisturbedFacts, CallbackIsLast
<1> QED BY <1>2, <1>3, InitChannel DEF SubscriptionInv

\* A listenNotify call: it is the first and finds nothing of an earlier one,
\* or the application is not what the facts are about.
LEMMA ListenSubscription ==
    ASSUME SubscriptionInv, ChannelInv', NEW u \in Users, Listen(u)
    PROVE  SubscriptionInv'
<1>1. /\ TypeOK /\ RegFacts /\ RestoreFacts
      /\ UnlistenedFacts /\ ListenedOnceFacts /\ UndisturbedFacts
  BY DEF SubscriptionInv, ChannelInv
<1>2. /\ reg[u] = "idle" /\ ~isDestroyed
      /\ reg'[u] = IF AlreadyRegistered THEN "failed" ELSE "queued"
      /\ \A v \in Users \ {u} : reg'[v] = reg[v]
  BY <1>1, UsersAreActors DEF Listen, TypeOK
<1>3. /\ unlistened' = (unlistened /\ AlreadyRegistered)
      /\ overlapped' = (overlapped \/ ListenOverlaps)
      /\ UNCHANGED <<pendingReg, regClient, subscribed, missed>>
      /\ UNCHANGED clientVars /\ UNCHANGED restoreVars /\ UNCHANGED closeVars
      /\ UNCHANGED destroyVars
  BY DEF Listen
<1>4. UnlistenedFacts'
  BY <1>1, <1>2, <1>3 DEF UnlistenedFacts, InFlight
<1>5. ListenedOnceFacts'
  <2> SUFFICES ASSUME ListenedOnce'
               PROVE  pool' = 0 /\ closeClient' = 0 /\ restore' = "none"
    BY DEF ListenedOnceFacts
  <2>1. \A v \in Users : reg[v] = "idle"
    BY <1>2 DEF ListenedOnce
  <2>2. ListenedOnce /\ ~\E v \in Users : reg[v] = "done"
    BY <2>1 DEF ListenedOnce
  <2> QED BY <1>1, <1>3, <2>2 DEF ListenedOnceFacts, closeVars, restoreVars
<1>6. UndisturbedFacts'
  <2> SUFFICES ASSUME Undisturbed'
               PROVE  UndisturbedFacts'
    BY DEF UndisturbedFacts
  <2>1. Undisturbed /\ ~ListenOverlaps
    BY <1>1, <1>3 DEF Undisturbed, TypeOK
  <2>2. /\ \A v \in Users : ~InFlight(v)
        /\ subscribed = None /\ "unlisten" \notin closeWaiters
    BY <2>1 DEF ListenOverlaps
  <2>3. \A v \in Users : InFlight(v)' => v = u
    BY <1>2, <2>2 DEF InFlight
  <2>4. UNCHANGED <<pool, closeState, closeWaiters, restore, restoreCb, cancelled, isDestroyed,
                    callback, subscribed>>
    BY <1>3 DEF closeVars, restoreVars, destroyVars, clientVars
  <2>5. RestoreCancelled' <=> RestoreCancelled
    BY <2>4 DEF RestoreCancelled
  <2>6. CallbackIsLast'
    BY <2>2, <2>4 DEF CallbackIsLast
  <2> QED BY <1>1, <2>1, <2>2, <2>3, <2>4, <2>5, <2>6 DEF UndisturbedFacts
<1> QED BY <1>4, <1>5, <1>6 DEF SubscriptionInv

\* The begin of a restore: the subscription it is for was not ended.
LEMMA RestoreSubscription ==
    ASSUME SubscriptionInv, ChannelInv', pool # 0, ~RestoreCancelled,
           restore = "none", restore' = "closing", restoreCb' = callback[pool],
           CloseChannel("restore"), UNCHANGED historyVars, UNCHANGED reg,
           UNCHANGED <<callback, cancelled>>, UNCHANGED destroyVars
    PROVE  SubscriptionInv'
<1>1. /\ TypeOK /\ CloseFacts /\ WaiterFacts
      /\ UnlistenedFacts /\ ListenedOnceFacts /\ UndisturbedFacts
  BY DEF SubscriptionInv, ChannelInv
<1>2. /\ UNCHANGED <<unlistened, subscribed, overlapped, missed>>
      /\ \A u \in Users : InFlight(u)' <=> InFlight(u)
      /\ ~RestoreCancelled'
  BY DEF historyVars, InFlight, RestoreCancelled, destroyVars
<1>3. CloseMove /\ closeWaiters' = closeWaiters \cup {"restore"} /\ closeState' # "none"
  BY <1>1, CloseChannelMoves
<1>4. UnlistenedFacts'
  BY <1>1, <1>2 DEF UnlistenedFacts
<1>5. ListenedOnceFacts'
  <2> SUFFICES ASSUME ListenedOnce'
               PROVE  /\ \E u \in Users : reg'[u] = "done"
                      /\ closeState' = "closing" => pool' = 0
                      /\ ~unlistened'
    BY DEF ListenedOnceFacts
  <2>1. ListenedOnce
    BY DEF ListenedOnce
  <2>2. /\ \E u \in Users : reg[u] = "done"
        /\ closeState = "closing" => pool = 0
        /\ ~unlistened
    BY <1>1, <2>1 DEF ListenedOnceFacts
  <2>3. closeState' = "closing" => pool' = 0
    BY <1>3, <2>2 DEF CloseMove
  <2> QED BY <1>2, <2>2, <2>3
<1>6. UndisturbedFacts'
  <2> SUFFICES ASSUME Undisturbed'
               PROVE  UndisturbedFacts'
    BY DEF UndisturbedFacts
  <2>1. Undisturbed
    BY <1>2 DEF Undisturbed
  <2>2. /\ \A u, v \in Users : InFlight(u) /\ InFlight(v) => u = v
        /\ \A u \in Users :
              InFlight(u) => subscribed = None /\ "unlisten" \notin closeWaiters
        /\ "unlisten" \in closeWaiters => subscribed = None
        /\ subscribed # None /\ callback[pool] = subscribed
    BY <1>1, <2>1 DEF UndisturbedFacts, CallbackIsLast
  <2>3. closeState # "closing"
    \* The close of an older client has somebody who waits for it.
    BY <1>1, <2>2 DEF WaiterFacts, TypeOK, RestoreCancelled
  <2>4. pool' = 0 \/ closeState' = "draining"
    BY <1>1, <2>3 DEF CloseChannel, TypeOK
  <2>5. CallbackIsLast'
    BY <1>2, <1>3, <2>2 DEF CallbackIsLast, CloseMove
  <2>6. /\ \A u, v \in Users : InFlight(u)' /\ InFlight(v)' => u = v
        /\ \A u \in Users : ~InFlight(u)'
        /\ "unlisten" \notin closeWaiters'
    BY <1>2, <1>3, <2>2
  <2> QED BY <1>2, <2>2, <2>4, <2>5, <2>6 DEF UndisturbedFacts
<1> QED BY <1>4, <1>5, <1>6 DEF SubscriptionInv

\* The next attempt of a restore: nobody ended its subscription meanwhile.
LEMMA RetryDelaySubscription ==
    ASSUME SubscriptionInv, ChannelInv', RetryDelayEnds
    PROVE  SubscriptionInv'
<1>1. /\ TypeOK /\ CloseFacts /\ WaiterFacts /\ RestoreFacts
      /\ UnlistenedFacts /\ ListenedOnceFacts /\ UndisturbedFacts
  BY DEF SubscriptionInv, ChannelInv
<1>2. /\ restore = "delay" /\ restore' = "closing" /\ CloseChannel("restore")
      /\ UNCHANGED <<restoreCb, cancelled, reg, callback, isDestroyed>>
      /\ UNCHANGED <<unlistened, subscribed, overlapped, missed>>
  BY DEF RetryDelayEnds, Attempt, clientVars, regVars, destroyVars, historyVars
<1>3. /\ CloseMove /\ closeWaiters' = closeWaiters \cup {"restore"}
      /\ pool = 0 => pool' = 0
  BY <1>1, <1>2, CloseChannelMoves DEF CloseMove
<1>4. /\ \A u \in Users : InFlight(u)' <=> InFlight(u)
      /\ ~RestoreCancelled' /\ ~RestoreCancelled
  BY <1>1, <1>2 DEF InFlight, RestoreCancelled, RestoreFacts
<1>5. UnlistenedFacts'
  BY <1>1, <1>2, <1>4 DEF UnlistenedFacts
<1>6. ListenedOnceFacts'
  BY <1>1, <1>2, <1>3, <1>4 DEF ListenedOnceFacts, ListenedOnce
<1>7. UndisturbedFacts'
  BY <1>1, <1>2, <1>3, <1>4 DEF UndisturbedFacts, Undisturbed, CallbackIsLast
<1> QED BY <1>5, <1>6, <1>7 DEF SubscriptionInv

\* A registration that goes on.
LEMMA RegistrationGoesOn ==
    ASSUME TypeOK, NEW a \in Actors, InFlight(a),
           reg'[a] \in Working, \A b \in Actors \ {a} : reg'[b] = reg[b],
           UNCHANGED callback, UNCHANGED restoreVars, UNCHANGED closeVars,
           UNCHANGED destroyVars, UNCHANGED historyVars
    PROVE  SubscriptionKept
<1>1. \A u \in Users : /\ InFlight(u)' => InFlight(u)
                       /\ reg'[u] = "idle" => reg[u] = "idle"
                       /\ reg[u] = "done" => reg'[u] = "done"
  BY UsersAreActors DEF InFlight, Working
<1>2. RestoreCancelled' <=> RestoreCancelled
  BY DEF RestoreCancelled, restoreVars, destroyVars
<1> QED BY <1>1, <1>2 DEF SubscriptionKept, restoreVars, closeVars

\* A registration that fails.
LEMMA RegistrationFailsKeeps ==
    ASSUME ChannelInv, NEW a \in Actors, InFlight(a), RegistrationFails(a)
    PROVE  SubscriptionKept
<1>1. TypeOK /\ RestoreFacts
  BY DEF ChannelInv
<1>2. /\ reg'[a] = IF a = Restorer THEN "idle" ELSE "failed"
      /\ \A b \in Actors \ {a} : reg'[b] = reg[b]
      /\ UNCHANGED <<pool, closeState, closeClient, closeWaiters, isDestroyed>>
      /\ UNCHANGED historyVars /\ UNCHANGED callback
      /\ a # Restorer => restore' = restore /\ cancelled' = cancelled
      /\ restore' # "none" => restoreCb' = restoreCb
  BY <1>1, RegistrationFailsMoves DEF closeVars, destroyVars, restoreVars
<1>3. a = Restorer =>
        /\ restore = "registering" /\ pool = 0
        /\ \/ restore' = "none" /\ RestoreCancelled
           \/ restore' = "delay" /\ ~RestoreCancelled /\ cancelled' = cancelled
  BY <1>1, RegistrationFailsMoves DEF RestoreFacts
<1>4. \A u \in Users : /\ InFlight(u)' => InFlight(u)
                       /\ reg'[u] = "idle" => reg[u] = "idle"
                       /\ reg[u] = "done" => reg'[u] = "done"
  BY <1>2, UsersAreActors DEF InFlight
<1>5. CASE a = Restorer
  BY <1>2, <1>3, <1>4, <1>5 DEF SubscriptionKept, RestoreCancelled
<1>6. CASE a # Restorer
  BY <1>2, <1>4, <1>6 DEF SubscriptionKept, RestoreCancelled
<1> QED BY <1>5, <1>6

\* The other steps: a phase of a close, and perhaps the end of a restore.
LEMMA CloseMoveKept ==
    ASSUME ChannelInv, CloseMove, UNCHANGED <<reg, callback>>, UNCHANGED historyVars,
           closeWaiters' \subseteq closeWaiters \cup {"destroy"},
           restore' \in {restore, "none"},
           restore' # "none" => restoreCb' = restoreCb,
           RestoreCancelled => RestoreCancelled'
    PROVE  SubscriptionKept
<1>1. TypeOK
  BY DEF ChannelInv
<1>2. /\ pool' # 0 => pool' = pool /\ callback'[pool'] = callback[pool]
      /\ closeClient' # 0 => closeClient # 0 \/ pool # 0
      /\ closeState' = "closing" => pool' = 0 \/ closeState = "closing"
      /\ closeState = "draining" => closeState' = "draining" \/ pool' = 0
  BY <1>1, CloseMoveKeeps
<1>3. \A u \in Users : /\ InFlight(u)' => InFlight(u)
                       /\ reg'[u] = "idle" => reg[u] = "idle"
                       /\ reg[u] = "done" => reg'[u] = "done"
  BY DEF InFlight
<1> QED BY <1>2, <1>3 DEF SubscriptionKept

LEMMA CloseDoneKeeps ==
    ASSUME ChannelInv, CloseDone
    PROVE  SubscriptionKept
<1>1. TypeOK /\ ClientFacts
  BY DEF ChannelInv
<1>2. /\ closeState = "closing" /\ closeState' = "none"
      /\ closeClient' = 0 /\ closeWaiters' = {}
      /\ \A k \in Clients : callback'[k] = IF k = closeClient THEN None ELSE callback[k]
      /\ pool' = pool /\ UNCHANGED destroyVars /\ UNCHANGED historyVars
      /\ \A a \in Actors \ {Restorer} : reg'[a] = reg[a]
      /\ cancelled /\ ~cancelled' => ~isDestroyed /\ restore' = "none"
      /\ restoreCb' = IF restore' = "none" THEN None ELSE restoreCb
  BY CloseDoneMoves
<1>3. \/ restore = "closing" /\ ~RestoreCancelled /\ restore' = "delay"
      \/ restore = "closing" /\ restore' = "registering"
      \/ restore' = "none"
      \/ restore \notin {"closing", "undoing"} /\ restore' = restore
  BY CloseDoneMoves
<1>4. pool # 0 => callback'[pool] = callback[pool]
  BY <1>1, <1>2 DEF ClientFacts, TypeOK
<1>5. \A u \in Users : reg'[u] = reg[u] /\ (InFlight(u)' <=> InFlight(u))
  BY <1>2, UsersAreActors DEF InFlight
<1>6. RestoreCancelled => \/ RestoreCancelled'
                          \/ restore' = "none" /\ closeState = "closing"
  BY <1>2 DEF RestoreCancelled, destroyVars
<1> QED BY <1>2, <1>3, <1>4, <1>5, <1>6 DEF SubscriptionKept

\* After unlistenNotify whatever is left is on its way to be closed, unless
\* the close that it joined is not that of the client.
LEMMA UnlistenSubscription ==
    ASSUME SubscriptionInv, ChannelInv', Unlisten
    PROVE  SubscriptionInv'
<1>1. /\ TypeOK /\ CloseFacts /\ UnlistenedFacts /\ ListenedOnceFacts /\ UndisturbedFacts
  BY DEF SubscriptionInv, ChannelInv
<1>2. /\ CloseChannel("unlisten") /\ subscribed' = None
      /\ unlistened' = ~UnlistenOverlaps
      /\ overlapped' = (overlapped \/ UnlistenOverlaps)
      /\ missed' = (missed \/ JoinsOlderClose)
      /\ UNCHANGED <<callback, reg, isDestroyed>>
  BY DEF Unlisten, clientVars, regVars, destroyVars
<1>3. CloseMove /\ closeWaiters' = closeWaiters \cup {"unlisten"} /\ closeState' # "none"
  BY <1>1, <1>2, CloseChannelMoves
<1>4. \/ restore = "delay" /\ restore' = "none"
      \/ restore # "delay" /\ restore' = restore /\ RestoreCancelled'
  BY DEF Unlisten, CancelRestore, EndRestore, RestoreCancelled
<1>5. \A u \in Users : InFlight(u)' <=> InFlight(u)
  BY <1>2 DEF InFlight
<1>6. closeState' \in {"draining", "closing"}
  BY <1>3 DEF ChannelInv, TypeOK
<1>7. UnlistenedFacts'
  BY <1>2, <1>5 DEF UnlistenedFacts, UnlistenOverlaps
<1>8. ListenedOnceFacts'
  <2> SUFFICES ASSUME ListenedOnce'
               PROVE  /\ pool' # 0 \/ closeClient' # 0 \/ restore' # "none"
                           => \E u \in Users : reg'[u] = "done"
                      /\ restore' # "delay"
                      /\ closeState' = "closing" => pool' = 0
                      /\ \/ pool' = 0 /\ restore' = "none"
                         \/ RestoreCancelled' /\ (pool' # 0 => closeState' = "draining")
    BY DEF ListenedOnceFacts
  <2>1. ListenedOnce
    BY <1>2 DEF ListenedOnce
  <2>2. /\ pool # 0 \/ closeClient # 0 \/ restore # "none"
              => \E u \in Users : reg[u] = "done"
        /\ restore = "delay" => pool = 0
        /\ closeState = "closing" => pool = 0
    BY <1>1, <2>1 DEF ListenedOnceFacts
  <2>3. closeState' = "closing" => pool' = 0
    BY <1>3, <2>2 DEF CloseMove
  <2>4. restore = "delay" => pool' = 0
    BY <1>3, <2>2 DEF CloseMove
  <2>5. pool' # 0 \/ closeClient' # 0 \/ restore' # "none"
           => \E u \in Users : reg'[u] = "done"
    BY <1>2, <1>3, <1>4, <2>2 DEF CloseMove
  <2> QED BY <1>4, <1>6, <2>3, <2>4, <2>5
<1>9. UndisturbedFacts'
  <2> SUFFICES ASSUME Undisturbed'
               PROVE  UndisturbedFacts'
    BY DEF UndisturbedFacts
  <2>1. Undisturbed /\ ~UnlistenOverlaps /\ ~JoinsOlderClose
    BY <1>1, <1>2 DEF Undisturbed, TypeOK
  <2>2. \A u \in Users : ~InFlight(u)'
    BY <1>5, <2>1 DEF UnlistenOverlaps
  <2>3. restore = "delay" => pool = 0
    BY <1>1, <2>1 DEF UndisturbedFacts
  <2>4. pool' # 0 => RestoreCancelled' /\ closeState' = "draining"
    <3>1. pool' # 0 => restore # "delay"
      BY <1>3, <2>3 DEF CloseMove
    <3>2. pool' # 0 => closeState' # "closing"
      BY <1>3, <2>1 DEF CloseMove, JoinsOlderClose
    <3> QED BY <1>4, <1>6, <3>1, <3>2
  <2>5. CallbackIsLast'
    BY <1>2 DEF CallbackIsLast
  <2> QED BY <1>2, <1>4, <2>2, <2>4, <2>5 DEF UndisturbedFacts
<1> QED BY <1>7, <1>8, <1>9 DEF SubscriptionInv

\* A publication: of a restore that was not cancelled, so that its callback is
\* that of the subscription, or of a user's call.
LEMMA ListenedSubscription ==
    ASSUME SubscriptionInv, ChannelInv', Quiet, NEW a \in Actors, Listened(a), ~isDestroyed
    PROVE  SubscriptionInv'
<1> DEFINE k == regClient[a]
<1>1. /\ ChannelInv /\ TypeOK /\ CloseFacts /\ RestoreFacts
      /\ UnlistenedFacts /\ ListenedOnceFacts /\ UndisturbedFacts
  BY DEF SubscriptionInv, ChannelInv
<1>2. /\ reg[a] = "listening" /\ k # 0 /\ pool = 0 /\ InFlight(a)
      /\ reg'[a] = IF a = Restorer THEN "idle" ELSE "done"
      /\ \A b \in Actors \ {a} : reg'[b] = reg[b]
      /\ isDestroyed' = isDestroyed
      /\ callback'[k] = IF a = Restorer THEN restoreCb ELSE a
  BY <1>1, ListenedMoves DEF destroyVars, InFlight
<1>3. \A u \in Users \ {a} : reg'[u] = reg[u] /\ (InFlight(u)' <=> InFlight(u))
  BY <1>2, UsersAreActors DEF InFlight
<1>4. CASE a = Restorer /\ cancelled
  <2>1. /\ restore = "registering" /\ restore' = "undoing" /\ cancelled'
        /\ restoreCb' = restoreCb /\ closeState = "none"
        /\ closeState' = "closing" /\ pool' = 0
        /\ closeWaiters' = closeWaiters \cup {"restore"}
        /\ UNCHANGED historyVars
    BY <1>1, <1>4, ListenedMoves, UsersAreActors
  <2>2. \A u \in Users : reg'[u] = reg[u] /\ (InFlight(u)' <=> InFlight(u))
    BY <1>3, <1>4, UsersAreActors
  <2>3. SubscriptionKept
    BY <2>1, <2>2 DEF SubscriptionKept, RestoreCancelled
  <2> QED BY <2>3, SubscriptionKeptStep
<1>5. CASE a = Restorer /\ ~cancelled
  <2>1. /\ restore = "registering" /\ restore' = "none" /\ pool' = k
        /\ UNCHANGED <<closeState, closeClient, closeWaiters>>
        /\ UNCHANGED <<subscribed, unlistened, overlapped, missed>>
        /\ closeState = "none" /\ ~RestoreCancelled
    BY <1>1, <1>5, ListenedMoves, NoCloseBesidesRestorer, UsersAreActors
       DEF historyVars, RestoreCancelled
  <2>2. \A u \in Users : reg'[u] = reg[u] /\ (InFlight(u)' <=> InFlight(u))
    BY <1>3, <1>5, UsersAreActors
  <2>3. UnlistenedFacts'
    BY <1>1, <2>1, <2>2 DEF UnlistenedFacts
  <2>4. ListenedOnceFacts'
    BY <1>1, <2>1, <2>2 DEF ListenedOnceFacts, ListenedOnce
  <2>5. UndisturbedFacts'
    <3> SUFFICES ASSUME Undisturbed'
                 PROVE  UndisturbedFacts'
      BY DEF UndisturbedFacts
    <3>1. Undisturbed
      BY <2>1 DEF Undisturbed
    <3>2. restoreCb = subscribed /\ subscribed # None
      BY <1>1, <2>1, <3>1 DEF UndisturbedFacts
    <3>3. CallbackIsLast'
      BY <1>2, <1>5, <2>1, <3>2 DEF CallbackIsLast
    <3> QED BY <1>1, <2>1, <2>2, <3>1, <3>2, <3>3 DEF UndisturbedFacts
  <2> QED BY <2>3, <2>4, <2>5 DEF SubscriptionInv
<1>6. CASE a # Restorer
  <2>1. /\ a \in Users /\ pool' = k /\ restore' = restore /\ restoreCb' = restoreCb
        /\ cancelled' = (cancelled /\ restore # "none")
        /\ subscribed' = a /\ UNCHANGED <<unlistened, overlapped, missed>>
        /\ UNCHANGED <<closeState, closeClient, closeWaiters>>
        /\ reg'[a] = "done" /\ ~InFlight(a)'
    BY <1>1, <1>2, <1>6, ListenedMoves DEF InFlight
  <2>2. ~unlistened
    BY <1>1, <1>2, <2>1 DEF UnlistenedFacts
  <2>3. restore # "none" => (RestoreCancelled' <=> RestoreCancelled)
    BY <1>1, <1>2, <2>1 DEF RestoreCancelled, TypeOK
  <2>4. UnlistenedFacts'
    BY <2>1, <2>2 DEF UnlistenedFacts
  <2>5. ListenedOnceFacts'
    <3> SUFFICES ASSUME ListenedOnce'
                 PROVE  restore' = "none" /\ closeState' # "closing"
      BY <2>1, <2>2 DEF ListenedOnceFacts
    <3>1. ListenedOnce
      BY <1>2, <1>3, <2>1 DEF ListenedOnce
    <3>2. ~\E u \in Users : reg[u] = "done"
      BY <1>2, <2>1, <3>1 DEF ListenedOnce
    <3>3. restore = "none" /\ closeClient = 0
      BY <1>1, <3>1, <3>2 DEF ListenedOnceFacts
    <3> QED BY <2>1, <3>3 DEF Quiet, CloseIsImmediate
  <2>6. UndisturbedFacts'
    <3> SUFFICES ASSUME Undisturbed'
                 PROVE  UndisturbedFacts'
      BY DEF UndisturbedFacts
    <3>1. Undisturbed
      BY <2>1 DEF Undisturbed
    <3>2. /\ subscribed = None /\ "unlisten" \notin closeWaiters
          /\ restore # "none" => RestoreCancelled
          /\ \A u \in Users \ {a} : ~InFlight(u)
      BY <1>1, <1>2, <2>1, <3>1 DEF UndisturbedFacts
    <3>3. restore' # "none" => RestoreCancelled'
      BY <2>1, <2>3, <3>2
    <3>4. restore' # "delay"
      BY <1>1, <2>1, <3>2 DEF RestoreFacts
    <3>5. \A u \in Users : ~InFlight(u)'
      BY <1>3, <2>1, <3>2
    <3>6. CallbackIsLast'
      BY <1>2, <1>6, <2>1 DEF CallbackIsLast
    <3>7. subscribed' # None
      BY <2>1, ConstantsAssumption
    <3> QED BY <2>1, <3>2, <3>3, <3>4, <3>5, <3>6, <3>7 DEF UndisturbedFacts
  <2> QED BY <2>4, <2>5, <2>6 DEF SubscriptionInv
<1> QED BY <1>4, <1>5, <1>6

\* Connection losses and health checks.
LEMMA ClientSubscription ==
    ASSUME SubscriptionInv, ChannelInv', NEW k \in Clients, ClientStep(k)
    PROVE  SubscriptionInv'
<1>1. ChannelInv /\ k # 0
  BY ZeroIsNoClient DEF SubscriptionInv
<1>2. /\ UNCHANGED <<reg, callback, cancelled>> /\ UNCHANGED destroyVars
      /\ UNCHANGED historyVars
  BY DEF ClientStep, ClientDies, LossReported, ProbeSucceeds, ProbeFails,
         clientVars, regVars, restoreVars
<1>3. \/ pool = k /\ StartRestore(callback[k])
      \/ UNCHANGED <<restore, restoreCb>> /\ UNCHANGED closeVars
  BY DEF ClientStep, ClientDies, LossReported, ProbeSucceeds, ProbeFails, restoreVars
<1>4. \/ UNCHANGED <<restore, restoreCb>> /\ UNCHANGED closeVars
      \/ /\ pool = k /\ restore = "none" /\ restore' = "closing" /\ ~RestoreCancelled
         /\ restoreCb' = callback[k] /\ CloseChannel("restore")
  BY <1>1, <1>2, <1>3, StartRestoreMoves
<1>5. CASE UNCHANGED <<restore, restoreCb>> /\ UNCHANGED closeVars
  <2>1. CloseMove /\ closeWaiters' \subseteq closeWaiters \cup {"destroy"}
    BY <1>5 DEF CloseMove, closeVars
  <2>2. RestoreCancelled => RestoreCancelled'
    BY <1>2 DEF RestoreCancelled, destroyVars
  <2>3. SubscriptionKept
    BY <1>1, <1>2, <1>5, <2>1, <2>2, CloseMoveKept
  <2> QED BY <2>3, SubscriptionKeptStep
<1>6. CASE /\ pool = k /\ restore = "none" /\ restore' = "closing" /\ ~RestoreCancelled
           /\ restoreCb' = callback[k] /\ CloseChannel("restore")
  BY <1>1, <1>2, <1>6, RestoreSubscription
<1> QED BY <1>4, <1>5, <1>6

\* The passes of destroy(), the drain of a close and the health check timer.
LEMMA DestroySubscription ==
    ASSUME ChannelInv,
           Destroy \/ SecondPass \/ DestroyDone \/ DrainEnds \/ HealthCheckTick \/ UNCHANGED vars
    PROVE  SubscriptionKept
<1>1. CloseFacts /\ DestroyFacts
  BY DEF ChannelInv
<1>2. UNCHANGED <<reg, callback>> /\ UNCHANGED historyVars
  BY DEF Destroy, SecondPass, DestroyDone, DrainEnds, HealthCheckTick, vars,
         clientVars, regVars
<1>3. CASE Destroy \/ SecondPass
  <2>1. \/ CloseChannel("destroy")
        \/ UNCHANGED closeVars
    BY <1>3 DEF Destroy, SecondPass
  <2>2. CloseMove /\ closeWaiters' \subseteq closeWaiters \cup {"destroy"}
    BY <1>1, <2>1, CloseChannelMoves DEF CloseMove, closeVars
  <2>3. /\ restore' \in {restore, "none"}
        /\ restore' # "none" => restoreCb' = restoreCb
        /\ RestoreCancelled => RestoreCancelled'
    BY <1>3 DEF Destroy, SecondPass, RestoreCancelled, restoreVars
  <2> QED BY <1>2, <2>2, <2>3, CloseMoveKept
<1>4. CASE DestroyDone
  <2>1. pool = 0 /\ isDestroyed
    BY <1>1, <1>4 DEF DestroyDone, DestroyFacts
  <2>2. /\ CloseMove /\ closeWaiters' \subseteq closeWaiters \cup {"destroy"}
        /\ UNCHANGED <<restore, restoreCb>> /\ RestoreCancelled'
    BY <1>4, <2>1 DEF DestroyDone, CloseMove, RestoreCancelled
  <2> QED BY <1>2, <2>2, CloseMoveKept
<1>5. CASE DrainEnds \/ HealthCheckTick \/ UNCHANGED vars
  <2>1. CloseMove /\ closeWaiters' \subseteq closeWaiters \cup {"destroy"}
    BY <1>1, <1>5 DEF CloseFacts, CloseMove, DrainEnds, HealthCheckTick, vars, closeVars
  <2>2. UNCHANGED <<restore, restoreCb>> /\ (RestoreCancelled => RestoreCancelled')
    BY <1>5 DEF DrainEnds, HealthCheckTick, vars, restoreVars, destroyVars, RestoreCancelled
  <2> QED BY <1>2, <2>1, <2>2, CloseMoveKept
<1> QED BY <1>3, <1>4, <1>5

\* The steps of a registration that publish nothing.
LEMMA RegistrationKeeps ==
    ASSUME ChannelInv, NEW a \in Actors, StartRegistration(a) \/ RegistrationStep(a),
           ~(Listened(a) /\ ~isDestroyed)
    PROVE  SubscriptionKept
<1>1. TypeOK
  BY DEF ChannelInv
<1>2. CASE RegistrationFails(a)
  <2>1. InFlight(a)
    BY DEF StartRegistration, RegistrationStep, Connected, ConnectFails, Listened,
           ListenFails, RegistrationClosed, InFlight
  <2> QED BY <1>2, <2>1, RegistrationFailsKeeps
<1>3. CASE ~RegistrationFails(a)
  <2>1. /\ InFlight(a)
        /\ \E s \in Working : reg' = [reg EXCEPT ![a] = s]
    BY <1>3 DEF StartRegistration, RegistrationStep, Connected, ConnectFails, Listened,
                ListenFails, RegistrationClosed, InFlight, Working
  <2>2. reg'[a] \in Working /\ \A b \in Actors \ {a} : reg'[b] = reg[b]
    BY <1>1, <2>1 DEF TypeOK
  <2>3. /\ UNCHANGED callback /\ UNCHANGED restoreVars /\ UNCHANGED closeVars
        /\ UNCHANGED destroyVars /\ UNCHANGED historyVars
    BY <1>3 DEF StartRegistration, RegistrationStep, Connected, ConnectFails, Listened,
                ListenFails, RegistrationClosed, clientVars
  <2> QED BY <1>1, <2>1, <2>2, <2>3, RegistrationGoesOn
<1> QED BY <1>2, <1>3

LEMMA SubscriptionStep == SubscriptionInv /\ [Next]_vars => SubscriptionInv'
<1> SUFFICES ASSUME SubscriptionInv, [Next]_vars PROVE SubscriptionInv'
  OBVIOUS
<1>1. ChannelInv /\ ChannelInv'
  BY ChannelStep DEF SubscriptionInv
<1>2. ASSUME SubscriptionKept PROVE SubscriptionInv'
  BY <1>1, <1>2, SubscriptionKeptStep
<1>3. CASE CloseDone
  BY <1>1, <1>2, <1>3, CloseDoneKeeps
<1>4. ASSUME NEW a \in Actors, StartRegistration(a) PROVE SubscriptionInv'
  <2>1. ~Listened(a)
    BY <1>4 DEF StartRegistration, Listened
  <2> QED BY <1>1, <1>2, <1>4, <2>1, RegistrationKeeps
<1>5. ASSUME NEW a \in Actors, Quiet, RegistrationStep(a) PROVE SubscriptionInv'
  <2>1. CASE Listened(a) /\ ~isDestroyed
    BY <1>1, <1>5, <2>1, ListenedSubscription
  <2>2. CASE ~(Listened(a) /\ ~isDestroyed)
    BY <1>1, <1>2, <1>5, <2>2, RegistrationKeeps
  <2> QED BY <2>1, <2>2
<1>6. CASE \/ Destroy \/ SecondPass \/ DestroyDone \/ DrainEnds \/ HealthCheckTick
           \/ UNCHANGED vars
  BY <1>1, <1>2, <1>6, DestroySubscription
<1>7. ASSUME NEW u \in Users, Listen(u) PROVE SubscriptionInv'
  BY <1>1, <1>7, ListenSubscription
<1>8. ASSUME NEW k \in Clients, ClientStep(k) PROVE SubscriptionInv'
  BY <1>1, <1>8, ClientSubscription
<1>9. CASE Unlisten \/ RetryDelayEnds
  BY <1>1, <1>9, UnlistenSubscription, RetryDelaySubscription
<1> QED BY <1>3, <1>4, <1>5, <1>6, <1>7, <1>8, <1>9 DEF Next

(***************************************************************************)
(* The inductive invariant of the subscriptions: what listenNotify,        *)
(* unlistenNotify and the restore loop leave behind for the call that      *)
(* follows.                                                                *)
(***************************************************************************)
THEOREM SubscriptionInvariant == Spec => []SubscriptionInv
<1>1. Init => SubscriptionInv
  BY InitSubscription
<1>2. SubscriptionInv /\ [Next]_vars => SubscriptionInv'
  BY SubscriptionStep
<1> QED BY <1>1, <1>2, PTL DEF Spec

(***************************************************************************)
(* unlistenNotify is final: once its close and the restores it cancelled   *)
(* are over the channel has no client, when listenNotify was called once   *)
(* and for every application whose calls do not overlap and whose          *)
(* unlistenNotify did not join the close of an older client.               *)
(***************************************************************************)
THEOREM UnlistenedForGood == Spec => []UnlistenIsFinal
<1>1. SubscriptionInv => UnlistenIsFinal
  <2> SUFFICES ASSUME SubscriptionInv, ListenedOnce \/ Undisturbed,
                      unlistened, restore = "none", closeState = "none"
               PROVE  pool = 0
    BY DEF UnlistenIsFinal, Unlistened, ListenedOnce
  <2>1. UnlistenedFacts /\ ListenedOnceFacts /\ UndisturbedFacts
    BY DEF SubscriptionInv
  <2>2. CASE ListenedOnce
    BY <2>1, <2>2 DEF ListenedOnceFacts
  <2>3. CASE Undisturbed
    BY <2>1, <2>3 DEF UnlistenedFacts, UndisturbedFacts
  <2> QED BY <2>2, <2>3
<1> QED BY <1>1, SubscriptionInvariant, PTL

(***************************************************************************)
(* The callback that listenNotify registered last is the one that the      *)
(* client of the channel calls, through every loss and restore: a restore  *)
(* that unlistenNotify cancelled cannot register an older one.             *)
(***************************************************************************)
THEOREM CallbacksKept == Spec => []CallbackKept
<1>1. SubscriptionInv => CallbackKept
  BY DEF SubscriptionInv, UndisturbedFacts, CallbackKept
<1> QED BY <1>1, SubscriptionInvariant, PTL

-----------------------------------------------------------------------------
(* The contract of dedicated connections.                                  *)

\* The client that the contract sees: the one in the pool, or the one of the
\* registration.
ClientSeen ==
    /\ ChannelClient \in Clients \cup {0}
    /\ pool # 0 => ChannelClient = pool
    /\ \A a \in Actors : regClient[a] # 0 => ChannelClient = regClient[a]
    /\ pool = 0 /\ (\A a \in Actors : regClient[a] = 0) => ChannelClient = 0
    /\ ChannelClient # 0 => Open(ChannelClient) /\ ChannelClient # closeClient

LEMMA OneOf == ASSUME NEW R, NEW k, R = {k} PROVE (CHOOSE j \in R : TRUE) = k
OBVIOUS

LEMMA ClientIsSeen == ASSUME ChannelInv PROVE ClientSeen
<1>1. TypeOK /\ RegFacts /\ ClientFacts
  BY DEF ChannelInv
<1>2. CASE pool # 0
  <2>1. \A a \in Actors : regClient[a] = 0
    BY <1>1, <1>2 DEF RegFacts, Working
  <2>2. ChannelClient = pool
    BY <1>2 DEF ChannelClient
  <2> QED BY <1>1, <1>2, <2>1, <2>2 DEF ClientSeen, TypeOK, ClientFacts
<1>3. CASE pool = 0 /\ \A a \in Actors : regClient[a] = 0
  <2>1. Registering = {}
    BY <1>3 DEF Registering
  <2>2. ChannelClient = 0
    BY <1>3, <2>1 DEF ChannelClient
  <2> QED BY <1>3, <2>2 DEF ClientSeen
<1>4. ASSUME pool = 0, NEW a \in Actors, regClient[a] # 0 PROVE ClientSeen
  <2>1. \A b \in Actors : regClient[b] # 0 => b = a
    BY <1>1, <1>4 DEF RegFacts, Working
  <2>2. Registering = {regClient[a]}
    BY <1>4, <2>1 DEF Registering
  <2>3. ChannelClient = regClient[a]
    BY <1>4, <2>2, OneOf DEF ChannelClient
  <2>4. regClient[a] \in Clients \cup {0}
    BY <1>1 DEF TypeOK
  <2> QED BY <1>1, <1>4, <2>1, <2>3, <2>4 DEF ClientSeen, ClientFacts
<1> QED BY <1>2, <1>3, <1>4

\* The same after a step.
LEMMA ClientIsSeenNext == ASSUME ChannelInv' PROVE ClientSeen'
<1>1. TypeOK' /\ RegFacts' /\ ClientFacts'
  BY DEF ChannelInv
<1>2. CASE pool' # 0
  <2>1. \A a \in Actors : regClient'[a] = 0
    BY <1>1, <1>2 DEF RegFacts, Working
  <2>2. ChannelClient' = pool'
    BY <1>2 DEF ChannelClient
  <2> QED BY <1>1, <1>2, <2>1, <2>2 DEF ClientSeen, TypeOK, ClientFacts
<1>3. CASE pool' = 0 /\ \A a \in Actors : regClient'[a] = 0
  <2>1. Registering' = {}
    BY <1>3 DEF Registering
  <2>2. ChannelClient' = 0
    BY <1>3, <2>1 DEF ChannelClient
  <2> QED BY <1>3, <2>2 DEF ClientSeen
<1>4. ASSUME pool' = 0, NEW a \in Actors, regClient'[a] # 0 PROVE ClientSeen'
  <2>1. \A b \in Actors : regClient'[b] # 0 => b = a
    BY <1>1, <1>4 DEF RegFacts, Working
  <2>2. Registering' = {regClient'[a]}
    BY <1>4, <2>1 DEF Registering
  <2>3. ChannelClient' = regClient'[a]
    BY <1>4, <2>2, OneOf DEF ChannelClient
  <2>4. regClient'[a] \in Clients \cup {0}
    BY <1>1 DEF TypeOK
  <2> QED BY <1>1, <1>4, <2>1, <2>3, <2>4 DEF ClientSeen, ClientFacts
<1> QED BY <1>2, <1>3, <1>4

\* A step that the contract does not see.
LEMMA ContractUnchanged ==
    ASSUME ChannelClient' = ChannelClient, pool' # 0 <=> pool # 0,
           \A k \in Clients : Open(k)' <=> Open(k), isDestroyed' = isDestroyed
    PROVE  UNCHANGED Contract!vars
<1>1. [ch \in {1} |-> ChannelClient]' = [ch \in {1} |-> ChannelClient]
  OBVIOUS
<1>2. {ch \in {1} : pool # 0}' = {ch \in {1} : pool # 0}
  OBVIOUS
<1>3. ({k \in Clients : Open(k)} \ {ChannelClient})' = {k \in Clients : Open(k)} \ {ChannelClient}
  OBVIOUS
<1> QED BY <1>1, <1>2, <1>3 DEF Contract!vars

\* The channel gives its client up (S is not empty), and the clients C close.
LEMMA ContractWithdraws ==
    ASSUME ClientSeen, NEW S \in SUBSET {1}, NEW C,
           ChannelClient' = IF S = {} THEN ChannelClient ELSE 0,
           pool' # 0 <=> pool # 0 /\ S = {},
           \A k \in Clients : Open(k)' <=> Open(k) /\ k \notin C,
           S = {} => ChannelClient \notin C
    PROVE  Contract!Withdraw(S, C)
<1>1. ChannelClient # 0 => ChannelClient \in Clients /\ Open(ChannelClient)
  BY DEF ClientSeen
<1>2. [ch \in {1} |-> ChannelClient]'
        = [ch \in {1} |-> IF ch \in S THEN 0 ELSE [c \in {1} |-> ChannelClient][ch]]
  OBVIOUS
<1>3. {ch \in {1} : pool # 0}' = {ch \in {1} : pool # 0} \ S
  OBVIOUS
<1>4. ({k \in Clients : Open(k)} \ {ChannelClient})'
        = (({k \in Clients : Open(k)} \ {ChannelClient})
             \cup ({[c \in {1} |-> ChannelClient][ch] : ch \in S} \ {0})) \ C
  <2>1. CASE S = {}
    BY <2>1
  <2>2. CASE S = {1}
    <3>1. {[c \in {1} |-> ChannelClient][ch] : ch \in S} = {ChannelClient}
      BY <2>2
    <3> QED BY <1>1, <2>2, <3>1, ZeroIsNoClient
  <2> QED BY <2>1, <2>2
<1> QED BY <1>2, <1>3, <1>4 DEF Contract!Withdraw

\* The channel may give up its client; it closes none and publishes none.
Retracts == \E S \in SUBSET {1} : Contract!Withdraw(S, {})

LEMMA RetractIsClose ==
    ASSUME Retracts, isDestroyed' = isDestroyed
    PROVE  Contract!Close
<1>1. PICK S \in SUBSET {1} : Contract!Withdraw(S, {})
  BY DEF Retracts
<1>2. \A T : {} \in SUBSET T
  OBVIOUS
<1> QED BY <1>1, <1>2 DEF Contract!Close

LEMMA CloseMoveRetracts ==
    ASSUME ChannelInv, ChannelInv', CloseMove, UNCHANGED regVars,
           \A k \in Clients : Open(k)' <=> Open(k)
    PROVE  Retracts
<1>1. ClientSeen /\ ClientSeen'
  BY ClientIsSeen, ClientIsSeenNext
<1>2. TypeOK /\ RegFacts
  BY DEF ChannelInv
<1>3. \A a \in Actors : regClient'[a] = regClient[a]
  BY DEF regVars
<1>4. CASE pool' = pool
  <2>1. ChannelClient' = ChannelClient
    BY <1>3, <1>4 DEF ChannelClient, Registering, regVars
  <2>2. Contract!Withdraw({}, {})
    BY <1>1, <1>4, <2>1, ContractWithdraws
  <2> QED BY <2>2 DEF Retracts
<1>5. CASE pool' = 0 /\ pool # 0
  <2>1. \A a \in Actors : regClient'[a] = 0
    BY <1>2, <1>3, <1>5 DEF RegFacts, Working
  <2>2. ChannelClient' = 0
    BY <1>1, <1>5, <2>1 DEF ClientSeen
  <2>3. Contract!Withdraw({1}, {})
    BY <1>1, <1>5, <2>2, ContractWithdraws
  <2> QED BY <2>3 DEF Retracts
<1> QED BY <1>4, <1>5 DEF CloseMove

\* A registration that moves on, or fails before it has a client.
LEMMA RegistrationUnseen ==
    ASSUME UNCHANGED regClient, pool' = pool,
           \A k \in Clients : Open(k)' <=> Open(k), isDestroyed' = isDestroyed
    PROVE  UNCHANGED Contract!vars
<1>1. ChannelClient' = ChannelClient
  BY DEF ChannelClient, Registering
<1> QED BY <1>1, ContractUnchanged

LEMMA FailsWithoutClient ==
    ASSUME TypeOK, RegFacts, NEW a \in Actors, reg[a] \in {"queued", "connecting"},
           RegistrationFails(a)
    PROVE  UNCHANGED <<regClient, pool, isDestroyed>>
<1>1. regClient[a] = 0
  BY DEF RegFacts
<1>2. regClient' = [regClient EXCEPT ![a] = 0]
  BY DEF RegistrationFails
<1>3. regClient' = regClient
  BY <1>1, <1>2 DEF TypeOK
<1> QED BY <1>3 DEF RegistrationFails, closeVars, destroyVars

\* A client that has connected: the channel had none.
LEMMA ConnectedOpens ==
    ASSUME ChannelInv, ChannelInv', NEW a \in Actors, Connected(a)
    PROVE  Contract!Next
<1>1. ClientSeen /\ ClientSeen'
  BY ClientIsSeen, ClientIsSeenNext
<1>2. TypeOK /\ RegFacts
  BY DEF ChannelInv
<1>3. PICK k \in Clients :
         /\ client[k] = "none"
         /\ client' = [client EXCEPT ![k] = "live"]
         /\ regClient' = [regClient EXCEPT ![a] = k]
  BY DEF Connected
<1>4. reg[a] = "connecting" /\ pool' = pool /\ isDestroyed' = isDestroyed
  BY DEF Connected, closeVars, destroyVars
<1>5. pool = 0 /\ \A b \in Actors : regClient[b] = 0
  BY <1>2, <1>4 DEF RegFacts, Working
<1>6. ChannelClient = 0
  BY <1>1, <1>5 DEF ClientSeen
<1>7. ChannelClient' = k /\ k # 0
  BY <1>1, <1>2, <1>3, ZeroIsNoClient DEF ClientSeen, TypeOK
<1>8. \A j \in Clients : Open(j)' <=> Open(j) \/ j = k
  BY <1>2, <1>3 DEF Open, TypeOK
<1>9. ~Open(k)
  BY <1>3 DEF Open
<1>10. Contract!Open(1, k)
  <2>1. [ch \in {1} |-> ChannelClient]' = [[ch \in {1} |-> ChannelClient] EXCEPT ![1] = k]
    BY <1>7
  <2>2. {ch \in {1} : pool # 0}' = {ch \in {1} : pool # 0}
    BY <1>4
  <2>3. ({j \in Clients : Open(j)} \ {ChannelClient})' = {j \in Clients : Open(j)} \ {ChannelClient}
    BY <1>6, <1>7, <1>8, <1>9, ZeroIsNoClient
  <2>4. [ch \in {1} |-> ChannelClient][1] = 0 /\ k \notin {j \in Clients : Open(j)} \ {ChannelClient}
    BY <1>6, <1>9
  <2>5. \A ch \in {1} : k # [c \in {1} |-> ChannelClient][ch]
    BY <1>6, <1>7
  <2> QED BY <1>4, <2>1, <2>2, <2>3, <2>4, <2>5 DEF Contract!Open
<1> QED BY <1>3, <1>10 DEF Contract!Next

\* LISTEN is answered: the client of the registration is published, or given up
\* by a restore that was cancelled meanwhile.
LEMMA ListenedPublishes ==
    ASSUME ChannelInv, ChannelInv', Quiet, NEW a \in Actors, Listened(a), ~isDestroyed
    PROVE  Contract!Next
<1>1. ClientSeen /\ ClientSeen'
  BY ClientIsSeen, ClientIsSeenNext
<1>2. /\ regClient[a] # 0 /\ regClient[a] \in Clients /\ pool = 0
      /\ \A b \in Actors : regClient'[b] = 0
      /\ client' = client /\ isDestroyed' = isDestroyed
      /\ pool' = regClient[a] \/ pool' = 0
  BY ListenedMoves DEF destroyVars
<1>3. ChannelClient = regClient[a]
  BY <1>1, <1>2 DEF ClientSeen
<1>4. \A k \in Clients : Open(k)' <=> Open(k)
  BY <1>2 DEF Open
<1>5. CASE pool' = regClient[a]
  <2>1. ChannelClient' = ChannelClient
    BY <1>1, <1>2, <1>3, <1>5 DEF ClientSeen
  <2>2. [ch \in {1} |-> ChannelClient]' = [ch \in {1} |-> ChannelClient]
    BY <2>1
  <2>3. {ch \in {1} : pool # 0}' = {ch \in {1} : pool # 0} \cup {1}
    BY <1>2, <1>5
  <2>4. ({k \in Clients : Open(k)} \ {ChannelClient})' = {k \in Clients : Open(k)} \ {ChannelClient}
    BY <1>4, <2>1
  <2>5. [ch \in {1} |-> ChannelClient][1] # 0 /\ 1 \notin {ch \in {1} : pool # 0}
    BY <1>2, <1>3
  <2>6. Contract!Publish(1)
    BY <1>2, <2>2, <2>3, <2>4, <2>5 DEF Contract!Publish
  <2> QED BY <2>6 DEF Contract!Next
<1>6. CASE pool' = 0
  <2>1. ChannelClient' = 0
    BY <1>1, <1>2, <1>6 DEF ClientSeen
  <2>2. Contract!Withdraw({1}, {})
    BY <1>1, <1>2, <1>4, <1>6, <2>1, ContractWithdraws
  <2>3. Contract!Close
    BY <1>2, <2>2, RetractIsClose DEF Retracts
  <2> QED BY <2>3 DEF Contract!Next
<1> QED BY <1>2, <1>5, <1>6

\* The client of a failed registration is closed without having been published.
LEMMA RegistrationClosedCloses ==
    ASSUME ChannelInv, ChannelInv', NEW a \in Actors, RegistrationClosed(a)
    PROVE  Contract!Next
<1>1. ClientSeen /\ ClientSeen'
  BY ClientIsSeen, ClientIsSeenNext
<1>2. TypeOK /\ RegFacts
  BY DEF ChannelInv
<1>3. reg[a] = "closing" /\ client' = [client EXCEPT ![regClient[a]] = "none"]
      /\ RegistrationFails(a)
  BY DEF RegistrationClosed
<1>4. regClient[a] # 0 /\ regClient[a] \in Clients /\ pool = 0
      /\ \A b \in Actors \ {a} : regClient[b] = 0
  BY <1>2, <1>3 DEF RegFacts, Working, TypeOK
<1>5. /\ \A b \in Actors : regClient'[b] = 0
      /\ pool' = 0 /\ isDestroyed' = isDestroyed
  BY <1>2, <1>3, <1>4, RegistrationFailsMoves DEF closeVars, destroyVars
<1>6. ChannelClient = regClient[a] /\ ChannelClient' = 0
  BY <1>1, <1>4, <1>5 DEF ClientSeen
<1>7. \A k \in Clients : Open(k)' <=> Open(k) /\ k \notin {ChannelClient}
  BY <1>2, <1>3, <1>4, <1>6 DEF Open, TypeOK
<1>8. Contract!Withdraw({1}, {ChannelClient})
  BY <1>1, <1>4, <1>5, <1>6, <1>7, ContractWithdraws
<1>9. ChannelClient \in
        {[c \in {1} |-> ChannelClient][ch] : ch \in {1} \ {c \in {1} : pool # 0}}
  BY <1>4
<1>10. Contract!Close
  BY <1>5, <1>8, <1>9 DEF Contract!Close
<1> QED BY <1>10 DEF Contract!Next

\* A close ends: its client was taken out of the pool before.
LEMMA CloseDoneCloses ==
    ASSUME ChannelInv, ChannelInv', CloseDone
    PROVE  Contract!Next
<1>1. ClientSeen /\ ClientSeen'
  BY ClientIsSeen, ClientIsSeenNext
<1>2. TypeOK /\ ClientFacts
  BY DEF ChannelInv
<1>3. /\ \A k \in Clients : Open(k)' <=> Open(k) /\ k # closeClient
      /\ pool' = pool /\ regClient' = regClient /\ isDestroyed' = isDestroyed
  BY CloseDoneMoves DEF destroyVars
<1>4. ChannelClient' = ChannelClient
  BY <1>3 DEF ChannelClient, Registering
<1> DEFINE C == {closeClient} \ {0}
<1>5. \A k \in Clients : Open(k)' <=> Open(k) /\ k \notin C
  BY <1>3, ZeroIsNoClient
<1>6. ChannelClient \notin C
  BY <1>1 DEF ClientSeen
<1>7. Contract!Withdraw({}, C)
  <2> HIDE DEF C
  <2> QED BY <1>1, <1>3, <1>4, <1>5, <1>6, ContractWithdraws
<1>8. C \subseteq {k \in Clients : Open(k)} \ {ChannelClient}
  BY <1>2, <1>6 DEF TypeOK, ClientFacts
<1>9. Contract!Close
  <2> HIDE DEF C
  <2> QED BY <1>3, <1>7, <1>8 DEF Contract!Close
<1> QED BY <1>9 DEF Contract!Next

LEMMA DestroyDestroys ==
    ASSUME ChannelInv, ChannelInv', Destroy
    PROVE  Contract!Next
<1>1. CloseFacts
  BY DEF ChannelInv
<1>2. ~isDestroyed /\ isDestroyed' = TRUE /\ UNCHANGED clientVars /\ UNCHANGED regVars
  BY DEF Destroy
<1>3. CloseMove
  <2>1. CASE pool # 0
    BY <1>1, <2>1, CloseChannelMoves DEF Destroy
  <2>2. CASE pool = 0
    BY <2>2 DEF Destroy, closeVars, CloseMove
  <2> QED BY <2>1, <2>2
<1>4. \A k \in Clients : Open(k)' <=> Open(k)
  BY <1>2 DEF clientVars, Open
<1>5. Retracts
  BY <1>2, <1>3, <1>4, CloseMoveRetracts
<1>6. Contract!Destroy
  BY <1>2, <1>5 DEF Contract!Destroy, Retracts
<1> QED BY <1>6 DEF Contract!Next

\* The steps that at most begin a phase of a close.
LEMMA CloseStepRetracts ==
    ASSUME ChannelInv, ChannelInv',
           \/ Unlisten \/ DrainEnds \/ RetryDelayEnds \/ SecondPass \/ DestroyDone
           \/ \E k \in Clients : ClientStep(k)
    PROVE  Contract!Next
<1>1. TypeOK /\ CloseFacts /\ DestroyFacts
  BY DEF ChannelInv
<1>2. UNCHANGED regVars /\ isDestroyed' = isDestroyed
  BY DEF Unlisten, DrainEnds, RetryDelayEnds, SecondPass, DestroyDone, ClientStep,
         ClientDies, LossReported, ProbeSucceeds, ProbeFails, destroyVars
<1>3. \A k \in Clients : Open(k)' <=> Open(k)
  <2>1. CASE UNCHANGED clientVars
    BY <2>1 DEF clientVars, Open
  <2>2. ASSUME NEW k \in Clients, ClientStep(k)
        PROVE  \A j \in Clients : Open(j)' <=> Open(j)
    BY <1>1, <2>2 DEF ClientStep, ClientDies, LossReported, ProbeSucceeds, ProbeFails,
                      clientVars, Open, TypeOK
  <2> QED BY <2>1, <2>2 DEF Unlisten, DrainEnds, RetryDelayEnds, SecondPass, DestroyDone
<1>4. CloseMove
  <2>1. CASE Unlisten
    BY <1>1, <2>1, CloseChannelMoves DEF Unlisten
  <2>2. CASE DrainEnds
    BY <1>1, <2>2 DEF DrainEnds, CloseMove, CloseFacts
  <2>3. CASE RetryDelayEnds
    BY <1>1, <2>3, CloseChannelMoves DEF RetryDelayEnds, Attempt
  <2>4. CASE SecondPass
    BY <1>1, <2>4, CloseChannelMoves DEF SecondPass, closeVars, CloseMove
  <2>5. CASE DestroyDone
    BY <1>1, <2>5 DEF DestroyDone, DestroyFacts, CloseMove
  <2>6. ASSUME NEW k \in Clients, ClientStep(k) PROVE CloseMove
    <3>1. CASE UNCHANGED closeVars
      BY <3>1 DEF closeVars, CloseMove
    <3>2. CASE StartRestore(callback[k])
      BY <1>1, <3>1, <3>2, CloseChannelMoves DEF StartRestore, Attempt, closeVars
    <3> QED BY <2>6, <3>1, <3>2
            DEF ClientStep, ClientDies, LossReported, ProbeSucceeds, ProbeFails
  <2> QED BY <2>1, <2>2, <2>3, <2>4, <2>5, <2>6
<1>5. Contract!Close
  BY <1>2, <1>3, <1>4, CloseMoveRetracts, RetractIsClose
<1> QED BY <1>5 DEF Contract!Next

\* Every step of the channel is one of the contract, or is not seen by it.
LEMMA ContractStep ==
    ASSUME ChannelInv, ChannelInv', [Next]_vars
    PROVE  [Contract!Next]_(Contract!vars)
<1>1. TypeOK /\ RegFacts
  BY DEF ChannelInv
<1>2. CASE UNCHANGED vars \/ HealthCheckTick \/ \E u \in Users : Listen(u)
  <2>1. /\ UNCHANGED <<regClient, pool, isDestroyed>>
        /\ \A k \in Clients : Open(k)' <=> Open(k)
    BY <1>2 DEF vars, HealthCheckTick, Listen, clientVars, regVars, closeVars, destroyVars, Open
  <2> QED BY <2>1, RegistrationUnseen
<1>3. ASSUME NEW a \in Actors, StartRegistration(a) PROVE UNCHANGED Contract!vars
  <2>1. \A k \in Clients : Open(k)' <=> Open(k)
    BY <1>3 DEF StartRegistration, clientVars, Open
  <2>2. CASE RegistrationFails(a)
    BY <1>1, <1>3, <2>1, <2>2, FailsWithoutClient, RegistrationUnseen DEF StartRegistration
  <2>3. CASE UNCHANGED <<regClient, pool, isDestroyed>>
    BY <2>1, <2>3, RegistrationUnseen
  <2> QED BY <1>3, <2>2, <2>3 DEF StartRegistration, closeVars, destroyVars
<1>4. ASSUME NEW a \in Actors, ConnectFails(a) PROVE UNCHANGED Contract!vars
  <2>1. /\ \A k \in Clients : Open(k)' <=> Open(k)
        /\ reg[a] = "connecting" /\ RegistrationFails(a)
    BY <1>4 DEF ConnectFails, Open
  <2> QED BY <1>1, <2>1, FailsWithoutClient, RegistrationUnseen
<1>5. ASSUME NEW a \in Actors, ListenFails(a) \/ (Listened(a) /\ isDestroyed)
      PROVE  UNCHANGED Contract!vars
  <2>1. /\ UNCHANGED <<regClient, pool, isDestroyed>>
        /\ \A k \in Clients : Open(k)' <=> Open(k)
    BY <1>5 DEF ListenFails, Listened, clientVars, closeVars, destroyVars, Open
  <2> QED BY <2>1, RegistrationUnseen
<1>6. ASSUME NEW a \in Actors, Quiet, RegistrationStep(a)
      PROVE  Contract!Next \/ UNCHANGED Contract!vars
  BY <1>4, <1>5, <1>6, ConnectedOpens, ListenedPublishes, RegistrationClosedCloses
     DEF RegistrationStep
<1> QED
  BY <1>2, <1>3, <1>6, CloseDoneCloses, DestroyDestroys, CloseStepRetracts DEF Next

(***************************************************************************)
(* PostgreNotify keeps what DatabaseNotify promises of dedicated           *)
(* connections: whatever the interleaving, the channel gets a client only  *)
(* when it has none, publishes it once and never after destroy() began,    *)
(* and closes it only after it was taken out of notificationPool.          *)
(***************************************************************************)
THEOREM ChannelImplementsContract == Spec => ImplementsContract
<1>1. Init => Contract!Init
  <2> SUFFICES ASSUME Init PROVE Contract!Init
    OBVIOUS
  <2>1. ChannelClient = 0 /\ {ch \in {1} : pool # 0} = {} /\ ~isDestroyed
    BY DEF Init, ChannelClient, Registering
  <2>2. {k \in Clients : Open(k)} = {}
    BY DEF Init, Open
  <2> QED BY <2>1, <2>2 DEF Contract!Init, Init
<1>2. ChannelInv /\ ChannelInv' /\ [Next]_vars => [Contract!Next]_(Contract!vars)
  BY ContractStep
<1> QED BY <1>1, <1>2, ChannelInvariant, PTL DEF Spec, ImplementsContract, Contract!Spec

=============================================================================
