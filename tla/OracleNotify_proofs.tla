------------------------- MODULE OracleNotify_proofs -------------------------
(***************************************************************************)
(* The safety of the Oracle notification adapter, for every number of      *)
(* operations, connections, messages and faults.                           *)
(***************************************************************************)
EXTENDS OracleNotify, TLAPS

-----------------------------------------------------------------------------
(* The inductive invariant.                                                *)

\* Nothing has happened yet on a channel that was not registered.
Untouched(ch) ==
    /\ ch \notin closed
    /\ pool[ch] = None
    /\ close[ch] = "none"
    /\ restore[ch] = "none"
    /\ queue[ch] = <<>>
    /\ handling[ch] = "none"

(***************************************************************************)
(* A registration works through the channels in order, and when it is      *)
(* undone every channel before the current one is closed or on its way.    *)
(***************************************************************************)
RegFacts ==
    /\ \A ch \in Channels : reg # "ok" /\ ch >= regNext => Untouched(ch)
    /\ reg = "undoing" =>
         \A ch \in Channels : ch < regNext => ch \in closed \/ close[ch] # "none"
    /\ reg = "failed" => \A ch \in Channels : ch < regNext => ch \in closed

(***************************************************************************)
(* From the moment that a close takes the connection, nothing waits in the *)
(* queue.  From the moment that it begins, a restore that is still under   *)
(* way knows that it is cancelled, unless it began while the close drained *)
(* the queue.                                                              *)
(***************************************************************************)
CloseFact(ch) ==
    ch \notin late =>
        /\ close[ch] = "closing" \/ ch \in closed => pool[ch] = None /\ queue[ch] = <<>>
        /\ close[ch] # "none" \/ ch \in closed =>
              (restore[ch] # "none" => IsNotificationRestoreCancelled(ch))

CloseFacts == \A ch \in Channels : CloseFact(ch)

ClosedInv == TypeOK /\ RegFacts /\ CloseFacts

-----------------------------------------------------------------------------

LEMMA TypeInit == Init => TypeOK
BY ConstantsAssumption DEF Init, TypeOK, Channels

\* The types of what a close changes.
LEMMA PerformCloseTypes ==
    ASSUME TypeOK, NEW S \in SUBSET Channels,
           NEW before \in [Channels -> {"none", "draining", "closing"}],
           PerformClose(S, before)
    PROVE  /\ pool' \in [Channels -> Conns \cup {None}]
           /\ closeConn' \in [Channels -> Conns \cup {None}]
           /\ close' \in [Channels -> {"none", "draining", "closing"}]
           /\ closed' \subseteq Channels
           /\ queue' \in [Channels -> Seq({"change", "dereg"})]
<1>1. pool' \in [Channels -> Conns \cup {None}]
  BY DEF TypeOK, PerformClose
<1>2. closeConn' \in [Channels -> Conns \cup {None}]
  BY DEF TypeOK, PerformClose
<1>3. close' \in [Channels -> {"none", "draining", "closing"}]
  BY DEF TypeOK, PerformClose
<1>4. closed' \subseteq Channels
  BY DEF TypeOK, PerformClose
<1>5. queue' \in [Channels -> Seq({"change", "dereg"})]
  BY DEF TypeOK, PerformClose
<1> QED BY <1>1, <1>2, <1>3, <1>4, <1>5

LEMMA CloseTypes ==
    ASSUME TypeOK, NEW S \in SUBSET Channels, CloseSubscriptions(S)
    PROVE  /\ pool' \in [Channels -> Conns \cup {None}]
           /\ closeConn' \in [Channels -> Conns \cup {None}]
           /\ close' \in [Channels -> {"none", "draining", "closing"}]
           /\ closed' \subseteq Channels
           /\ queue' \in [Channels -> Seq({"change", "dereg"})]
           /\ cancelled' \in [Channels -> BOOLEAN]
<1> DEFINE begun == {ch \in S : close[ch] = "none"}
           idle == {ch \in begun : ~Busy(ch)}
           before == [ch \in Channels |->
                        IF ch \in begun THEN "draining" ELSE close[ch]]
<1>1. PerformClose(idle, before)
  BY DEF CloseSubscriptions
<1>2. before \in [Channels -> {"none", "draining", "closing"}]
  BY DEF TypeOK
<1>3. idle \in SUBSET Channels
  OBVIOUS
<1>4. cancelled' = [ch \in Channels |-> IF ch \in idle THEN restore[ch] # "none"
                                         ELSE cancelled[ch] \/ ch \in S]
  BY DEF CloseSubscriptions
<1>5. cancelled' \in [Channels -> BOOLEAN]
  BY <1>4 DEF TypeOK
<1> HIDE DEF begun, idle, before
<1> QED BY <1>1, <1>2, <1>3, <1>5, PerformCloseTypes

LEMMA CancelTypes ==
    ASSUME TypeOK, NEW S, CancelRetryDelay(S)
    PROVE  restore' \in [Channels -> {"none", "attempt", "closing", "connecting",
                                      "subscribing", "reclosing", "delay"}]
BY DEF TypeOK, CancelRetryDelay

\* The types of what the end or the next place of a restore changes.
LEMMA EndTypes ==
    ASSUME TypeOK, NEW ch \in Channels,
           NEW place \in {"attempt", "closing", "connecting", "subscribing",
                          "reclosing", "delay"},
           EndRestore(ch) \/ GoOn(ch, place) \/ Onward(ch, place)
    PROVE  /\ restore' \in [Channels -> {"none", "attempt", "closing", "connecting",
                                         "subscribing", "reclosing", "delay"}]
           /\ cancelled' \in [Channels -> BOOLEAN]
           /\ handling' \in [Channels -> {"none", "callback", "restore"}]
           /\ late' \subseteq Channels
<1>1. CASE EndRestore(ch)
  <2>1. restore' \in [Channels -> {"none", "attempt", "closing", "connecting",
                                    "subscribing", "reclosing", "delay"}]
    BY <1>1 DEF TypeOK, EndRestore
  <2>2. cancelled' \in [Channels -> BOOLEAN]
    BY <1>1 DEF TypeOK, EndRestore
  <2>3. handling' \in [Channels -> {"none", "callback", "restore"}]
    BY <1>1 DEF TypeOK, EndRestore
  <2>4. late' \subseteq Channels
    BY <1>1 DEF TypeOK, EndRestore
  <2> QED BY <2>1, <2>2, <2>3, <2>4
<1>2. CASE GoOn(ch, place)
  BY <1>2 DEF TypeOK, GoOn
<1> QED BY <1>1, <1>2 DEF Onward

LEMMA Fresh == TypeOK /\ open # Conns => FreshConn \in Conns \ open
<1> SUFFICES ASSUME TypeOK, open # Conns PROVE \E c \in Conns \ open : TRUE
  BY DEF FreshConn
<1> QED BY DEF TypeOK

LEMMA EarlierChannels == TypeOK => Earlier \in SUBSET Channels
BY ConstantsAssumption DEF TypeOK, Earlier, Channels

LEMMA TypeStep == TypeOK /\ [Next]_vars => TypeOK'
<1> SUFFICES ASSUME TypeOK, [Next]_vars PROVE TypeOK'
  OBVIOUS
<1>1. CASE UNCHANGED vars
  BY <1>1 DEF TypeOK, vars
<1>2. CASE Listen
  BY <1>2 DEF TypeOK, Listen, restVars, closeVars, queueVars, boundVars
<1>3. CASE Unlisten
  BY <1>3, CloseTypes, CancelTypes DEF TypeOK, Unlisten, regVars, boundVars
<1>4. CASE Destroy
  BY <1>4, CloseTypes, CancelTypes DEF TypeOK, Destroy, Subscribing, regVars, boundVars
<1>5. CASE SecondPass
  BY <1>5, CloseTypes, CancelTypes DEF TypeOK, SecondPass, Subscribing, regVars, boundVars
<1>6. CASE DestroyDone
  BY <1>6 DEF TypeOK, DestroyDone, regVars, restVars, closeVars, queueVars, boundVars
<1>7. CASE ConnectFails
  BY <1>7, CloseTypes, CancelTypes, EarlierChannels, ConstantsAssumption DEF TypeOK, ConnectFails, UndoRegistration, Fails
<1>8. CASE SubscribeFails
  BY <1>8, CloseTypes, CancelTypes, EarlierChannels, ConstantsAssumption DEF TypeOK, SubscribeFails, UndoRegistration, Fails
<1>9. CASE Connected
  BY <1>9, CloseTypes, CancelTypes, EarlierChannels DEF TypeOK, Connected, UndoRegistration, FreshConn, closeVars, boundVars
<1>10. CASE Subscribed
  <2>1. regNext' \in Channels
    BY <1>10, ConstantsAssumption DEF TypeOK, Subscribed, Channels
  <2>2. CASE Destroyed
    BY <1>10, <2>1, <2>2, CloseTypes, CancelTypes, EarlierChannels
       DEF TypeOK, Subscribed, UndoRegistration, boundVars
  <2>3. CASE ~Destroyed
    <3>1. pool' \in [Channels -> Conns \cup {None}]
      BY <1>10, <2>3 DEF TypeOK, Subscribed
    <3>2. reg' \in {"ok", "connecting"} /\ regConn' = None
      BY <1>10, <2>3 DEF Subscribed
    <3> QED
      BY <1>10, <2>1, <2>3, <3>1, <3>2 DEF TypeOK, Subscribed, closeVars, boundVars
  <2> QED BY <2>2, <2>3
<1>11. CASE RegistrationRejected
  BY <1>11 DEF TypeOK, RegistrationRejected, restVars, closeVars, queueVars, boundVars
<1>12. ASSUME NEW ch \in Channels, Drained(ch) \/ DrainTimesOut(ch) PROVE TypeOK'
  <2>1. CloseContinues(ch) /\ close \in [Channels -> {"none", "draining", "closing"}]
    BY <1>12 DEF TypeOK, Drained, DrainTimesOut
  <2>2. /\ pool' \in [Channels -> Conns \cup {None}]
        /\ closeConn' \in [Channels -> Conns \cup {None}]
        /\ close' \in [Channels -> {"none", "draining", "closing"}]
        /\ closed' \subseteq Channels
        /\ queue' \in [Channels -> Seq({"change", "dereg"})]
    BY <2>1, PerformCloseTypes DEF CloseContinues
  <2>3. cancelled' \in [Channels -> BOOLEAN]
    BY <2>1 DEF TypeOK, CloseContinues
  <2>4. handling' \in [Channels -> {"none", "callback", "restore"}]
    BY <2>1 DEF TypeOK, CloseContinues, CompleteNotificationQueueClose
  <2> QED BY <2>1, <2>2, <2>3, <2>4
          DEF TypeOK, CloseContinues, regVars, restVars, boundVars
<1>13. ASSUME NEW ch \in Channels, CloseDone(ch) PROVE TypeOK'
  BY <1>13 DEF TypeOK, CloseDone, CompleteNotificationQueueClose, regVars, restVars, boundVars
<1>14. ASSUME NEW ch \in Channels, Message(ch, "change") \/ Message(ch, "dereg") PROVE TypeOK'
  <2>1. queue' \in [Channels -> Seq({"change", "dereg"})]
    <3>1. \A kind \in {"change", "dereg"} :
            Append(queue[ch], kind) \in Seq({"change", "dereg"})
      BY DEF TypeOK
    <3> QED BY <1>14, <3>1 DEF TypeOK, Message
  <2>2. messages' \in 0..MaxMessages
    BY <1>14, ConstantsAssumption DEF TypeOK, Message
  <2> QED
    BY <1>14, <2>1, <2>2 DEF TypeOK, Message, regVars, restVars, closeVars
<1>15. ASSUME NEW ch \in Channels, Process(ch) PROVE TypeOK'
  <2>1. queue' \in [Channels -> Seq({"change", "dereg"})]
    BY <1>15 DEF TypeOK, Process
  <2>2. restore' \in [Channels -> {"none", "attempt", "closing", "connecting",
                                    "subscribing", "reclosing", "delay"}]
    <3>1. restore' = restore \/ restore' = [restore EXCEPT ![ch] = "attempt"]
      BY <1>15 DEF Process, RestoreNotification
    <3> QED BY <3>1 DEF TypeOK
  <2>3. handling' \in [Channels -> {"none", "callback", "restore"}]
    BY <1>15 DEF TypeOK, Process
  <2>4. late' \subseteq Channels
    BY <1>15 DEF TypeOK, Process, RestoreNotification
  <2> QED
    BY <1>15, <2>1, <2>2, <2>3, <2>4 DEF TypeOK, Process, regVars, closeVars, boundVars
<1>16. ASSUME NEW ch \in Channels, CallbackDone(ch) PROVE TypeOK'
  BY <1>16 DEF TypeOK, CallbackDone, regVars, restVars, closeVars, boundVars
<1>17. ASSUME NEW ch \in Channels, CheckFails(ch) PROVE TypeOK'
  BY <1>17, ConstantsAssumption DEF TypeOK, CheckFails, Fails, RestoreNotification, regVars, closeVars, queueVars
<1>18. ASSUME NEW ch \in Channels, Attempt(ch) PROVE TypeOK'
  <2>1. pool' \in [Channels -> Conns \cup {None}]
    BY <1>18 DEF TypeOK, Attempt
  <2>3. restConn' \in [Channels -> Conns \cup {None}]
    BY <1>18 DEF TypeOK, Attempt
  <2>4. queue' \in [Channels -> Seq({"change", "dereg"})]
    <3>1. queue' = queue \/ queue' = [queue EXCEPT ![ch] = <<>>]
      BY <1>18 DEF Attempt
    <3>2. <<>> \in Seq({"change", "dereg"})
      OBVIOUS
    <3>3. queue \in [Channels -> Seq({"change", "dereg"})]
      BY DEF TypeOK
    <3> QED BY <3>1, <3>2, <3>3
  <2>2. Onward(ch, "connecting") \/ GoOn(ch, "closing")
    BY <1>18 DEF Attempt
  <2> QED
    BY <1>18, <2>1, <2>2, <2>3, <2>4, EndTypes DEF TypeOK, Attempt, regVars, closeVars, boundVars
<1>19. ASSUME NEW ch \in Channels, RestoreClosed(ch) PROVE TypeOK'
  BY <1>19, EndTypes DEF TypeOK, RestoreClosed, regVars, closeVars, boundVars
<1>20. ASSUME NEW ch \in Channels, RestoreConnected(ch) PROVE TypeOK'
  <2>1. open' \subseteq Conns /\ restConn' \in [Channels -> Conns \cup {None}]
    BY <1>20, Fresh DEF TypeOK, RestoreConnected
  <2>2. EndRestore(ch) \/ GoOn(ch, "subscribing")
    BY <1>20 DEF RestoreConnected
  <2> QED
    BY <1>20, <2>1, <2>2, EndTypes DEF TypeOK, RestoreConnected, regVars, closeVars, boundVars
<1>21. ASSUME NEW ch \in Channels, RestoreSubscribed(ch) PROVE TypeOK'
  BY <1>21, EndTypes DEF TypeOK, RestoreSubscribed, regVars, closeVars, boundVars
<1>22. ASSUME NEW ch \in Channels, RestoreFails(ch) PROVE TypeOK'
  BY <1>22, EndTypes, ConstantsAssumption DEF TypeOK, RestoreFails, Fails, regVars, closeVars
<1>23. ASSUME NEW ch \in Channels, DelayEnds(ch) PROVE TypeOK'
  BY <1>23, EndTypes DEF TypeOK, DelayEnds, regVars, closeVars, boundVars
<1> QED
  BY <1>1, <1>2, <1>3, <1>4, <1>5, <1>6, <1>7, <1>8, <1>9, <1>10, <1>11, <1>12, <1>13, <1>14, <1>15, <1>16, <1>17, <1>18, <1>19, <1>20, <1>21, <1>22, <1>23
     DEF Next, CallStep, ChannelStep

-----------------------------------------------------------------------------
(* What is closed stays closed.                                            *)

LEMMA InitClosed == Init => ClosedInv
<1> SUFFICES ASSUME Init PROVE ClosedInv
  OBVIOUS
<1>1. TypeOK
  BY TypeInit
<1>2. RegFacts
  BY DEF Init, RegFacts, Untouched
<1>3. CloseFacts
  BY DEF Init, CloseFacts, CloseFact
<1> QED BY <1>1, <1>2, <1>3 DEF ClosedInv

\* What unlistenNotify does to one channel.
LEMMA CloseOne ==
    ASSUME TypeOK, NEW S \in SUBSET Channels, CloseSubscriptions(S), NEW ch \in Channels
    PROVE  \/ /\ ch \in S /\ close[ch] = "none"
              /\ pool'[ch] = None /\ queue'[ch] = <<>>
              /\ cancelled'[ch] = (restore[ch] # "none")
              /\ IF pool[ch] = None THEN ch \in closed' /\ close'[ch] = "none"
                 ELSE close'[ch] = "closing" /\ (ch \in closed' <=> ch \in closed)
           \/ /\ pool'[ch] = pool[ch] /\ queue'[ch] = queue[ch]
              /\ cancelled[ch] => cancelled'[ch]
              /\ ch \in closed' <=> ch \in closed
              /\ IF ch \in S /\ close[ch] = "none" THEN close'[ch] = "draining"
                 ELSE close'[ch] = close[ch]
              /\ IF ch \in S THEN cancelled'[ch] ELSE cancelled'[ch] = cancelled[ch]
<1> DEFINE begun == {c \in S : close[c] = "none"}
           idle == {c \in begun : ~Busy(c)}
           before == [c \in Channels |-> IF c \in begun THEN "draining" ELSE close[c]]
<1>1. PerformClose(idle, before)
  BY DEF CloseSubscriptions
<1>2. cancelled' = [c \in Channels |-> IF c \in idle THEN restore[c] # "none"
                                        ELSE cancelled[c] \/ c \in S]
  BY DEF CloseSubscriptions
<1>3. CASE ch \in idle
  <2>1. ch \in S /\ close[ch] = "none"
    BY <1>3
  <2>2. pool'[ch] = None /\ queue'[ch] = <<>>
    BY <1>1, <1>3 DEF PerformClose
  <2>3. cancelled'[ch] = (restore[ch] # "none")
    BY <1>2, <1>3
  <2>4. IF pool[ch] = None THEN ch \in closed' /\ close'[ch] = "none"
        ELSE close'[ch] = "closing" /\ (ch \in closed' <=> ch \in closed)
    BY <1>1, <1>3 DEF PerformClose
  <2> QED BY <2>1, <2>2, <2>3, <2>4
<1>4. CASE ch \notin idle
  <2>1. pool'[ch] = pool[ch] /\ queue'[ch] = queue[ch]
    BY <1>1, <1>4 DEF PerformClose, TypeOK
  <2>2. cancelled'[ch] = (cancelled[ch] \/ ch \in S)
    BY <1>2, <1>4
  <2>3. cancelled[ch] \in BOOLEAN
    BY DEF TypeOK
  <2>4. ch \in closed' <=> ch \in closed
    BY <1>1, <1>4 DEF PerformClose
  <2>5. close'[ch] = before[ch]
    BY <1>1, <1>4 DEF PerformClose
  <2>6. IF ch \in S /\ close[ch] = "none" THEN close'[ch] = "draining"
        ELSE close'[ch] = close[ch]
    BY <2>5
  <2> HIDE DEF begun, idle, before
  <2>7. /\ cancelled[ch] => cancelled'[ch]
        /\ IF ch \in S THEN cancelled'[ch] ELSE cancelled'[ch] = cancelled[ch]
    BY <2>2, <2>3
  <2> QED BY <2>1, <2>4, <2>6, <2>7
<1> QED BY <1>3, <1>4

\* The facts of a channel after a call of unlistenNotify for some channels.
LEMMA CloseFactsKept ==
    ASSUME TypeOK, CloseFacts, NEW S \in SUBSET Channels, CloseSubscriptions(S),
           NEW T, CancelRetryDelay(T), Destroyed => Destroyed', late' = late
    PROVE  /\ CloseFacts'
           /\ \A ch \in S : ch \in closed' \/ close'[ch] # "none"
           /\ \A ch \in Channels \ S : Untouched(ch) /\ handling' = handling => Untouched(ch)'
<1>1. \A ch \in Channels : restore'[ch] # "none" <=> restore[ch] # "none"
  BY DEF CancelRetryDelay
<1>2. ASSUME NEW ch \in Channels PROVE CloseFact(ch)'
  <2>1. CloseFact(ch)
    BY DEF CloseFacts, CloseFact
  <2>2. restore'[ch] # "none" <=> restore[ch] # "none"
    BY <1>1
  <2> QED
    BY <2>1, <2>2, CloseOne
       DEF CloseFact, IsNotificationRestoreCancelled
<1>3. ASSUME NEW ch \in S PROVE ch \in closed' \/ close'[ch] # "none"
  BY CloseOne
<1>4. ASSUME NEW ch \in Channels \ S, Untouched(ch), handling' = handling
      PROVE  Untouched(ch)'
  BY <1>1, <1>4, CloseOne DEF Untouched
<1> QED BY <1>2, <1>3, <1>4 DEF CloseFacts, CloseFact

\* An operation that fails leaves the later channels as they are.
LEMMA UndoFacts ==
    ASSUME ClosedInv, reg # "ok", UndoRegistration, Destroyed => Destroyed',
           handling' = handling, regNext' = regNext, late' = late
    PROVE  RegFacts' /\ CloseFacts'
<1>1. TypeOK /\ RegFacts /\ CloseFacts
  BY DEF ClosedInv
<1>2. Earlier \in SUBSET Channels
  BY <1>1, EarlierChannels
<1>3. /\ CloseFacts'
      /\ \A ch \in Earlier : ch \in closed' \/ close'[ch] # "none"
      /\ \A ch \in Channels \ Earlier : Untouched(ch) => Untouched(ch)'
  BY <1>1, <1>2, CloseFactsKept DEF UndoRegistration
<1>4. \A ch \in Channels : ch \in Earlier <=> ch < regNext
  BY <1>1, ConstantsAssumption DEF TypeOK, Earlier, Channels
<1>5. \A ch \in Channels : ch >= regNext => ~(ch < regNext)
  BY <1>1, ConstantsAssumption DEF TypeOK, Channels
<1>6. reg' = "undoing"
  BY DEF UndoRegistration
<1>7. \A ch \in Channels : ch >= regNext => Untouched(ch)'
  BY <1>1, <1>3, <1>4, <1>5 DEF RegFacts
<1> QED BY <1>3, <1>4, <1>6, <1>7 DEF RegFacts

\* A close that waited for the queue goes on.
LEMMA ContinueFacts ==
    ASSUME ClosedInv, NEW ch \in Channels, close[ch] = "draining", CloseContinues(ch)
    PROVE  RegFacts' /\ CloseFacts'
<1>1. TypeOK /\ RegFacts /\ CloseFacts
  BY DEF ClosedInv
<1>2. \A c \in Channels \ {ch} :
         /\ pool'[c] = pool[c] /\ queue'[c] = queue[c] /\ close'[c] = close[c]
         /\ cancelled'[c] = cancelled[c] /\ handling'[c] = handling[c]
         /\ c \in closed' <=> c \in closed
  BY <1>1 DEF CloseContinues, CompleteNotificationQueueClose, PerformClose, TypeOK
<1>3. /\ pool'[ch] = None /\ queue'[ch] = <<>>
      /\ restore[ch] # "none" => (cancelled'[ch] <=> cancelled[ch])
      /\ ch \in closed' \/ close'[ch] = "closing"
  BY <1>1 DEF CloseContinues, PerformClose, TypeOK
<1>4. restore' = restore /\ destroy' = destroy /\ late' = late
      /\ reg' = reg /\ regNext' = regNext /\ closed \subseteq closed'
  BY DEF CloseContinues, PerformClose, restVars, regVars
<1>5. ASSUME NEW c \in Channels PROVE CloseFact(c)'
  <2>1. CASE c = ch
    BY <1>1, <1>3, <1>4, <2>1
       DEF CloseFacts, CloseFact, IsNotificationRestoreCancelled, Destroyed
  <2>2. CASE c # ch
    BY <1>1, <1>2, <1>4, <2>2
       DEF CloseFacts, CloseFact, IsNotificationRestoreCancelled, Destroyed
  <2> QED BY <2>1, <2>2
<1>6. \A c \in Channels : Untouched(c) => Untouched(c)'
  BY <1>2, <1>4 DEF Untouched
<1>7. \A c \in Channels : c \in closed \/ close[c] # "none" =>
                           c \in closed' \/ close'[c] # "none"
  BY <1>2, <1>3, <1>4
<1> QED BY <1>1, <1>4, <1>5, <1>6, <1>7 DEF RegFacts, CloseFacts

\* A step of a channel that takes nothing out of a close and forgets no
\* cancellation that a restore still has to see.
LEMMA ChannelFacts ==
    ASSUME ClosedInv, NEW ch \in Channels, ~Untouched(ch),
           \A c \in Channels \ {ch} :
              /\ pool'[c] = pool[c] /\ queue'[c] = queue[c] /\ close'[c] = close[c]
              /\ cancelled'[c] = cancelled[c] /\ restore'[c] = restore[c]
              /\ handling'[c] = handling[c] /\ (c \in closed' <=> c \in closed)
              /\ c \in late' <=> c \in late,
           reg' = reg, regNext' = regNext, destroy' = destroy,
           CloseFact(ch)',
           ch \in closed => ch \in closed',
           close[ch] # "none" => ch \in closed' \/ close'[ch] # "none"
    PROVE  RegFacts' /\ CloseFacts'
<1>1. RegFacts /\ CloseFacts
  BY DEF ClosedInv
<1>2. ASSUME NEW c \in Channels PROVE CloseFact(c)'
  BY <1>1 DEF CloseFacts, CloseFact, IsNotificationRestoreCancelled, Destroyed
<1>3. \A c \in Channels : Untouched(c) => Untouched(c)'
  BY DEF Untouched
<1>4. \A c \in Channels : c \in closed \/ close[c] # "none" =>
                           c \in closed' \/ close'[c] # "none"
  OBVIOUS
<1> QED BY <1>1, <1>2, <1>3, <1>4 DEF RegFacts, CloseFacts, CloseFact

\* What a restore does when it ends or goes on.
LEMMA OnwardFacts ==
    ASSUME ClosedInv, NEW ch \in Channels,
           NEW place \in {"attempt", "closing", "connecting", "subscribing",
                          "reclosing", "delay"},
           restore[ch] # "none",
           EndRestore(ch) \/ GoOn(ch, place) \/ Onward(ch, place),
           destroy' = destroy
    PROVE  /\ \A c \in Channels \ {ch} :
                 /\ cancelled'[c] = cancelled[c] /\ restore'[c] = restore[c]
                 /\ handling'[c] = handling[c]
                 /\ c \in late' <=> c \in late
           /\ restore'[ch] # "none" => cancelled'[ch] = cancelled[ch] /\ late' = late
           /\ \/ ch \in late' <=> ch \in late
              \/ restore'[ch] = "none" /\ close[ch] = "draining" /\ ch \notin closed
           /\ ~Untouched(ch)
<1>1. TypeOK
  BY DEF ClosedInv
<1>2. CASE EndRestore(ch)
  BY <1>1, <1>2 DEF TypeOK, EndRestore, Untouched
<1>3. CASE GoOn(ch, place)
  BY <1>1, <1>3 DEF TypeOK, GoOn, Untouched
<1> QED BY <1>2, <1>3 DEF Onward

LEMMA ClosedStep == ClosedInv /\ [Next]_vars => ClosedInv'
<1> SUFFICES ASSUME ClosedInv, [Next]_vars PROVE ClosedInv'
  OBVIOUS
<1>a. TypeOK /\ RegFacts /\ CloseFacts
  BY DEF ClosedInv
<1>b. TypeOK'
  BY <1>a, TypeStep
<1>c. \A ch \in Channels : CloseFact(ch)
  BY <1>a DEF CloseFacts, CloseFact
<1>d. SUFFICES RegFacts' /\ CloseFacts'
  BY <1>b DEF ClosedInv
<1>1. CASE UNCHANGED vars
  BY <1>1, <1>a DEF vars, RegFacts, CloseFacts, CloseFact, Untouched,
     IsNotificationRestoreCancelled, Destroyed
<1>2. CASE Listen
  BY <1>2, <1>a DEF Listen, RegFacts, CloseFacts, CloseFact, Untouched,
     IsNotificationRestoreCancelled, Destroyed, restVars, closeVars, queueVars
<1>3. CASE Unlisten
  <2>1. CloseFacts'
    BY <1>3, <1>a, CloseFactsKept DEF Unlisten, Destroyed
  <2>2. reg' = "ok"
    BY <1>3 DEF Unlisten, regVars
  <2> QED BY <2>1, <2>2 DEF RegFacts
<1>4. ASSUME CloseSubscriptions(Subscribing),
             CancelRetryDelay(Channels) \/ CancelRetryDelay(Subscribing),
             Destroyed', handling' = handling, reg' = reg, regNext' = regNext,
             late' = late
      PROVE  RegFacts' /\ CloseFacts'
  <2>1. Subscribing \in SUBSET Channels
    BY DEF Subscribing
  <2>2. /\ CloseFacts'
        /\ \A ch \in Channels \ Subscribing : Untouched(ch) => Untouched(ch)'
    BY <1>4, <1>a, <2>1, CloseFactsKept
  <2>3. \A ch \in Channels : Untouched(ch) => Untouched(ch)'
    BY <2>2 DEF Subscribing, Untouched
  <2>4. \A ch \in Channels : ch \in closed \/ close[ch] # "none" =>
                              ch \in closed' \/ close'[ch] # "none"
    BY <1>4, <1>a, <2>1, CloseOne
  <2>5. \A ch \in Channels : ch \in closed => ch \in closed'
    BY <1>4, <1>a, <2>1, CloseOne
  <2> QED BY <1>4, <1>a, <2>2, <2>3, <2>4, <2>5 DEF RegFacts
<1>5. CASE Destroy
  BY <1>4, <1>5 DEF Destroy, Destroyed, regVars
<1>6. CASE SecondPass
  BY <1>4, <1>6 DEF SecondPass, Destroyed, regVars
<1>7. CASE DestroyDone
  <2>1. \A ch \in Channels : pool'[ch] = None
    BY <1>7 DEF DestroyDone
  <2> QED
    BY <1>7, <1>a, <2>1 DEF DestroyDone, RegFacts, CloseFacts, CloseFact, Untouched,
       IsNotificationRestoreCancelled, Destroyed, regVars, restVars, closeVars, queueVars
<1>8. CASE ConnectFails
  BY <1>8, UndoFacts DEF ConnectFails, Destroyed
<1>9. CASE SubscribeFails
  BY <1>9, UndoFacts DEF SubscribeFails, Destroyed
<1>10. CASE Connected
  <2>1. CASE Destroyed
    BY <1>10, <2>1, UndoFacts DEF Connected, Destroyed
  <2>2. CASE ~Destroyed
    BY <1>10, <2>2, <1>a DEF Connected, RegFacts, CloseFacts, CloseFact, Untouched,
       IsNotificationRestoreCancelled, Destroyed, closeVars
  <2> QED BY <2>1, <2>2
<1>11. CASE Subscribed
  <2>1. CASE Destroyed
    BY <1>11, <2>1, UndoFacts DEF Subscribed, Destroyed
  <2>2. CASE ~Destroyed
    <3>1. Untouched(regNext)
      BY <1>11, <1>a, ConstantsAssumption DEF Subscribed, RegFacts, TypeOK, Channels
    <3>2. /\ \A ch \in Channels \ {regNext} : pool'[ch] = pool[ch]
          /\ closed' = closed /\ close' = close /\ restore' = restore
          /\ queue' = queue /\ handling' = handling /\ cancelled' = cancelled
          /\ destroy' = destroy /\ late' = late
      BY <1>11, <1>a, <2>2 DEF Subscribed, TypeOK, closeVars
    <3>3. CloseFacts'
      BY <1>a, <3>1, <3>2
         DEF CloseFacts, CloseFact, Untouched, IsNotificationRestoreCancelled, Destroyed
    <3>4. \/ reg' = "ok"
          \/ reg' = "connecting" /\ regNext' = regNext + 1
      BY <1>11, <2>2 DEF Subscribed
    <3>5. reg' = "connecting" =>
            \A ch \in Channels : ch >= regNext' => ch # regNext /\ ch >= regNext
      BY <1>a, <3>4, ConstantsAssumption DEF TypeOK, Channels
    <3>6. reg' = "connecting" => \A ch \in Channels : ch >= regNext' => Untouched(ch)'
      <4> SUFFICES ASSUME reg' = "connecting", NEW ch \in Channels, ch >= regNext'
                   PROVE  Untouched(ch)'
        OBVIOUS
      <4>1. ch # regNext /\ ch >= regNext
        BY <3>5
      <4>2. Untouched(ch)
        BY <1>11, <1>a, <4>1 DEF RegFacts, Subscribed
      <4> QED BY <3>2, <4>1, <4>2 DEF Untouched
    <3> QED BY <3>3, <3>4, <3>6 DEF RegFacts
  <2> QED BY <2>1, <2>2
<1>12. CASE RegistrationRejected
  BY <1>12, <1>a, ConstantsAssumption
     DEF RegistrationRejected, RegFacts, CloseFacts, CloseFact, Untouched, Earlier, Channels, TypeOK,
         IsNotificationRestoreCancelled, Destroyed, restVars, closeVars, queueVars
<1>13. ASSUME NEW ch \in Channels, Drained(ch) \/ DrainTimesOut(ch)
       PROVE  RegFacts' /\ CloseFacts'
  BY <1>13, ContinueFacts DEF Drained, DrainTimesOut
<1>14. ASSUME NEW ch \in Channels, CloseDone(ch) PROVE RegFacts' /\ CloseFacts'
  <2>1. ~Untouched(ch) /\ CloseFact(ch)'
    BY <1>14, <1>c DEF CloseDone, Untouched, CloseFact, IsNotificationRestoreCancelled,
       Destroyed, restVars
  <2>2. \A c \in Channels \ {ch} : /\ close'[c] = close[c] /\ handling'[c] = handling[c]
                                   /\ c \in closed' <=> c \in closed
    BY <1>14, <1>a DEF CloseDone, CompleteNotificationQueueClose, TypeOK
  <2>3. ch \in closed'
    BY <1>14 DEF CloseDone
  <2> QED
    BY <1>14, <2>1, <2>2, <2>3, ChannelFacts DEF CloseDone, restVars, regVars
<1>15. ASSUME NEW ch \in Channels, Message(ch, "change") \/ Message(ch, "dereg")
       PROVE  RegFacts' /\ CloseFacts'
  <2>1. ~Untouched(ch) /\ CloseFact(ch)'
    BY <1>15, <1>c DEF Message, Untouched, CloseFact, closeVars
  <2>2. \A c \in Channels \ {ch} : queue'[c] = queue[c]
    BY <1>15, <1>a DEF Message, TypeOK
  <2> QED
    BY <1>15, <2>1, <2>2, ChannelFacts DEF Message, restVars, regVars, closeVars
<1>16. ASSUME NEW ch \in Channels, Process(ch) PROVE RegFacts' /\ CloseFacts'
  <2>1. queue[ch] # <<>> /\ ~Untouched(ch)
    BY <1>16 DEF Process, Untouched
  <2>a. CloseFact(ch) /\ close[ch] \in {"none", "draining", "closing"}
    BY <1>a, <1>c DEF TypeOK
  <2>2. ch \in late \/ (ch \notin closed /\ close[ch] \in {"none", "draining"})
    BY <2>a, <2>1 DEF CloseFact
  <2>3. /\ \A c \in Channels \ {ch} : restore'[c] = restore[c] /\ (c \in late' <=> c \in late)
        /\ ch \in late => ch \in late'
        /\ \/ restore' = restore
           \/ restore[ch] = "none" /\ (close[ch] = "draining" => ch \in late')
    BY <1>16, <1>a DEF Process, RestoreNotification, TypeOK
  <2>4. UNCHANGED <<pool, cancelled, close, destroy, closed, reg, regNext>>
    BY <1>16 DEF Process, regVars, closeVars
  <2>5. CloseFact(ch)'
    BY <1>c, <2>2, <2>3, <2>4 DEF CloseFact, IsNotificationRestoreCancelled, Destroyed
  <2>6. \A c \in Channels \ {ch} : queue'[c] = queue[c] /\ handling'[c] = handling[c]
    BY <1>16, <1>a DEF Process, TypeOK
  <2> QED
    BY <2>1, <2>3, <2>4, <2>5, <2>6, ChannelFacts
<1>17. ASSUME NEW ch \in Channels, CallbackDone(ch) PROVE RegFacts' /\ CloseFacts'
  <2>1. ~Untouched(ch) /\ CloseFact(ch)'
    BY <1>17, <1>c DEF CallbackDone, Untouched, CloseFact, IsNotificationRestoreCancelled,
       Destroyed, restVars, closeVars
  <2>2. \A c \in Channels \ {ch} : handling'[c] = handling[c]
    BY <1>17, <1>a DEF CallbackDone, TypeOK
  <2> QED
    BY <1>17, <2>1, <2>2, ChannelFacts DEF CallbackDone, restVars, regVars, closeVars
<1>18. ASSUME NEW ch \in Channels, CheckFails(ch) PROVE RegFacts' /\ CloseFacts'
  <2>1. pool[ch] # None /\ ~Untouched(ch)
    BY <1>18 DEF CheckFails, Untouched
  <2>a. CloseFact(ch) /\ close[ch] \in {"none", "draining", "closing"}
    BY <1>a, <1>c DEF TypeOK
  <2>2. ch \in late \/ (ch \notin closed /\ close[ch] \in {"none", "draining"})
    BY <2>a, <2>1 DEF CloseFact
  <2>3. /\ \A c \in Channels \ {ch} : restore'[c] = restore[c] /\ (c \in late' <=> c \in late)
        /\ ch \in late => ch \in late'
        /\ \/ restore' = restore
           \/ restore[ch] = "none" /\ (close[ch] = "draining" => ch \in late')
    BY <1>18, <1>a DEF CheckFails, RestoreNotification, TypeOK
  <2>4. UNCHANGED <<pool, cancelled, close, destroy, closed, reg, regNext, queue, handling>>
    BY <1>18 DEF CheckFails, regVars, closeVars, queueVars
  <2>5. CloseFact(ch)'
    BY <1>c, <2>2, <2>3, <2>4 DEF CloseFact, IsNotificationRestoreCancelled, Destroyed
  <2> QED
    BY <2>1, <2>3, <2>4, <2>5, ChannelFacts
<1>19. ASSUME NEW ch \in Channels, Attempt(ch) PROVE RegFacts' /\ CloseFacts'
  <2>1. Onward(ch, "connecting") \/ GoOn(ch, "closing")
    BY <1>19 DEF Attempt
  <2>2. restore[ch] # "none" /\ destroy' = destroy
    BY <1>19 DEF Attempt
  <2>3. /\ \A c \in Channels \ {ch} :
              /\ cancelled'[c] = cancelled[c] /\ restore'[c] = restore[c]
              /\ handling'[c] = handling[c]
              /\ c \in late' <=> c \in late
        /\ restore'[ch] # "none" => cancelled'[ch] = cancelled[ch] /\ late' = late
        /\ \/ ch \in late' <=> ch \in late
           \/ restore'[ch] = "none" /\ close[ch] = "draining" /\ ch \notin closed
        /\ ~Untouched(ch)
    BY <1>a, <2>1, <2>2, OnwardFacts DEF ClosedInv
  <2>4. /\ \A c \in Channels \ {ch} : pool'[c] = pool[c] /\ queue'[c] = queue[c]
        /\ pool'[ch] \in {pool[ch], None} /\ queue'[ch] \in {queue[ch], <<>>}
    BY <1>19, <1>a DEF Attempt, TypeOK
  <2>5. CloseFact(ch)'
    BY <1>19, <1>c, <2>2, <2>3, <2>4
       DEF CloseFact, Attempt, closeVars, IsNotificationRestoreCancelled, Destroyed
  <2> QED
    BY <1>19, <2>2, <2>3, <2>4, <2>5, ChannelFacts DEF Attempt, regVars, closeVars
<1>20. ASSUME NEW ch \in Channels,
              RestoreClosed(ch) \/ RestoreConnected(ch) \/ RestoreFails(ch) \/ DelayEnds(ch)
       PROVE  RegFacts' /\ CloseFacts'
  <2>1. \E place \in {"attempt", "connecting", "subscribing", "delay"} :
          EndRestore(ch) \/ GoOn(ch, place) \/ Onward(ch, place)
    BY <1>20 DEF RestoreClosed, RestoreConnected, RestoreFails, DelayEnds
  <2>2. /\ restore[ch] # "none" /\ destroy' = destroy /\ pool' = pool
        /\ queue' = queue /\ close' = close /\ closed' = closed
        /\ reg' = reg /\ regNext' = regNext
    BY <1>20 DEF RestoreClosed, RestoreConnected, RestoreFails, DelayEnds, regVars, closeVars
  <2>3. /\ \A c \in Channels \ {ch} :
              /\ cancelled'[c] = cancelled[c] /\ restore'[c] = restore[c]
              /\ handling'[c] = handling[c]
              /\ c \in late' <=> c \in late
        /\ restore'[ch] # "none" => cancelled'[ch] = cancelled[ch] /\ late' = late
        /\ \/ ch \in late' <=> ch \in late
           \/ restore'[ch] = "none" /\ close[ch] = "draining" /\ ch \notin closed
        /\ ~Untouched(ch)
    BY <1>a, <2>1, <2>2, OnwardFacts DEF ClosedInv
  <2>4. CloseFact(ch)'
    BY <1>c, <2>2, <2>3 DEF CloseFact, IsNotificationRestoreCancelled, Destroyed
  <2> QED
    BY <2>2, <2>3, <2>4, ChannelFacts
<1>21. ASSUME NEW ch \in Channels, RestoreSubscribed(ch) PROVE RegFacts' /\ CloseFacts'
  <2>1. EndRestore(ch) \/ GoOn(ch, "reclosing")
    BY <1>21 DEF RestoreSubscribed
  <2>2. /\ restore[ch] # "none" /\ destroy' = destroy
        /\ queue' = queue /\ close' = close /\ closed' = closed
        /\ reg' = reg /\ regNext' = regNext
    BY <1>21 DEF RestoreSubscribed, regVars, closeVars
  <2>3. /\ \A c \in Channels \ {ch} :
              /\ cancelled'[c] = cancelled[c] /\ restore'[c] = restore[c]
              /\ handling'[c] = handling[c]
              /\ c \in late' <=> c \in late
        /\ restore'[ch] # "none" => cancelled'[ch] = cancelled[ch] /\ late' = late
        /\ \/ ch \in late' <=> ch \in late
           \/ restore'[ch] = "none" /\ close[ch] = "draining" /\ ch \notin closed
        /\ ~Untouched(ch)
    BY <1>a, <2>1, <2>2, OnwardFacts DEF ClosedInv
  <2>4. /\ \A c \in Channels \ {ch} : pool'[c] = pool[c]
        /\ pool'[ch] = pool[ch] \/ ~IsNotificationRestoreCancelled(ch)
    BY <1>21, <1>a DEF RestoreSubscribed, TypeOK, IsNotificationRestoreCancelled
  <2>5. CloseFact(ch)'
    BY <1>c, <2>2, <2>3, <2>4 DEF CloseFact, IsNotificationRestoreCancelled, Destroyed
  <2> QED
    BY <2>2, <2>3, <2>4, <2>5, ChannelFacts
<1> QED
  BY <1>1, <1>2, <1>3, <1>5, <1>6, <1>7, <1>8, <1>9, <1>10, <1>11, <1>12, <1>13, <1>14,
     <1>15, <1>16, <1>17, <1>18, <1>19, <1>20, <1>21
     DEF Next, CallStep, ChannelStep

-----------------------------------------------------------------------------

(***************************************************************************)
(* Every variable keeps the shape that its code gives it: the pool and the *)
(* restore and close states of each channel, the queue of its messages and *)
(* the history kept beside them.                                           *)
(***************************************************************************)
THEOREM OracleTypeCorrect == Spec => []TypeOK
<1>1. Init => TypeOK
  BY TypeInit
<1>2. TypeOK /\ [Next]_vars => TypeOK'
  BY TypeStep
<1> QED BY <1>1, <1>2, PTL DEF Spec

(***************************************************************************)
(* The inductive invariant: a registration works through the channels in   *)
(* order, and a close that took the connection leaves nothing that could   *)
(* bring the subscription back, except a restore that began while it       *)
(* drained the queue.                                                      *)
(***************************************************************************)
THEOREM ClosedInvariant == Spec => []ClosedInv
<1>1. Init => ClosedInv
  BY InitClosed
<1>2. ClosedInv /\ [Next]_vars => ClosedInv'
  BY ClosedStep
<1> QED BY <1>1, <1>2, PTL DEF Spec

(***************************************************************************)
(* A subscription that was closed does not come back, whatever restore was *)
(* under way when the close began, and a listenNotify that rejects leaves  *)
(* none behind: unlistenNotify, restoreSubscription and the catch of       *)
(* listenNotify agree on the cancellation.  A channel whose restore began  *)
(* while its close drained the queue, and outlived that, is excepted: its  *)
(* restore is not cancelled (database-notify.ts:279 and :301).             *)
(***************************************************************************)
THEOREM ClosedSubscriptionsStayClosed == Spec => []ClosedIsFinal
<1>1. ClosedInv => ClosedIsFinal
  <2> SUFFICES ASSUME ClosedInv PROVE ClosedIsFinal
    OBVIOUS
  <2>1. TypeOK /\ RegFacts /\ CloseFacts
    BY DEF ClosedInv
  <2>2. reg = "failed" => \A ch \in Channels \ late : pool[ch] = None
    <3> SUFFICES ASSUME reg = "failed", NEW ch \in Channels \ late PROVE pool[ch] = None
      OBVIOUS
    <3>1. ch < regNext \/ ch >= regNext
      BY <2>1, ConstantsAssumption DEF TypeOK, Channels
    <3> QED BY <2>1, <3>1 DEF RegFacts, CloseFacts, CloseFact, Untouched
  <2>3. \A ch \in closed : ch \in Channels
    BY <2>1 DEF TypeOK
  <2> QED BY <2>1, <2>2, <2>3 DEF ClosedIsFinal, CloseFacts, CloseFact, Subscribing
<1> QED BY <1>1, ClosedInvariant, PTL

-----------------------------------------------------------------------------
(* Every connection has one owner.                                         *)

\* A place of the connection c.
Held(c) ==
    \/ \E ch \in Channels : c \in {pool[ch], closeConn[ch], restConn[ch]}
    \/ c = regConn

OpenFacts == \A c \in Conns : c \in open <=> Held(c)

\* A close, a restore and a registration hold a connection exactly while
\* they are at a place where they have to give it back, and a restore has
\* taken the old one out of the pool before it opens another.
HolderFacts ==
    /\ \A ch \in Channels :
         /\ closeConn[ch] # None <=> close[ch] = "closing"
         /\ restConn[ch] # None <=> restore[ch] \in {"closing", "subscribing", "reclosing"}
         /\ restore[ch] \notin {"none", "attempt"} => pool[ch] = None
    /\ regConn # None <=> reg = "subscribing"

\* No connection has two owners.
OwnerFacts ==
    \A ch, other \in Channels :
        /\ pool[ch] # None =>
             /\ pool[ch] \notin {closeConn[other], restConn[other], regConn}
             /\ ch # other => pool[ch] # pool[other]
        /\ closeConn[ch] # None =>
             /\ closeConn[ch] \notin {restConn[other], regConn}
             /\ ch # other => closeConn[ch] # closeConn[other]
        /\ restConn[ch] # None =>
             /\ restConn[ch] # regConn
             /\ ch # other => restConn[ch] # restConn[other]

\* The second look of destroy() leaves in the pool what a close is draining.
DestroyFacts ==
    /\ destroy = "second" =>
         \A ch \in Channels : pool[ch] # None => close[ch] = "draining"
    /\ destroy = "done" => \A ch \in Channels : pool[ch] = None

ConnFacts == OpenFacts /\ HolderFacts /\ OwnerFacts /\ DestroyFacts

ConnInv == ClosedInv /\ ConnFacts

LEMMA InitConn == Init => ConnInv
<1> SUFFICES ASSUME Init PROVE ConnFacts
  BY InitClosed DEF ConnInv
<1>1. OpenFacts
  BY ConstantsAssumption DEF Init, OpenFacts, Held
<1>2. HolderFacts /\ OwnerFacts /\ DestroyFacts
  BY DEF Init, HolderFacts, OwnerFacts, DestroyFacts
<1> QED BY <1>1, <1>2 DEF ConnFacts

\* Connections that a close takes from the pool have the same channel, and
\* a registration may give its own back meanwhile.
LEMMA MoveFacts ==
    ASSUME ConnInv, restConn' = restConn,
           \/ regConn' = regConn /\ open' = open
           \/ regConn' = None /\ open' = open \ {regConn},
           \A ch \in Channels :
              \/ pool'[ch] = pool[ch] /\ closeConn'[ch] = closeConn[ch]
              \/ pool'[ch] = None /\ closeConn'[ch] = pool[ch] /\ closeConn[ch] = None
    PROVE  OpenFacts' /\ OwnerFacts'
<1>1. OpenFacts /\ OwnerFacts /\ TypeOK
  BY DEF ConnInv, ConnFacts, ClosedInv
<1>2. ASSUME NEW ch \in Channels, NEW other \in Channels
      PROVE  /\ pool'[ch] # None =>
                  /\ pool'[ch] \notin {closeConn'[other], restConn'[other], regConn'}
                  /\ ch # other => pool'[ch] # pool'[other]
             /\ closeConn'[ch] # None =>
                  /\ closeConn'[ch] \notin {restConn'[other], regConn'}
                  /\ ch # other => closeConn'[ch] # closeConn'[other]
             /\ restConn'[ch] # None =>
                  /\ restConn'[ch] # regConn'
                  /\ ch # other => restConn'[ch] # restConn'[other]
  BY <1>1 DEF OwnerFacts
<1>3. ASSUME NEW c \in Conns PROVE c \in open' <=> Held(c)'
  <2>1. c # None
    BY ConstantsAssumption
  <2>2. (\E ch \in Channels : c \in {pool'[ch], closeConn'[ch]})
          <=> (\E ch \in Channels : c \in {pool[ch], closeConn[ch]})
    BY <2>1
  <2>3. Held(c)' <=> /\ Held(c)
                     /\ c = regConn => regConn' # None
    <3>1. CASE c # regConn
      BY <2>1, <2>2, <3>1 DEF Held
    <3>2. CASE c = regConn
      <4>1. \A ch \in Channels : c \notin {pool[ch], closeConn[ch], restConn[ch]}
        BY <1>1, <2>1, <3>2 DEF OwnerFacts
      <4> QED BY <2>1, <2>2, <3>2, <4>1 DEF Held
    <3> QED BY <3>1, <3>2
  <2> QED BY <1>1, <2>1, <2>3 DEF OpenFacts
<1> QED BY <1>2, <1>3 DEF OpenFacts, OwnerFacts

\* What unlistenNotify does to the connection of one channel.
LEMMA CloseOneConn ==
    ASSUME TypeOK, HolderFacts, NEW S \in SUBSET Channels, CloseSubscriptions(S),
           NEW ch \in Channels
    PROVE  /\ \/ pool'[ch] = pool[ch] /\ closeConn'[ch] = closeConn[ch]
              \/ pool'[ch] = None /\ closeConn'[ch] = pool[ch] /\ closeConn[ch] = None
           /\ closeConn'[ch] # None <=> close'[ch] = "closing"
           /\ ch \in S /\ close[ch] = "none" /\ pool'[ch] # None => close'[ch] = "draining"
           /\ close[ch] = "draining" => close'[ch] = "draining"
<1> DEFINE begun == {c \in S : close[c] = "none"}
           idle == {c \in begun : ~Busy(c)}
           before == [c \in Channels |-> IF c \in begun THEN "draining" ELSE close[c]]
<1>1. PerformClose(idle, before)
  BY DEF CloseSubscriptions
<1>2. CASE ch \in idle
  <2>1. close[ch] = "none" /\ closeConn[ch] = None
    BY <1>2 DEF HolderFacts
  <2>2. /\ pool'[ch] = None /\ closeConn'[ch] = pool[ch]
        /\ close'[ch] = IF pool[ch] = None THEN "none" ELSE "closing"
    BY <1>1, <1>2 DEF PerformClose
  <2> HIDE DEF begun, idle, before
  <2> QED BY <2>1, <2>2
<1>3. CASE ch \notin idle
  <2>1. pool'[ch] = pool[ch] /\ closeConn'[ch] = closeConn[ch] /\ close'[ch] = before[ch]
    BY <1>1, <1>3 DEF PerformClose, TypeOK
  <2>2. before[ch] = IF ch \in S /\ close[ch] = "none" THEN "draining" ELSE close[ch]
    OBVIOUS
  <2> HIDE DEF begun, idle, before
  <2> QED BY <2>1, <2>2 DEF HolderFacts
<1> QED BY <1>2, <1>3

\* destroy() looks into the pool again only when no close is under way.
DestroyMoves(S) ==
    \/ destroy' = destroy
    \/ destroy' = "first"
    \/ destroy' = "second" /\ S = Subscribing /\ \A ch \in Channels : close[ch] = "none"

\* A registration keeps its connection or closes it.
RegMoves ==
    \/ regConn' = regConn /\ open' = open
    \/ regConn' = None /\ open' = open \ {regConn}

\* A call of unlistenNotify loses no connection.
LEMMA CloseConnFacts ==
    ASSUME ConnInv, NEW S \in SUBSET Channels, CloseSubscriptions(S),
           NEW T, CancelRetryDelay(T), restConn' = restConn,
           RegMoves, regConn' # None <=> reg' = "subscribing", DestroyMoves(S)
    PROVE  ConnFacts'
<1>1. TypeOK /\ HolderFacts /\ DestroyFacts
  BY DEF ConnInv, ConnFacts, ClosedInv
<1>2. OpenFacts' /\ OwnerFacts'
  BY <1>1, CloseOneConn, MoveFacts DEF RegMoves
<1>3. HolderFacts'
  <2>1. \A ch \in Channels : closeConn'[ch] # None <=> close'[ch] = "closing"
    BY <1>1, CloseOneConn
  <2>2. \A ch \in Channels :
          restConn'[ch] # None <=> restore'[ch] \in {"closing", "subscribing", "reclosing"}
    BY <1>1 DEF CancelRetryDelay, HolderFacts
  <2>3. \A ch \in Channels : pool[ch] = None => pool'[ch] = None
    BY <1>1, CloseOneConn
  <2>4. \A ch \in Channels : restore'[ch] \notin {"none", "attempt"} => pool'[ch] = None
    BY <1>1, <2>3 DEF CancelRetryDelay, HolderFacts
  <2> QED BY <2>1, <2>2, <2>4 DEF HolderFacts
<1>4. DestroyFacts'
  <2>1. \A ch \in Channels : pool'[ch] # None => pool[ch] = pool'[ch]
    BY <1>1, CloseOneConn
  <2>2. \A ch \in Channels : close[ch] = "draining" => close'[ch] = "draining"
    BY <1>1, CloseOneConn
  <2>3. CASE destroy' = destroy
    BY <1>1, <2>1, <2>2, <2>3 DEF DestroyFacts
  <2>4. CASE S = Subscribing /\ \A ch \in Channels : close[ch] = "none"
    <3>1. \A ch \in Channels : ch \in Subscribing /\ pool'[ch] # None
                                  => close'[ch] = "draining"
      BY <1>1, <2>4, CloseOneConn
    <3>2. \A ch \in Channels : pool'[ch] # None => close'[ch] = "draining"
      BY <2>1, <3>1 DEF Subscribing
    <3>3. destroy' # "done" \/ destroy' = destroy
      BY DEF DestroyMoves
    <3> QED BY <2>3, <3>2, <3>3 DEF DestroyFacts
  <2>5. CASE destroy' = "first"
    BY <2>5 DEF DestroyFacts
  <2> QED BY <2>3, <2>4, <2>5 DEF DestroyMoves
<1> QED BY <1>2, <1>3, <1>4 DEF ConnFacts

\* A restore of one channel exchanges connections with the pool, gives up
\* its own or holds a new one.
LEMMA RestoreMoves ==
    ASSUME ConnInv, NEW ch \in Channels,
           regConn' = regConn, closeConn' = closeConn,
           \A c \in Channels \ {ch} : pool'[c] = pool[c] /\ restConn'[c] = restConn[c],
           \/ /\ pool'[ch] = pool[ch] /\ restConn'[ch] = restConn[ch] /\ open' = open
           \/ /\ pool'[ch] = None /\ restConn'[ch] = pool[ch] /\ open' = open
              /\ restConn[ch] = None
           \/ /\ pool'[ch] = restConn[ch] /\ restConn'[ch] = None /\ open' = open
              /\ pool[ch] = None
           \/ /\ pool'[ch] = pool[ch] /\ restConn'[ch] = None
              /\ open' = open \ {restConn[ch]}
           \/ /\ pool'[ch] = pool[ch] /\ restConn[ch] = None
              /\ restConn'[ch] \in Conns \ open
              /\ open' = open \cup {restConn'[ch]}
    PROVE  OpenFacts' /\ OwnerFacts'
<1>1. OpenFacts /\ OwnerFacts /\ TypeOK
  BY DEF ConnInv, ConnFacts, ClosedInv
<1>2. None \notin Conns
  BY ConstantsAssumption
<1>3. \A c \in Conns \ open :
         c # regConn /\ \A o \in Channels : c \notin {pool[o], closeConn[o], restConn[o]}
  BY <1>1 DEF OpenFacts, Held
<1>4. ASSUME NEW one \in Channels, NEW other \in Channels
      PROVE  /\ pool'[one] # None =>
                  /\ pool'[one] \notin {closeConn'[other], restConn'[other], regConn'}
                  /\ one # other => pool'[one] # pool'[other]
             /\ closeConn'[one] # None =>
                  /\ closeConn'[one] \notin {restConn'[other], regConn'}
                  /\ one # other => closeConn'[one] # closeConn'[other]
             /\ restConn'[one] # None =>
                  /\ restConn'[one] # regConn'
                  /\ one # other => restConn'[one] # restConn'[other]
  <2>1. one = ch \/ (pool'[one] = pool[one] /\ restConn'[one] = restConn[one])
    OBVIOUS
  <2>2. other = ch \/ (pool'[other] = pool[other] /\ restConn'[other] = restConn[other])
    OBVIOUS
  <2> QED BY <1>1, <1>2, <1>3, <2>1, <2>2 DEF OwnerFacts
<1>5. ASSUME NEW c \in Conns PROVE c \in open' <=> Held(c)'
  <2> DEFINE Elsewhere == \/ \E o \in Channels \ {ch} :
                               c \in {pool[o], closeConn[o], restConn[o]}
                          \/ c = regConn \/ c = closeConn[ch]
  <2>1. Held(c) <=> Elsewhere \/ c = pool[ch] \/ c = restConn[ch]
    BY DEF Held
  <2>2. Held(c)' <=> Elsewhere \/ c = pool'[ch] \/ c = restConn'[ch]
    BY DEF Held
  <2>3. c \in open <=> Held(c)
    BY <1>1 DEF OpenFacts
  <2>4. c = restConn[ch] => ~Elsewhere /\ c # pool[ch]
    BY <1>1, <1>2 DEF OwnerFacts
  <2> HIDE DEF Elsewhere
  <2> QED BY <1>2, <2>1, <2>2, <2>3, <2>4
<1> QED BY <1>4, <1>5 DEF OpenFacts, OwnerFacts

\* Nothing but the places of one channel's restore changes.
LEMMA RestoreConnFacts ==
    ASSUME ConnInv, NEW ch \in Channels,
           \A c \in Channels \ {ch} : restore'[c] = restore[c] /\ restConn'[c] = restConn[c],
           \A c \in Channels \ {ch} : pool'[c] = pool[c],
           close' = close, closeConn' = closeConn, regConn' = regConn, reg' = reg,
           destroy' = destroy,
           restConn'[ch] # None <=> restore'[ch] \in {"closing", "subscribing", "reclosing"},
           restore'[ch] \notin {"none", "attempt"} => pool'[ch] = None,
           Destroyed => pool'[ch] \in {pool[ch], None},
           OpenFacts', OwnerFacts'
    PROVE  ConnFacts'
<1>1. HolderFacts /\ DestroyFacts
  BY DEF ConnInv, ConnFacts
<1>2. HolderFacts'
  BY <1>1 DEF HolderFacts
<1>3. DestroyFacts'
  BY <1>1 DEF DestroyFacts, Destroyed
<1> QED BY <1>2, <1>3 DEF ConnFacts

\* A step that moves no connection.
LEMMA NoConnMoves ==
    ASSUME ConnInv, open' = open, pool' = pool, closeConn' = closeConn,
           restConn' = restConn, regConn' = regConn, close' = close,
           destroy' = destroy, reg' # "subscribing" <=> reg # "subscribing",
           \A ch \in Channels :
              \/ restore'[ch] = restore[ch]
              \/ restore[ch] \in {"none", "delay"} /\ restore'[ch] = "attempt"
    PROVE  ConnFacts'
<1>1. OpenFacts /\ HolderFacts /\ OwnerFacts /\ DestroyFacts
  BY DEF ConnInv, ConnFacts
<1>2. OpenFacts' /\ OwnerFacts' /\ DestroyFacts'
  BY <1>1 DEF OpenFacts, Held, OwnerFacts, DestroyFacts
<1>3. HolderFacts'
  BY <1>1 DEF HolderFacts
<1> QED BY <1>2, <1>3 DEF ConnFacts

LEMMA ConnStep == ConnInv /\ [Next]_vars => ConnInv'
<1> SUFFICES ASSUME ConnInv, [Next]_vars PROVE ConnFacts'
  BY ClosedStep DEF ConnInv
<1>a. /\ TypeOK /\ RegFacts /\ CloseFacts
      /\ OpenFacts /\ HolderFacts /\ OwnerFacts /\ DestroyFacts
  BY DEF ConnInv, ClosedInv, ConnFacts
<1>b. Earlier \in SUBSET Channels /\ Subscribing \in SUBSET Channels
  BY <1>a, EarlierChannels DEF Subscribing
<1>1. CASE UNCHANGED vars
  BY <1>1, NoConnMoves DEF vars
<1>2. CASE Listen
  BY <1>2, NoConnMoves DEF Listen, restVars, closeVars
<1>3. CASE Unlisten
  <2>1. PICK S \in SUBSET Channels \ {{}} : CloseSubscriptions(S) /\ CancelRetryDelay(S)
    BY <1>3 DEF Unlisten
  <2>2. /\ restConn' = restConn /\ regConn' = regConn /\ regConn = None
        /\ reg' # "subscribing" /\ open' = open /\ destroy' = destroy
    BY <1>3, <1>a DEF Unlisten, regVars, HolderFacts
  <2>3. RegMoves /\ DestroyMoves(S)
    BY <2>2 DEF RegMoves, DestroyMoves
  <2> QED BY <2>1, <2>2, <2>3, CloseConnFacts
<1>4. CASE Destroy
  <2>1. /\ open' = open /\ regConn' = regConn /\ restConn' = restConn
        /\ regConn' # None <=> reg' = "subscribing"
    BY <1>4, <1>a DEF Destroy, regVars, HolderFacts
  <2>2. CloseSubscriptions(Subscribing) /\ \E T : CancelRetryDelay(T)
    BY <1>4 DEF Destroy
  <2>3. destroy' = "first"
    BY <1>4 DEF Destroy
  <2>4. RegMoves /\ DestroyMoves(Subscribing)
    BY <2>1, <2>3 DEF RegMoves, DestroyMoves
  <2> QED BY <1>b, <2>1, <2>2, <2>4, CloseConnFacts
<1>5. CASE SecondPass
  <2>1. /\ open' = open /\ regConn' = regConn /\ restConn' = restConn
        /\ regConn' # None <=> reg' = "subscribing"
    BY <1>5, <1>a DEF SecondPass, regVars, HolderFacts
  <2>2. CloseSubscriptions(Subscribing) /\ \E T : CancelRetryDelay(T)
    BY <1>5 DEF SecondPass
  <2>3. destroy' = "second" /\ \A ch \in Channels : close[ch] = "none"
    BY <1>5 DEF SecondPass
  <2>4. RegMoves /\ DestroyMoves(Subscribing)
    BY <2>1, <2>3 DEF RegMoves, DestroyMoves
  <2> QED BY <1>b, <2>1, <2>2, <2>4, CloseConnFacts
<1>6. CASE DestroyDone
  <2>1. pool' = pool
    BY <1>6, <1>a DEF DestroyDone, DestroyFacts, TypeOK
  <2>2. \A ch \in Channels : pool'[ch] = None
    BY <1>6 DEF DestroyDone
  <2>3. OpenFacts' /\ HolderFacts' /\ OwnerFacts'
    BY <1>6, <1>a, <2>1
       DEF DestroyDone, OpenFacts, Held, HolderFacts, OwnerFacts, regVars, restVars, closeVars
  <2> QED BY <1>6, <2>2, <2>3 DEF DestroyDone, DestroyFacts, ConnFacts
<1>7. CASE ConnectFails
  <2>1. open' = open /\ regConn' = regConn /\ regConn = None /\ reg' = "undoing"
    BY <1>7, <1>a DEF ConnectFails, UndoRegistration, HolderFacts
  <2>2. /\ restConn' = restConn /\ destroy' = destroy
        /\ CloseSubscriptions(Earlier) /\ CancelRetryDelay(Earlier)
    BY <1>7 DEF ConnectFails, UndoRegistration
  <2>3. RegMoves /\ DestroyMoves(Earlier)
    BY <2>1, <2>2 DEF RegMoves, DestroyMoves
  <2> QED BY <1>b, <2>1, <2>2, <2>3, CloseConnFacts
<1>8. CASE SubscribeFails
  <2>1. open' = open \ {regConn} /\ regConn' = None /\ reg' = "undoing"
    BY <1>8 DEF SubscribeFails, UndoRegistration
  <2>2. /\ restConn' = restConn /\ destroy' = destroy
        /\ CloseSubscriptions(Earlier) /\ CancelRetryDelay(Earlier)
    BY <1>8 DEF SubscribeFails, UndoRegistration
  <2>3. RegMoves /\ DestroyMoves(Earlier)
    BY <2>1, <2>2 DEF RegMoves, DestroyMoves
  <2> QED BY <1>b, <2>1, <2>2, <2>3, CloseConnFacts
<1>9. CASE Connected
  <2>1. CASE Destroyed
    <3>1. open' = open /\ regConn' = regConn /\ regConn = None /\ reg' = "undoing"
      BY <1>9, <1>a, <2>1 DEF Connected, UndoRegistration, HolderFacts
    <3>2. /\ restConn' = restConn /\ destroy' = destroy
          /\ CloseSubscriptions(Earlier) /\ CancelRetryDelay(Earlier)
      BY <1>9, <2>1 DEF Connected, UndoRegistration
    <3>3. RegMoves /\ DestroyMoves(Earlier)
      BY <3>1, <3>2 DEF RegMoves, DestroyMoves
    <3> QED BY <1>b, <3>1, <3>2, <3>3, CloseConnFacts
  <2>2. CASE ~Destroyed
    <3>1. /\ regConn' \in Conns \ open /\ open' = open \cup {regConn'}
          /\ reg' = "subscribing" /\ regConn = None
          /\ pool' = pool /\ restore' = restore /\ close' = close
          /\ closeConn' = closeConn /\ restConn' = restConn /\ destroy' = destroy
      BY <1>9, <1>a, <2>2, Fresh DEF Connected, HolderFacts, closeVars
    <3>2. \A ch \in Channels : regConn' \notin {pool[ch], closeConn[ch], restConn[ch]}
      BY <1>a, <3>1 DEF OpenFacts, Held
    <3>3. regConn' # None
      BY <3>1, ConstantsAssumption
    <3>4. OwnerFacts'
      BY <1>a, <3>1, <3>2 DEF OwnerFacts
    <3>5. OpenFacts'
      BY <1>a, <3>1, ConstantsAssumption DEF OpenFacts, Held
    <3>6. HolderFacts' /\ DestroyFacts'
      BY <1>a, <3>1, <3>3 DEF HolderFacts, DestroyFacts
    <3> QED BY <3>4, <3>5, <3>6 DEF ConnFacts
  <2> QED BY <2>1, <2>2
<1>10. CASE Subscribed
  <2>1. CASE Destroyed
    <3>1. open' = open \ {regConn} /\ regConn' = None /\ reg' = "undoing"
      BY <1>10, <2>1 DEF Subscribed, UndoRegistration
    <3>2. /\ restConn' = restConn /\ destroy' = destroy
          /\ CloseSubscriptions(Earlier) /\ CancelRetryDelay(Earlier)
      BY <1>10, <2>1 DEF Subscribed, UndoRegistration
    <3>3. RegMoves /\ DestroyMoves(Earlier)
      BY <3>1, <3>2 DEF RegMoves, DestroyMoves
    <3> QED BY <1>b, <3>1, <3>2, <3>3, CloseConnFacts
  <2>2. CASE ~Destroyed
    <3>1. regNext \in Channels /\ Untouched(regNext)
      BY <1>10, <1>a, ConstantsAssumption DEF Subscribed, RegFacts, TypeOK, Channels
    <3>2. /\ \A ch \in Channels \ {regNext} : pool'[ch] = pool[ch]
          /\ pool'[regNext] = regConn /\ pool[regNext] = None /\ regConn # None
          /\ regConn' = None /\ open' = open /\ reg' # "subscribing"
          /\ restore' = restore /\ close' = close
          /\ closeConn' = closeConn /\ restConn' = restConn /\ destroy' = destroy
      BY <1>10, <1>a, <2>2, <3>1 DEF Subscribed, TypeOK, closeVars, HolderFacts, Untouched
    <3>3. OpenFacts'
      BY <1>a, <3>1, <3>2, ConstantsAssumption DEF OpenFacts, Held
    <3>4. OwnerFacts'
      BY <1>a, <3>1, <3>2 DEF OwnerFacts
    <3>5. HolderFacts'
      BY <1>a, <3>1, <3>2 DEF HolderFacts, Untouched
    <3>6. DestroyFacts'
      BY <2>2, <3>2 DEF DestroyFacts, Destroyed
    <3> QED BY <3>3, <3>4, <3>5, <3>6 DEF ConnFacts
  <2> QED BY <2>1, <2>2
<1>11. CASE RegistrationRejected
  BY <1>11, NoConnMoves DEF RegistrationRejected, restVars, closeVars
<1>12. ASSUME NEW ch \in Channels, Drained(ch) \/ DrainTimesOut(ch) PROVE ConnFacts'
  <2>1. close[ch] = "draining" /\ CloseContinues(ch)
    BY <1>12 DEF Drained, DrainTimesOut
  <2>2. /\ \A c \in Channels \ {ch} :
             pool'[c] = pool[c] /\ closeConn'[c] = closeConn[c] /\ close'[c] = close[c]
        /\ pool'[ch] = None /\ closeConn'[ch] = pool[ch]
        /\ close'[ch] = IF pool[ch] = None THEN "none" ELSE "closing"
    BY <1>a, <2>1 DEF CloseContinues, PerformClose, TypeOK
  <2>3. /\ open' = open /\ regConn' = regConn /\ restConn' = restConn /\ reg' = reg
        /\ restore' = restore /\ destroy' = destroy /\ closeConn[ch] = None
    BY <1>a, <2>1
       DEF CloseContinues, regVars, restVars, HolderFacts, TypeOK
  <2>4. OpenFacts' /\ OwnerFacts'
    BY <2>2, <2>3, MoveFacts
  <2>5. HolderFacts'
    BY <1>a, <2>2, <2>3 DEF HolderFacts
  <2>6. DestroyFacts'
    BY <1>a, <2>2, <2>3 DEF DestroyFacts
  <2> QED BY <2>4, <2>5, <2>6 DEF ConnFacts
<1>13. ASSUME NEW ch \in Channels, CloseDone(ch) PROVE ConnFacts'
  <2>1. /\ \A c \in Channels \ {ch} : closeConn'[c] = closeConn[c] /\ close'[c] = close[c]
        /\ close[ch] = "closing" /\ close'[ch] = "none" /\ closeConn'[ch] = None
        /\ open' = open \ {closeConn[ch]} /\ closeConn[ch] # None
        /\ pool' = pool /\ regConn' = regConn /\ restConn' = restConn /\ reg' = reg
        /\ restore' = restore /\ destroy' = destroy
    BY <1>13, <1>a DEF CloseDone, regVars, restVars, HolderFacts, TypeOK
  <2>2. OwnerFacts'
    BY <1>a, <2>1 DEF OwnerFacts
  <2>3. ASSUME NEW c \in Conns PROVE c \in open' <=> Held(c)'
    <3> DEFINE Elsewhere == \/ \E o \in Channels \ {ch} :
                                 c \in {pool[o], closeConn[o], restConn[o]}
                            \/ c = regConn \/ c = pool[ch] \/ c = restConn[ch]
    <3>1. Held(c) <=> Elsewhere \/ c = closeConn[ch]
      BY DEF Held
    <3>2. Held(c)' <=> Elsewhere \/ c = closeConn'[ch]
      BY <2>1 DEF Held
    <3>3. c \in open <=> Held(c)
      BY <1>a DEF OpenFacts
    <3>4. c = closeConn[ch] => ~Elsewhere
      BY <1>a, <2>1 DEF OwnerFacts
    <3> HIDE DEF Elsewhere
    <3> QED BY <2>1, <3>1, <3>2, <3>3, <3>4, ConstantsAssumption
  <2>4. HolderFacts'
    BY <1>a, <2>1 DEF HolderFacts
  <2>5. DestroyFacts'
    BY <1>a, <2>1 DEF DestroyFacts
  <2> QED BY <2>2, <2>3, <2>4, <2>5 DEF OpenFacts, ConnFacts
<1>14. ASSUME NEW ch \in Channels, Message(ch, "change") \/ Message(ch, "dereg")
       PROVE  ConnFacts'
  BY <1>14, NoConnMoves DEF Message, regVars, restVars, closeVars
<1>15. ASSUME NEW ch \in Channels, Process(ch) \/ CheckFails(ch) PROVE ConnFacts'
  <2>1. \A c \in Channels : \/ restore'[c] = restore[c]
                            \/ restore[c] \in {"none", "delay"} /\ restore'[c] = "attempt"
    BY <1>15, <1>a DEF Process, CheckFails, RestoreNotification, TypeOK
  <2> QED BY <1>15, <2>1, NoConnMoves DEF Process, CheckFails, regVars, closeVars
<1>16. ASSUME NEW ch \in Channels, CallbackDone(ch) PROVE ConnFacts'
  BY <1>16, NoConnMoves DEF CallbackDone, regVars, restVars, closeVars
<1>17. ASSUME NEW ch \in Channels, Attempt(ch) PROVE ConnFacts'
  <2>1. restConn[ch] = None
    BY <1>17, <1>a DEF Attempt, HolderFacts
  <2>2. \A c \in Channels \ {ch} :
          pool'[c] = pool[c] /\ restConn'[c] = restConn[c] /\ restore'[c] = restore[c]
    BY <1>17, <1>a DEF Attempt, Onward, EndRestore, GoOn, TypeOK
  <2>3. \/ /\ pool'[ch] = pool[ch] /\ restConn'[ch] = restConn[ch]
           /\ restore'[ch] = "none" \/ (restore'[ch] = "connecting" /\ pool[ch] = None)
        \/ /\ pool'[ch] = None /\ restConn'[ch] = pool[ch] /\ pool[ch] # None
           /\ restore'[ch] = "closing"
    BY <1>17, <1>a DEF Attempt, Onward, EndRestore, GoOn, TypeOK
  <2>4. /\ open' = open /\ closeConn' = closeConn /\ close' = close
        /\ regConn' = regConn /\ reg' = reg /\ destroy' = destroy
    BY <1>17 DEF Attempt, regVars, closeVars
  <2>5. OpenFacts' /\ OwnerFacts'
    BY <2>1, <2>2, <2>3, <2>4, RestoreMoves
  <2> QED BY <2>1, <2>2, <2>3, <2>4, <2>5, RestoreConnFacts
<1>18. ASSUME NEW ch \in Channels, RestoreClosed(ch) PROVE ConnFacts'
  <2>1. pool[ch] = None
    BY <1>18, <1>a DEF RestoreClosed, HolderFacts
  <2>2. \A c \in Channels \ {ch} : restConn'[c] = restConn[c] /\ restore'[c] = restore[c]
    BY <1>18, <1>a DEF RestoreClosed, Onward, EndRestore, GoOn, TypeOK
  <2>3. restConn'[ch] = None /\ restore'[ch] \in {"none", "connecting"}
    BY <1>18, <1>a DEF RestoreClosed, Onward, EndRestore, GoOn, TypeOK
  <2>4. /\ open' = open \ {restConn[ch]} /\ pool' = pool
        /\ closeConn' = closeConn /\ close' = close
        /\ regConn' = regConn /\ reg' = reg /\ destroy' = destroy
    BY <1>18 DEF RestoreClosed, regVars, closeVars
  <2>5. OpenFacts' /\ OwnerFacts'
    BY <2>2, <2>3, <2>4, RestoreMoves
  <2> QED BY <2>1, <2>2, <2>3, <2>4, <2>5, RestoreConnFacts
<1>19. ASSUME NEW ch \in Channels, RestoreConnected(ch) PROVE ConnFacts'
  <2>1. pool[ch] = None /\ restConn[ch] = None
    BY <1>19, <1>a DEF RestoreConnected, HolderFacts
  <2>2. \A c \in Channels \ {ch} : restConn'[c] = restConn[c] /\ restore'[c] = restore[c]
    BY <1>19, <1>a DEF RestoreConnected, EndRestore, GoOn, TypeOK
  <2>3. \/ open' = open /\ restConn'[ch] = None /\ restore'[ch] = "none"
        \/ /\ restConn'[ch] \in Conns \ open /\ open' = open \cup {restConn'[ch]}
           /\ restore'[ch] = "subscribing"
    BY <1>19, <1>a, <2>1, Fresh DEF RestoreConnected, EndRestore, GoOn, TypeOK
  <2>4. /\ pool' = pool /\ closeConn' = closeConn /\ close' = close
        /\ regConn' = regConn /\ reg' = reg /\ destroy' = destroy
    BY <1>19 DEF RestoreConnected, regVars, closeVars
  <2>5. OpenFacts' /\ OwnerFacts'
    BY <2>1, <2>2, <2>3, <2>4, RestoreMoves
  <2> QED
    BY <2>1, <2>2, <2>3, <2>4, <2>5, RestoreConnFacts, ConstantsAssumption
<1>20. ASSUME NEW ch \in Channels, RestoreFails(ch) PROVE ConnFacts'
  <2>1. pool[ch] = None
    BY <1>20, <1>a DEF RestoreFails, HolderFacts
  <2>2. \A c \in Channels \ {ch} : restConn'[c] = restConn[c] /\ restore'[c] = restore[c]
    BY <1>20, <1>a DEF RestoreFails, Onward, EndRestore, GoOn, TypeOK
  <2>3. restConn'[ch] = None /\ restore'[ch] \in {"none", "delay"}
    BY <1>20, <1>a DEF RestoreFails, Onward, EndRestore, GoOn, TypeOK
  <2>4. /\ open' = open \ {restConn[ch]} /\ pool' = pool
        /\ closeConn' = closeConn /\ close' = close
        /\ regConn' = regConn /\ reg' = reg /\ destroy' = destroy
    BY <1>20 DEF RestoreFails, regVars, closeVars
  <2>5. OpenFacts' /\ OwnerFacts'
    BY <2>2, <2>3, <2>4, RestoreMoves
  <2> QED BY <2>1, <2>2, <2>3, <2>4, <2>5, RestoreConnFacts
<1>21. ASSUME NEW ch \in Channels, RestoreSubscribed(ch) PROVE ConnFacts'
  <2>1. pool[ch] = None /\ restConn[ch] # None
    BY <1>21, <1>a DEF RestoreSubscribed, HolderFacts
  <2>2. \A c \in Channels \ {ch} :
          pool'[c] = pool[c] /\ restConn'[c] = restConn[c] /\ restore'[c] = restore[c]
    BY <1>21, <1>a DEF RestoreSubscribed, EndRestore, GoOn, TypeOK
  <2>3. \/ /\ open' = open \ {restConn[ch]} /\ restConn'[ch] = None
           /\ pool'[ch] = None /\ restore'[ch] = "none"
        \/ /\ open' = open /\ restConn'[ch] = restConn[ch] /\ pool'[ch] = None
           /\ restore'[ch] = "reclosing"
        \/ /\ open' = open /\ restConn'[ch] = None /\ pool'[ch] = restConn[ch]
           /\ restore'[ch] = "none" /\ ~Destroyed
    BY <1>21, <1>a, <2>1 DEF RestoreSubscribed, EndRestore, GoOn, TypeOK
  <2>4. /\ closeConn' = closeConn /\ close' = close
        /\ regConn' = regConn /\ reg' = reg /\ destroy' = destroy
    BY <1>21 DEF RestoreSubscribed, regVars, closeVars
  <2>5. OpenFacts' /\ OwnerFacts'
    BY <2>1, <2>2, <2>3, <2>4, RestoreMoves
  <2> QED BY <2>1, <2>2, <2>3, <2>4, <2>5, RestoreConnFacts
<1>22. ASSUME NEW ch \in Channels, DelayEnds(ch) PROVE ConnFacts'
  <2>1. \A c \in Channels : \/ restore'[c] = restore[c]
                            \/ restore[c] \in {"none", "delay"} /\ restore'[c] = "attempt"
    BY <1>22, <1>a DEF DelayEnds, GoOn, TypeOK
  <2> QED BY <1>22, <2>1, NoConnMoves DEF DelayEnds, regVars, closeVars
<1> QED
  BY <1>1, <1>2, <1>3, <1>4, <1>5, <1>6, <1>7, <1>8, <1>9, <1>10, <1>11, <1>12, <1>13,
     <1>14, <1>15, <1>16, <1>17, <1>18, <1>19, <1>20, <1>21, <1>22
     DEF Next, CallStep, ChannelStep

-----------------------------------------------------------------------------

(***************************************************************************)
(* The inductive invariant: each open connection has exactly one owner, a  *)
(* close, a restore and a registration hold one exactly while they have    *)
(* still to give it back, and a restore empties the pool before it opens   *)
(* another.                                                                *)
(***************************************************************************)
THEOREM ConnectionInvariant == Spec => []ConnInv
<1>1. Init => ConnInv
  BY InitConn
<1>2. ConnInv /\ [Next]_vars => ConnInv'
  BY ConnStep
<1> QED BY <1>1, <1>2, PTL DEF Spec

(***************************************************************************)
(* No dedicated Oracle connection is forgotten, whatever fails, times out  *)
(* or comes after destroy(): the catch blocks of subscribe and             *)
(* restoreSubscription and the two looks of destroy() leave each one in    *)
(* the pool or with a call that closes it.                                 *)
(***************************************************************************)
THEOREM OracleConnectionsKept == Spec => []NoConnectionForgotten
<1>1. ConnInv => NoConnectionForgotten
  <2> SUFFICES ASSUME ConnInv PROVE NoConnectionForgotten
    OBVIOUS
  <2>1. TypeOK /\ OpenFacts /\ DestroyFacts
    BY DEF ConnInv, ClosedInv, ConnFacts
  <2>2. \A c \in Places : c \in Conns \cup {None}
    BY <2>1 DEF Places, TypeOK
  <2>3. \A c \in Conns : c \in Places <=> Held(c)
    BY DEF Places, Held
  <2>4. open = Places \ {None}
    BY <2>1, <2>2, <2>3, ConstantsAssumption DEF OpenFacts, TypeOK
  <2> QED BY <2>1, <2>4 DEF NoConnectionForgotten, DestroyFacts, Subscribing
<1> QED BY <1>1, ConnectionInvariant, PTL

-----------------------------------------------------------------------------
(* The contract of dedicated connections.                                  *)

\* The connection that the contract sees: the one in the pool, the one that a
\* restore subscribes, or that of the registration.
ConnSeen(ch) ==
    /\ pool[ch] # None => ChannelConn(ch) = pool[ch]
    /\ restore[ch] = "subscribing" => pool[ch] = None /\ ChannelConn(ch) = restConn[ch]
    /\ ch = regNext /\ regConn # None =>
         pool[ch] = None /\ restore[ch] = "none" /\ ChannelConn(ch) = regConn
    /\ pool[ch] = None /\ restore[ch] # "subscribing" /\ (ch = regNext => regConn = None)
         => ChannelConn(ch) = None
    /\ ChannelConn(ch) # None => ChannelConn(ch) \in open
    /\ ChannelConn(ch) # None => \A other \in Channels :
         /\ ChannelConn(ch) # closeConn[other]
         /\ restore[other] # "subscribing" => ChannelConn(ch) # restConn[other]
         /\ ch # other => ChannelConn(ch) # ChannelConn(other)

LEMMA ConnIsSeen == ASSUME ConnInv PROVE \A ch \in Channels : ConnSeen(ch)
<1>1. /\ TypeOK /\ RegFacts
      /\ OpenFacts /\ HolderFacts /\ OwnerFacts
  BY DEF ConnInv, ClosedInv, ConnFacts
<1>2. ASSUME NEW ch \in Channels
      PROVE  /\ restore[ch] = "subscribing" => pool[ch] = None
             /\ ch = regNext /\ regConn # None =>
                  pool[ch] = None /\ restore[ch] = "none"
  <2>1. restore[ch] = "subscribing" => pool[ch] = None
    BY <1>1 DEF HolderFacts
  <2>2. ASSUME ch = regNext, regConn # None PROVE Untouched(ch)
    <3>1. reg = "subscribing"
      BY <1>1, <2>2 DEF HolderFacts
    <3>2. ch >= regNext
      BY <1>1, <2>2, ConstantsAssumption DEF TypeOK, Channels
    <3> QED BY <1>1, <3>1, <3>2 DEF RegFacts
  <2> QED BY <2>1, <2>2 DEF Untouched
<1>3. ASSUME NEW ch \in Channels
      PROVE  \/ pool[ch] # None /\ ChannelConn(ch) = pool[ch]
             \/ /\ restore[ch] = "subscribing"
                /\ restConn[ch] # None /\ ChannelConn(ch) = restConn[ch]
             \/ ch = regNext /\ regConn # None /\ ChannelConn(ch) = regConn
             \/ ChannelConn(ch) = None
  BY <1>1 DEF ChannelConn, HolderFacts
<1>4. ASSUME NEW ch \in Channels, ChannelConn(ch) # None
      PROVE  ChannelConn(ch) \in open
  <2>1. PICK c : c = ChannelConn(ch)
    OBVIOUS
  <2>2. c \in Conns /\ c \in {pool[ch], restConn[ch], regConn}
    BY <1>1, <1>3, <1>4, <2>1 DEF TypeOK
  <2>3. Held(c)
    BY <2>2 DEF Held
  <2> QED BY <1>1, <2>1, <2>2, <2>3 DEF OpenFacts
<1>5. ASSUME NEW ch \in Channels, ChannelConn(ch) # None, NEW other \in Channels
      PROVE  /\ ChannelConn(ch) # closeConn[other]
             /\ restore[other] # "subscribing" => ChannelConn(ch) # restConn[other]
             /\ ch # other => ChannelConn(ch) # ChannelConn(other)
  <2>1. ChannelConn(ch) # closeConn[other]
    BY <1>1, <1>3, <1>5 DEF OwnerFacts
  <2>2. restore[other] # "subscribing" => ChannelConn(ch) # restConn[other]
    BY <1>1, <1>3, <1>5 DEF OwnerFacts
  <2>3. ch # other => ChannelConn(ch) # ChannelConn(other)
    BY <1>1, <1>3, <1>5 DEF OwnerFacts
  <2> QED BY <2>1, <2>2, <2>3
<1>6. ASSUME NEW ch \in Channels
      PROVE  /\ pool[ch] # None => ChannelConn(ch) = pool[ch]
             /\ restore[ch] = "subscribing" => ChannelConn(ch) = restConn[ch]
             /\ ch = regNext /\ regConn # None => ChannelConn(ch) = regConn
             /\ pool[ch] = None /\ restore[ch] # "subscribing"
                  /\ (ch = regNext => regConn = None) => ChannelConn(ch) = None
  BY <1>2 DEF ChannelConn
<1> QED BY <1>2, <1>4, <1>5, <1>6 DEF ConnSeen

\* The same after a step.
LEMMA ConnIsSeenNext == ASSUME ConnInv' PROVE \A ch \in Channels : ConnSeen(ch)'
<1>1. /\ TypeOK' /\ RegFacts'
      /\ OpenFacts' /\ HolderFacts' /\ OwnerFacts'
  BY DEF ConnInv, ClosedInv, ConnFacts
<1>2. ASSUME NEW ch \in Channels
      PROVE  /\ restore'[ch] = "subscribing" => pool'[ch] = None
             /\ ch = regNext' /\ regConn' # None =>
                  pool'[ch] = None /\ restore'[ch] = "none"
  <2>1. restore'[ch] = "subscribing" => pool'[ch] = None
    BY <1>1 DEF HolderFacts
  <2>2. ASSUME ch = regNext', regConn' # None PROVE Untouched(ch)'
    <3>1. reg' = "subscribing"
      BY <1>1, <2>2 DEF HolderFacts
    <3>2. ch >= regNext'
      BY <1>1, <2>2, ConstantsAssumption DEF TypeOK, Channels
    <3> QED BY <1>1, <3>1, <3>2 DEF RegFacts
  <2> QED BY <2>1, <2>2 DEF Untouched
<1>3. ASSUME NEW ch \in Channels
      PROVE  \/ pool'[ch] # None /\ ChannelConn(ch)' = pool'[ch]
             \/ /\ restore'[ch] = "subscribing"
                /\ restConn'[ch] # None /\ ChannelConn(ch)' = restConn'[ch]
             \/ ch = regNext' /\ regConn' # None /\ ChannelConn(ch)' = regConn'
             \/ ChannelConn(ch)' = None
  BY <1>1 DEF ChannelConn, HolderFacts
<1>4. ASSUME NEW ch \in Channels, ChannelConn(ch)' # None
      PROVE  ChannelConn(ch)' \in open'
  <2>1. PICK c : c = ChannelConn(ch)'
    OBVIOUS
  <2>2. c \in Conns /\ c \in {pool'[ch], restConn'[ch], regConn'}
    BY <1>1, <1>3, <1>4, <2>1 DEF TypeOK
  <2>3. Held(c)'
    BY <2>2 DEF Held
  <2> QED BY <1>1, <2>1, <2>2, <2>3 DEF OpenFacts
<1>5. ASSUME NEW ch \in Channels, ChannelConn(ch)' # None, NEW other \in Channels
      PROVE  /\ ChannelConn(ch)' # closeConn'[other]
             /\ restore'[other] # "subscribing" => ChannelConn(ch)' # restConn'[other]
             /\ ch # other => ChannelConn(ch)' # ChannelConn(other)'
  <2>1. ChannelConn(ch)' # closeConn'[other]
    BY <1>1, <1>3, <1>5 DEF OwnerFacts
  <2>2. restore'[other] # "subscribing" => ChannelConn(ch)' # restConn'[other]
    BY <1>1, <1>3, <1>5 DEF OwnerFacts
  <2>3. ch # other => ChannelConn(ch)' # ChannelConn(other)'
    BY <1>1, <1>3, <1>5 DEF OwnerFacts
  <2> QED BY <2>1, <2>2, <2>3
<1>6. ASSUME NEW ch \in Channels
      PROVE  /\ pool'[ch] # None => ChannelConn(ch)' = pool'[ch]
             /\ restore'[ch] = "subscribing" => ChannelConn(ch)' = restConn'[ch]
             /\ ch = regNext' /\ regConn' # None => ChannelConn(ch)' = regConn'
             /\ pool'[ch] = None /\ restore'[ch] # "subscribing"
                  /\ (ch = regNext' => regConn' = None) => ChannelConn(ch)' = None
  BY <1>2 DEF ChannelConn
<1> QED BY <1>2, <1>4, <1>5, <1>6 DEF ConnSeen

\* The channels S give up their connections, and the connections C are closed.
LEMMA ContractWithdraws ==
    ASSUME \A ch \in Channels : ConnSeen(ch), NEW S \in SUBSET Channels, NEW C,
           None \notin open,
           \A ch \in Channels :
              /\ ChannelConn(ch)' = IF ch \in S THEN None ELSE ChannelConn(ch)
              /\ pool'[ch] # None <=> pool[ch] # None /\ ch \notin S
              /\ ch \notin S => ChannelConn(ch) \notin C \ {None},
           open' = open \ C
    PROVE  Contract!Withdraw(S, C)
<1>1. [ch \in Channels |-> ChannelConn(ch)]'
        = [ch \in Channels |->
             IF ch \in S THEN None ELSE [o \in Channels |-> ChannelConn(o)][ch]]
  OBVIOUS
<1>2. Subscribing' = Subscribing \ S
  BY DEF Subscribing
<1>3. {[o \in Channels |-> ChannelConn(o)][ch] : ch \in S} = {ChannelConn(ch) : ch \in S}
  OBVIOUS
<1>4. (open \ {ChannelConn(ch) : ch \in Channels})'
        = ((open \ {ChannelConn(ch) : ch \in Channels})
             \cup ({ChannelConn(ch) : ch \in S} \ {None})) \ C
  <2> SUFFICES ASSUME NEW c
               PROVE  c \in open' /\ (\A ch \in Channels : c # ChannelConn(ch)')
                        <=> /\ c \notin C
                            /\ \/ c \in open /\ \A ch \in Channels : c # ChannelConn(ch)
                               \/ c # None /\ \E ch \in S : c = ChannelConn(ch)
    OBVIOUS
  <2>1. CASE c \notin open \/ c \in C
    BY <2>1 DEF ConnSeen
  <2>2. CASE c \in open /\ c \notin C /\ \A ch \in Channels : c # ChannelConn(ch)
    <3>1. c # None
      BY <2>2
    <3> QED BY <2>2, <3>1
  <2>3. ASSUME c \in open, c \notin C, NEW ch \in Channels, c = ChannelConn(ch)
        PROVE  c \in open' /\ (\A o \in Channels : c # ChannelConn(o)') <=> ch \in S
    <3>1. c # None
      BY <2>3
    <3>2. \A o \in Channels \ {ch} : c # ChannelConn(o)
      BY <2>3, <3>1 DEF ConnSeen
    <3>3. \A o \in Channels \ {ch} : c # ChannelConn(o)'
      BY <3>1, <3>2
    <3>4. c # ChannelConn(ch)' <=> ch \in S
      BY <2>3, <3>1
    <3> QED BY <2>3, <3>3, <3>4
  <2>4. ASSUME c \in open, c \notin C, NEW ch \in Channels, c = ChannelConn(ch)
        PROVE  (\E o \in S : c = ChannelConn(o)) <=> ch \in S
    <3>1. \A o \in Channels \ {ch} : c # ChannelConn(o)
      BY <2>4 DEF ConnSeen
    <3> QED BY <2>4, <3>1
  <2> QED BY <2>1, <2>2, <2>3, <2>4
<1> QED BY <1>1, <1>2, <1>3, <1>4 DEF Contract!Withdraw

\* What closes nothing that is published is a step of the contract.
LEMMA WithdrawIsClose ==
    ASSUME NEW S \in SUBSET Channels, NEW C, Contract!Withdraw(S, C), Destroyed' = Destroyed,
           \A c \in C : \/ c \in open /\ \A ch \in Channels : c # ChannelConn(ch)
                       \/ \E ch \in S : pool[ch] = None /\ c = ChannelConn(ch)
    PROVE  Contract!Next
<1>1. \A ch \in S \ Subscribing :
         ChannelConn(ch) \in {[o \in Channels |-> ChannelConn(o)][x] : x \in S \ Subscribing}
  OBVIOUS
<1>2. \A ch \in S : pool[ch] = None => ch \in S \ Subscribing
  BY DEF Subscribing
<1>3. C \subseteq (open \ {ChannelConn(ch) : ch \in Channels})
        \cup {[o \in Channels |-> ChannelConn(o)][x] : x \in S \ Subscribing}
  BY <1>1, <1>2
<1>4. Contract!Close
  BY <1>3 DEF Contract!Close
<1> QED BY <1>4 DEF Contract!Next

LEMMA NoneIsClosed == ConnInv => None \notin open
BY ConstantsAssumption DEF ConnInv, ClosedInv, TypeOK

\* A registration that holds a connection works on a channel of its own.
LEMMA RegistrationAlone ==
    ASSUME ConnInv, regConn # None, NEW ch \in Channels, pool[ch] # None \/ restore[ch] # "none"
    PROVE  ch # regNext
BY ConnIsSeen DEF ConnSeen

\* The connections that a step gives back for the registration.
GivenUp == IF regConn' = regConn THEN {} ELSE {regConn}

\* A step that takes connections out of the pool, and may close that of the
\* registration, leaves the restores that are subscribing alone.
RetractMoves ==
    /\ \A ch \in Channels :
         /\ pool'[ch] = pool[ch] \/ pool'[ch] = None
         /\ restore'[ch] = "subscribing" <=> restore[ch] = "subscribing"
         /\ restore[ch] = "subscribing" => restConn'[ch] = restConn[ch]
    /\ regNext' = regNext
    /\ RegMoves

Retracted == {ch \in Channels : \/ pool'[ch] # pool[ch]
                                \/ ch = regNext /\ regConn' # regConn}

LEMMA RetractedConn ==
    ASSUME ConnInv, ConnInv', RetractMoves, NEW ch \in Channels
    PROVE  /\ ChannelConn(ch)' = IF ch \in Retracted THEN None ELSE ChannelConn(ch)
           /\ pool'[ch] # None <=> pool[ch] # None /\ ch \notin Retracted
<1>1. ConnSeen(ch) /\ ConnSeen(ch)'
  BY ConnIsSeen, ConnIsSeenNext
<1>2. regConn' = regConn \/ regConn' = None
  BY DEF RetractMoves, RegMoves
<1>3. CASE pool'[ch] # pool[ch]
  <2>1. pool[ch] # None /\ pool'[ch] = None
    BY <1>3 DEF RetractMoves
  <2>2. restore'[ch] # "subscribing"
    BY <1>1, <2>1 DEF RetractMoves, ConnSeen
  <2>3. ch = regNext' => regConn' = None
    BY <1>1, <1>2, <2>1 DEF RetractMoves, ConnSeen
  <2>4. ChannelConn(ch)' = None
    BY <1>1, <2>1, <2>2, <2>3 DEF ConnSeen
  <2> QED BY <1>3, <2>1, <2>4 DEF Retracted
<1>4. CASE pool'[ch] = pool[ch] /\ ch = regNext /\ regConn' # regConn
  <2>1. regConn # None /\ regConn' = None
    BY <1>2, <1>4
  <2>2. pool[ch] = None /\ restore[ch] = "none"
    BY <1>1, <1>4, <2>1 DEF ConnSeen
  <2>3. restore'[ch] # "subscribing"
    BY <2>2 DEF RetractMoves
  <2>4. ChannelConn(ch)' = None
    BY <1>1, <1>4, <2>1, <2>2, <2>3 DEF ConnSeen
  <2> QED BY <1>4, <2>2, <2>4 DEF Retracted
<1>5. CASE pool'[ch] = pool[ch] /\ ~(ch = regNext /\ regConn' # regConn)
  <2>1. ch \notin Retracted
    BY <1>5 DEF Retracted
  <2>2. ChannelConn(ch)' = ChannelConn(ch)
    BY <1>5 DEF RetractMoves, ChannelConn
  <2> QED BY <1>5, <2>1, <2>2
<1> QED BY <1>3, <1>4, <1>5

LEMMA RetractWithdraws ==
    ASSUME ConnInv, ConnInv', RetractMoves
    PROVE  Contract!Withdraw(Retracted, GivenUp)
<1>1. \A ch \in Channels : ConnSeen(ch)
  BY ConnIsSeen
<1>2. None \notin open /\ regNext \in Channels
  BY NoneIsClosed DEF ConnInv, ClosedInv, TypeOK
<1>3. Retracted \in SUBSET Channels
  BY DEF Retracted
<1>4. open' = open \ GivenUp
  BY <1>2 DEF RetractMoves, RegMoves, GivenUp
<1>5. ASSUME NEW ch \in Channels, ch \notin Retracted
      PROVE  ChannelConn(ch) \notin GivenUp \ {None}
  <2> SUFFICES ASSUME regConn' # regConn, regConn # None, ChannelConn(ch) = regConn
               PROVE  FALSE
    BY DEF GivenUp
  <2>1. ChannelConn(regNext) = regConn
    BY <1>1, <1>2 DEF ConnSeen
  <2>2. ch = regNext
    BY <1>1, <1>2, <2>1 DEF ConnSeen
  <2> QED BY <1>5, <2>2 DEF Retracted
<1>6. \A ch \in Channels :
         /\ ChannelConn(ch)' = IF ch \in Retracted THEN None ELSE ChannelConn(ch)
         /\ pool'[ch] # None <=> pool[ch] # None /\ ch \notin Retracted
  BY RetractedConn
<1> HIDE DEF Retracted, GivenUp
<1> QED BY <1>1, <1>2, <1>3, <1>4, <1>5, <1>6, ContractWithdraws

LEMMA RetractIsClose ==
    ASSUME ConnInv, ConnInv', RetractMoves, Destroyed' = Destroyed
    PROVE  Contract!Next
<1>1. Contract!Withdraw(Retracted, GivenUp)
  BY RetractWithdraws
<1>2. Retracted \in SUBSET Channels
  BY DEF Retracted
<1>3. ASSUME NEW c \in GivenUp
      PROVE  \/ c \in open /\ \A ch \in Channels : c # ChannelConn(ch)
             \/ \E ch \in Retracted : pool[ch] = None /\ c = ChannelConn(ch)
  <2>1. c = regConn /\ regConn' # regConn
    BY <1>3 DEF GivenUp
  <2>2. regConn # None
    BY <2>1 DEF RetractMoves, RegMoves
  <2>3. regNext \in Channels
    BY DEF ConnInv, ClosedInv, TypeOK
  <2>4. pool[regNext] = None /\ ChannelConn(regNext) = regConn
    BY <2>2, <2>3, ConnIsSeen DEF ConnSeen
  <2>5. regNext \in Retracted
    BY <2>1, <2>3 DEF Retracted
  <2> QED BY <2>1, <2>4, <2>5
<1> HIDE DEF Retracted, GivenUp
<1> QED BY <1>1, <1>2, <1>3, WithdrawIsClose

\* A new connection is set up for a channel that has none.
LEMMA ContractOpens ==
    ASSUME \A ch \in Channels : ConnSeen(ch), None \notin open,
           NEW one \in Channels, NEW c \in Conns \ open, c # None,
           ChannelConn(one) = None, ChannelConn(one)' = c,
           \A ch \in Channels \ {one} : ChannelConn(ch)' = ChannelConn(ch),
           \A ch \in Channels : pool'[ch] # None <=> pool[ch] # None,
           open' = open \cup {c}, Destroyed' = Destroyed
    PROVE  Contract!Next
<1>1. \A ch \in Channels : ChannelConn(ch) # c
  BY DEF ConnSeen
<1>2. [ch \in Channels |-> ChannelConn(ch)]'
        = [[ch \in Channels |-> ChannelConn(ch)] EXCEPT ![one] = c]
  <2>1. \A ch \in Channels : ChannelConn(ch)' = IF ch = one THEN c ELSE ChannelConn(ch)
    OBVIOUS
  <2> QED BY <2>1
<1>3. Subscribing' = Subscribing
  BY DEF Subscribing
<1>4. (open \ {ChannelConn(ch) : ch \in Channels})' = open \ {ChannelConn(ch) : ch \in Channels}
  <2> SUFFICES ASSUME NEW d
               PROVE  d \in open' /\ (\A ch \in Channels : d # ChannelConn(ch)')
                        <=> d \in open /\ \A ch \in Channels : d # ChannelConn(ch)
    OBVIOUS
  <2>1. CASE d = c
    BY <2>1
  <2>2. CASE d # c
    <3>1. d \in open => d # None
      OBVIOUS
    <3>2. \A ch \in Channels \ {one} : ChannelConn(ch)' = ChannelConn(ch)
      OBVIOUS
    <3> QED BY <2>2, <3>1, <3>2
  <2> QED BY <2>1, <2>2
<1>5. /\ [ch \in Channels |-> ChannelConn(ch)][one] = None
      /\ c \notin open \ {ChannelConn(ch) : ch \in Channels}
      /\ \A o \in Channels : c # [ch \in Channels |-> ChannelConn(ch)][o]
  BY <1>1
<1>6. Contract!Open(one, c)
  BY <1>2, <1>3, <1>4, <1>5 DEF Contract!Open
<1> QED BY <1>6 DEF Contract!Next

\* The connection that was set up for a channel enters the pool.
LEMMA ContractPublishes ==
    ASSUME ~Destroyed, Destroyed' = Destroyed, NEW one \in Channels,
           ChannelConn(one) # None, pool[one] = None, pool'[one] # None,
           \A ch \in Channels : ChannelConn(ch)' = ChannelConn(ch),
           \A ch \in Channels \ {one} : pool'[ch] # None <=> pool[ch] # None,
           open' = open
    PROVE  Contract!Next
<1>1. [ch \in Channels |-> ChannelConn(ch)]' = [ch \in Channels |-> ChannelConn(ch)]
  OBVIOUS
<1>2. Subscribing' = Subscribing \cup {one} /\ one \notin Subscribing
  BY DEF Subscribing
<1>3. (open \ {ChannelConn(ch) : ch \in Channels})' = open \ {ChannelConn(ch) : ch \in Channels}
  OBVIOUS
<1>4. [ch \in Channels |-> ChannelConn(ch)][one] # None
  OBVIOUS
<1>5. Contract!Publish(one)
  BY <1>1, <1>2, <1>3, <1>4 DEF Contract!Publish
<1> QED BY <1>5 DEF Contract!Next

LEMMA CloseRetracts ==
    ASSUME ConnInv, NEW S \in SUBSET Channels, CloseSubscriptions(S),
           NEW T, CancelRetryDelay(T), restConn' = restConn, regNext' = regNext, RegMoves
    PROVE  RetractMoves
<1>1. TypeOK /\ HolderFacts
  BY DEF ConnInv, ClosedInv, ConnFacts
<1>2. \A ch \in Channels : pool'[ch] = pool[ch] \/ pool'[ch] = None
  BY <1>1, CloseOneConn
<1>3. \A ch \in Channels : restore'[ch] = "subscribing" <=> restore[ch] = "subscribing"
  BY DEF CancelRetryDelay
<1> QED BY <1>2, <1>3 DEF RetractMoves

\* The registration sets up a connection, and publishes it.
LEMMA ConnectedOpens ==
    ASSUME ConnInv, ConnInv', Connected, ~Destroyed
    PROVE  Contract!Next
<1>1. (\A ch \in Channels : ConnSeen(ch)) /\ \A ch \in Channels : ConnSeen(ch)'
  BY ConnIsSeen, ConnIsSeenNext
<1>2. TypeOK /\ HolderFacts /\ RegFacts
  BY DEF ConnInv, ClosedInv, ConnFacts
<1>3. PICK c \in Conns \ open : regConn' = c /\ open' = open \cup {c}
  BY <1>2, Fresh DEF Connected
<1>4. /\ reg = "connecting" /\ regConn = None /\ regNext' = regNext /\ pool' = pool
      /\ restore' = restore /\ restConn' = restConn /\ Destroyed' = Destroyed
  BY <1>2 DEF Connected, HolderFacts, Destroyed
<1>5. regNext \in Channels /\ c # None
  BY <1>2, <1>3, ConstantsAssumption DEF TypeOK
<1>6. Untouched(regNext)
  BY <1>2, <1>4, <1>5, ConstantsAssumption DEF RegFacts, Channels
<1>7. ChannelConn(regNext) = None
  BY <1>4, <1>6 DEF ChannelConn, Untouched
<1>8. ChannelConn(regNext)' = c
  BY <1>1, <1>3, <1>4, <1>5 DEF ConnSeen
<1>9. \A ch \in Channels \ {regNext} : ChannelConn(ch)' = ChannelConn(ch)
  BY <1>4 DEF ChannelConn
<1>10. None \notin open
  BY NoneIsClosed
<1> QED BY <1>1, <1>3, <1>4, <1>5, <1>7, <1>8, <1>9, <1>10, ContractOpens

LEMMA SubscribedPublishes ==
    ASSUME ConnInv, ConnInv', Subscribed, ~Destroyed
    PROVE  Contract!Next
<1>1. (\A ch \in Channels : ConnSeen(ch)) /\ \A ch \in Channels : ConnSeen(ch)'
  BY ConnIsSeen, ConnIsSeenNext
<1>2. TypeOK /\ HolderFacts
  BY DEF ConnInv, ClosedInv, ConnFacts
<1>3. PICK n \in Channels : n = regNext
  BY <1>2 DEF TypeOK
<1>4. /\ regConn # None /\ regConn' = None /\ open' = open
      /\ pool' = [pool EXCEPT ![n] = regConn]
      /\ restore' = restore /\ restConn' = restConn /\ Destroyed' = Destroyed
  BY <1>2, <1>3 DEF Subscribed, HolderFacts, Destroyed
<1>5. /\ pool[n] = None /\ ChannelConn(n) = regConn
      /\ pool'[n] = regConn
      /\ \A ch \in Channels \ {n} : pool'[ch] = pool[ch]
  BY <1>1, <1>2, <1>3, <1>4 DEF ConnSeen, TypeOK
<1>6. ChannelConn(n)' = ChannelConn(n)
  BY <1>1, <1>4, <1>5 DEF ConnSeen
<1>7. \A ch \in Channels \ {n} : ChannelConn(ch)' = ChannelConn(ch)
  BY <1>3, <1>4, <1>5 DEF ChannelConn
<1>8. \A ch \in Channels : ChannelConn(ch)' = ChannelConn(ch)
  BY <1>6, <1>7
<1> QED BY <1>4, <1>5, <1>8, ContractPublishes

\* A step of the restore of one channel: what it may do to that channel is said
\* by pool, restore and restConn.
RestoreStep(ch) ==
    /\ \A c \in Channels \ {ch} :
         pool'[c] = pool[c] /\ restConn'[c] = restConn[c] /\ restore'[c] = restore[c]
    /\ regConn' = regConn /\ regNext' = regNext /\ closeConn' = closeConn
    /\ Destroyed' = Destroyed

LEMMA OthersKept ==
    ASSUME NEW ch \in Channels, RestoreStep(ch)
    PROVE  \A c \in Channels \ {ch} : ChannelConn(c)' = ChannelConn(c)
BY DEF RestoreStep, ChannelConn

\* The channel of a restore is not the one of a registration that holds a
\* connection: unless it subscribes one, it has none.
LEMMA RestoreHasNone ==
    ASSUME ConnInv, NEW ch \in Channels, restore[ch] # "none", RestoreStep(ch),
           ConnInv', pool'[ch] = None, restore'[ch] # "subscribing"
    PROVE  ChannelConn(ch)' = None
<1>1. ch = regNext => regConn = None
  BY RegistrationAlone
<1>2. ch = regNext' => regConn' = None
  BY <1>1 DEF RestoreStep
<1>3. ConnSeen(ch)'
  BY ConnIsSeenNext
<1> QED BY <1>2, <1>3 DEF ConnSeen

\* A connection that a restore was subscribing is given up, and may be closed.
LEMMA RestoreGivesUp ==
    ASSUME ConnInv, ConnInv', NEW ch \in Channels, RestoreStep(ch),
           restore[ch] \in {"connecting", "subscribing"},
           restore'[ch] # "subscribing", pool'[ch] = None,
           open' = open \/ open' = open \ {restConn[ch]}
    PROVE  Contract!Next
<1>1. \A c \in Channels : ConnSeen(c)
  BY ConnIsSeen
<1>2. None \notin open
  BY NoneIsClosed
<1>3. HolderFacts
  BY DEF ConnInv, ConnFacts
<1>4. pool[ch] = None /\ ChannelConn(ch) = restConn[ch]
  <2>1. CASE restore[ch] = "subscribing"
    BY <1>1, <2>1 DEF ConnSeen
  <2>2. CASE restore[ch] = "connecting"
    <3>1. pool[ch] = None /\ restConn[ch] = None
      BY <1>3, <2>2 DEF HolderFacts
    <3>2. ch = regNext => regConn = None
      BY <2>2, RegistrationAlone
    <3> QED BY <1>1, <2>2, <3>1, <3>2 DEF ConnSeen
  <2> QED BY <2>1, <2>2
<1>5. ChannelConn(ch)' = None
  BY RestoreHasNone
<1>6. \A c \in Channels : ChannelConn(c)' = IF c \in {ch} THEN None ELSE ChannelConn(c)
  BY <1>5, OthersKept
<1>7. \A c \in Channels : pool'[c] # None <=> pool[c] # None /\ c \notin {ch}
  BY <1>4 DEF RestoreStep
<1>8. PICK C \in SUBSET {restConn[ch]} : open' = open \ C
  <2>1. open \ {} = open
    OBVIOUS
  <2>2. CASE open' = open
    <3>1. open' = open \ {}
      BY <2>1, <2>2
    <3>2. {} \in SUBSET {restConn[ch]}
      OBVIOUS
    <3> QED BY <3>1, <3>2
  <2>3. CASE open' = open \ {restConn[ch]}
    <3>1. {restConn[ch]} \in SUBSET {restConn[ch]}
      OBVIOUS
    <3> QED BY <2>3, <3>1
  <2> QED BY <2>2, <2>3
<1>9. \A c \in Channels : c \notin {ch} => ChannelConn(c) \notin C \ {None}
  BY <1>1, <1>4, <1>8 DEF ConnSeen
<1>10. Contract!Withdraw({ch}, C)
  BY <1>1, <1>2, <1>6, <1>7, <1>8, <1>9, ContractWithdraws
<1>11. \A c \in C : \E o \in {ch} : pool[o] = None /\ c = ChannelConn(o)
  BY <1>4, <1>8
<1>12. Destroyed' = Destroyed
  BY DEF RestoreStep
<1> QED BY <1>10, <1>11, <1>12, WithdrawIsClose

LEMMA RestoreConnectedOpens ==
    ASSUME ConnInv, ConnInv', NEW ch \in Channels, RestoreStep(ch),
           restore[ch] = "connecting", restore'[ch] = "subscribing", pool' = pool,
           restConn'[ch] \in Conns \ open, open' = open \cup {restConn'[ch]}
    PROVE  Contract!Next
<1>1. (\A c \in Channels : ConnSeen(c)) /\ ConnSeen(ch)'
  BY ConnIsSeen, ConnIsSeenNext
<1>2. pool[ch] = None
  BY DEF ConnInv, ConnFacts, HolderFacts
<1>3. ch = regNext => regConn = None
  BY RegistrationAlone
<1>4. ChannelConn(ch) = None
  BY <1>1, <1>2, <1>3 DEF ConnSeen
<1>5. PICK c \in Conns \ open : c = restConn'[ch]
  OBVIOUS
<1>6. c # None /\ None \notin open
  BY ConstantsAssumption, NoneIsClosed
<1>7. ChannelConn(ch)' = c
  BY <1>1, <1>5 DEF ConnSeen
<1>8. \A o \in Channels \ {ch} : ChannelConn(o)' = ChannelConn(o)
  BY OthersKept
<1>9. /\ open' = open \cup {c} /\ Destroyed' = Destroyed
      /\ \A o \in Channels : pool'[o] # None <=> pool[o] # None
  BY <1>5 DEF RestoreStep
<1> QED BY <1>1, <1>4, <1>5, <1>6, <1>7, <1>8, <1>9, ContractOpens

LEMMA RestoreSubscribedPublishes ==
    ASSUME ConnInv, ConnInv', NEW ch \in Channels, RestoreStep(ch), ~Destroyed,
           restore[ch] = "subscribing", pool'[ch] = restConn[ch], open' = open
    PROVE  Contract!Next
<1>1. ConnSeen(ch) /\ ConnSeen(ch)'
  BY ConnIsSeen, ConnIsSeenNext
<1>2. restConn[ch] # None
  BY DEF ConnInv, ConnFacts, HolderFacts
<1>3. pool[ch] = None /\ ChannelConn(ch) = restConn[ch]
  BY <1>1 DEF ConnSeen
<1>4. ChannelConn(ch)' = ChannelConn(ch)
  BY <1>1, <1>2, <1>3 DEF ConnSeen
<1>5. \A c \in Channels : ChannelConn(c)' = ChannelConn(c)
  BY <1>4, OthersKept
<1>6. Destroyed' = Destroyed /\ \A c \in Channels \ {ch} : pool'[c] # None <=> pool[c] # None
  BY DEF RestoreStep
<1> QED BY <1>2, <1>3, <1>5, <1>6, ContractPublishes

\* A connection that left the pool, or that came too late, is closed.
LEMMA LeavingCloses ==
    ASSUME ConnInv, ConnInv', NEW c, c # None,
           \A ch \in Channels : ChannelConn(ch) # c /\ ChannelConn(ch)' = ChannelConn(ch),
           c \in open, open' = open \ {c}, pool' = pool, Destroyed' = Destroyed
    PROVE  Contract!Next
<1>1. \A ch \in Channels : ConnSeen(ch)
  BY ConnIsSeen
<1>2. None \notin open
  BY NoneIsClosed
<1>3. \A ch \in Channels :
         /\ ChannelConn(ch)' = IF ch \in {} THEN None ELSE ChannelConn(ch)
         /\ pool'[ch] # None <=> pool[ch] # None /\ ch \notin {}
         /\ ch \notin {} => ChannelConn(ch) \notin {c} \ {None}
  OBVIOUS
<1>4. Contract!Withdraw({}, {c})
  BY <1>1, <1>2, <1>3, ContractWithdraws
<1> QED BY <1>4, WithdrawIsClose

\* Every step that only takes connections out of the pool or closes that of
\* the registration.
LEMMA StepRetracts ==
    ASSUME ConnInv,
           \/ Listen \/ Unlisten \/ Destroy \/ SecondPass \/ DestroyDone
           \/ ConnectFails \/ SubscribeFails \/ RegistrationRejected
           \/ Connected /\ Destroyed
           \/ Subscribed /\ Destroyed
           \/ \E ch \in Channels :
                \/ Drained(ch) \/ DrainTimesOut(ch) \/ Process(ch) \/ CallbackDone(ch)
                \/ Attempt(ch) \/ DelayEnds(ch) \/ CheckFails(ch)
                \/ Message(ch, "change") \/ Message(ch, "dereg")
    PROVE  RetractMoves
<1>1. TypeOK /\ HolderFacts
  BY DEF ConnInv, ClosedInv, ConnFacts
<1>2. Earlier \in SUBSET Channels /\ Subscribing \in SUBSET Channels
  BY <1>1, EarlierChannels DEF Subscribing
<1>3. CASE Listen \/ RegistrationRejected
  BY <1>3 DEF Listen, RegistrationRejected, RetractMoves, RegMoves, restVars
<1>4. CASE Unlisten
  <2>1. PICK S \in SUBSET Channels \ {{}} : CloseSubscriptions(S) /\ CancelRetryDelay(S)
    BY <1>4 DEF Unlisten
  <2>2. restConn' = restConn /\ regNext' = regNext /\ RegMoves
    BY <1>4 DEF Unlisten, regVars, RegMoves
  <2> QED BY <2>1, <2>2, CloseRetracts
<1>5. CASE Destroy \/ SecondPass
  <2>1. CloseSubscriptions(Subscribing) /\ \E T : CancelRetryDelay(T)
    BY <1>5 DEF Destroy, SecondPass
  <2>2. restConn' = restConn /\ regNext' = regNext /\ RegMoves
    BY <1>5 DEF Destroy, SecondPass, regVars, RegMoves
  <2> QED BY <1>2, <2>1, <2>2, CloseRetracts
<1>6. CASE DestroyDone
  BY <1>6 DEF DestroyDone, RetractMoves, RegMoves, regVars, restVars
<1>7. CASE ConnectFails \/ SubscribeFails \/ (Connected /\ Destroyed) \/ (Subscribed /\ Destroyed)
  <2>1. CloseSubscriptions(Earlier) /\ CancelRetryDelay(Earlier)
    BY <1>7 DEF ConnectFails, SubscribeFails, Connected, Subscribed, UndoRegistration
  <2>2. restConn' = restConn /\ regNext' = regNext /\ RegMoves
    BY <1>7 DEF ConnectFails, SubscribeFails, Connected, Subscribed, RegMoves
  <2> QED BY <1>2, <2>1, <2>2, CloseRetracts
<1>8. ASSUME NEW ch \in Channels, Drained(ch) \/ DrainTimesOut(ch) PROVE RetractMoves
  <2>1. \A c \in Channels : pool'[c] = pool[c] \/ pool'[c] = None
    BY <1>8 DEF Drained, DrainTimesOut, CloseContinues, PerformClose
  <2> QED BY <1>8, <2>1 DEF Drained, DrainTimesOut, CloseContinues, RetractMoves, RegMoves,
                            regVars, restVars
<1>9. ASSUME NEW ch \in Channels,
             CallbackDone(ch) \/ Message(ch, "change") \/ Message(ch, "dereg")
      PROVE  RetractMoves
  BY <1>9 DEF CallbackDone, Message, RetractMoves, RegMoves, regVars, restVars
<1>10. ASSUME NEW ch \in Channels, Process(ch) \/ CheckFails(ch) \/ DelayEnds(ch)
       PROVE  RetractMoves
  <2>1. \A c \in Channels : restore'[c] = "subscribing" <=> restore[c] = "subscribing"
    BY <1>1, <1>10 DEF Process, CheckFails, DelayEnds, RestoreNotification, GoOn, TypeOK
  <2> QED BY <1>10, <2>1 DEF Process, CheckFails, DelayEnds, RetractMoves, RegMoves, regVars
<1>11. ASSUME NEW ch \in Channels, Attempt(ch) PROVE RetractMoves
  <2>1. \A c \in Channels \ {ch} :
          pool'[c] = pool[c] /\ restConn'[c] = restConn[c] /\ restore'[c] = restore[c]
    BY <1>1, <1>11 DEF Attempt, Onward, EndRestore, GoOn, TypeOK
  <2>2. /\ pool'[ch] = pool[ch] \/ pool'[ch] = None
        /\ restore[ch] = "attempt" /\ restore'[ch] # "subscribing"
    BY <1>1, <1>11 DEF Attempt, Onward, EndRestore, GoOn, TypeOK
  <2>3. regNext' = regNext /\ RegMoves
    BY <1>11 DEF Attempt, regVars, RegMoves
  <2> QED BY <2>1, <2>2, <2>3 DEF RetractMoves
<1> QED BY <1>3, <1>4, <1>5, <1>6, <1>7, <1>8, <1>9, <1>10, <1>11

LEMMA CloseDoneCloses ==
    ASSUME ConnInv, ConnInv', NEW ch \in Channels, CloseDone(ch)
    PROVE  Contract!Next
<1>1. TypeOK /\ HolderFacts /\ OpenFacts
  BY DEF ConnInv, ClosedInv, ConnFacts
<1>2. /\ close[ch] = "closing" /\ open' = open \ {closeConn[ch]}
      /\ UNCHANGED <<pool, regNext, regConn, restore, restConn, destroy>>
  BY DEF CloseDone, regVars, restVars
<1>3. PICK c \in Conns : c = closeConn[ch] /\ c # None
  BY <1>1, <1>2, ConstantsAssumption DEF HolderFacts, TypeOK
<1>4. Held(c)
  BY <1>3 DEF Held
<1>5. c \in open
  BY <1>1, <1>4 DEF OpenFacts
<1>6. \A o \in Channels : ChannelConn(o) # c
  BY <1>3, ConnIsSeen DEF ConnSeen
<1>7. \A o \in Channels : ChannelConn(o)' = ChannelConn(o)
  BY <1>2 DEF ChannelConn
<1>8. Destroyed' = Destroyed
  BY <1>2 DEF Destroyed
<1> QED BY <1>2, <1>3, <1>5, <1>6, <1>7, <1>8, LeavingCloses

LEMMA RestoreClosedCloses ==
    ASSUME ConnInv, ConnInv', NEW ch \in Channels, RestoreClosed(ch)
    PROVE  Contract!Next
<1>1. TypeOK /\ HolderFacts /\ OpenFacts
  BY DEF ConnInv, ClosedInv, ConnFacts
<1>2. /\ restore[ch] \in {"closing", "reclosing"} /\ open' = open \ {restConn[ch]}
      /\ UNCHANGED <<pool, regNext, regConn, closeConn, destroy>>
      /\ restConn' = [restConn EXCEPT ![ch] = None]
  BY DEF RestoreClosed, regVars, closeVars
<1>3. /\ restore'[ch] # "subscribing"
      /\ \A c \in Channels \ {ch} : restore'[c] = restore[c]
  BY <1>1 DEF RestoreClosed, Onward, EndRestore, GoOn, TypeOK
<1>4. RestoreStep(ch)
  BY <1>2, <1>3 DEF RestoreStep, TypeOK, Destroyed
<1>5. PICK c \in Conns : c = restConn[ch] /\ c # None
  BY <1>1, <1>2, ConstantsAssumption DEF HolderFacts, TypeOK
<1>6. Held(c)
  BY <1>5 DEF Held
<1>7. c \in open
  BY <1>1, <1>6 DEF OpenFacts
<1>8. \A o \in Channels : ChannelConn(o) # c
  BY <1>2, <1>5, ConnIsSeen DEF ConnSeen
<1>9. pool[ch] = None
  BY <1>1, <1>2 DEF HolderFacts
<1>10. ChannelConn(ch) = None
  <2>1. ch = regNext => regConn = None
    BY <1>2, RegistrationAlone
  <2> QED BY <1>2, <1>9, <2>1, ConnIsSeen DEF ConnSeen
<1>11. ChannelConn(ch)' = None
  BY <1>2, <1>3, <1>4, <1>9, RestoreHasNone
<1>12. \A o \in Channels : ChannelConn(o)' = ChannelConn(o)
  BY <1>4, <1>10, <1>11, OthersKept
<1>13. Destroyed' = Destroyed
  BY <1>2 DEF Destroyed
<1> QED BY <1>2, <1>5, <1>7, <1>8, <1>12, <1>13, LeavingCloses

LEMMA RestoreConnectedSteps ==
    ASSUME ConnInv, ConnInv', NEW ch \in Channels, RestoreConnected(ch)
    PROVE  Contract!Next
<1>1. TypeOK /\ HolderFacts
  BY DEF ConnInv, ClosedInv, ConnFacts
<1>2. /\ restore[ch] = "connecting"
      /\ UNCHANGED <<pool, regNext, regConn, closeConn, destroy>>
  BY DEF RestoreConnected, regVars, closeVars
<1>3. \A c \in Channels \ {ch} : restConn'[c] = restConn[c] /\ restore'[c] = restore[c]
  BY <1>1 DEF RestoreConnected, EndRestore, GoOn, TypeOK
<1>4. RestoreStep(ch)
  BY <1>2, <1>3 DEF RestoreStep, Destroyed
<1>5. pool[ch] = None
  BY <1>1, <1>2 DEF HolderFacts
<1>6. CASE Destroyed
  <2>1. open' = open /\ restore'[ch] # "subscribing"
    BY <1>1, <1>6 DEF RestoreConnected, EndRestore, TypeOK
  <2> QED BY <1>2, <1>4, <1>5, <2>1, RestoreGivesUp
<1>7. CASE ~Destroyed
  <2>1. /\ restConn'[ch] \in Conns \ open /\ open' = open \cup {restConn'[ch]}
        /\ restore'[ch] = "subscribing"
    BY <1>1, <1>7, Fresh DEF RestoreConnected, GoOn, TypeOK
  <2> QED BY <1>2, <1>4, <2>1, RestoreConnectedOpens
<1> QED BY <1>6, <1>7

LEMMA RestoreSubscribedSteps ==
    ASSUME ConnInv, ConnInv', NEW ch \in Channels, RestoreSubscribed(ch)
    PROVE  Contract!Next
<1>1. TypeOK /\ HolderFacts
  BY DEF ConnInv, ClosedInv, ConnFacts
<1>2. /\ restore[ch] = "subscribing"
      /\ UNCHANGED <<regNext, regConn, closeConn, destroy>>
  BY DEF RestoreSubscribed, regVars, closeVars
<1>3. \A c \in Channels \ {ch} :
        pool'[c] = pool[c] /\ restConn'[c] = restConn[c] /\ restore'[c] = restore[c]
  BY <1>1 DEF RestoreSubscribed, EndRestore, GoOn, TypeOK
<1>4. RestoreStep(ch)
  BY <1>2, <1>3 DEF RestoreStep, Destroyed
<1>5. pool[ch] = None
  BY <1>1, <1>2 DEF HolderFacts
<1>6. \/ /\ restore'[ch] # "subscribing" /\ pool'[ch] = None
         /\ open' = open \/ open' = open \ {restConn[ch]}
      \/ ~Destroyed /\ pool'[ch] = restConn[ch] /\ open' = open
  BY <1>1, <1>5 DEF RestoreSubscribed, EndRestore, GoOn, TypeOK
<1> QED BY <1>2, <1>4, <1>6, RestoreGivesUp, RestoreSubscribedPublishes

LEMMA RestoreFailsSteps ==
    ASSUME ConnInv, ConnInv', NEW ch \in Channels, RestoreFails(ch)
    PROVE  Contract!Next
<1>1. TypeOK /\ HolderFacts
  BY DEF ConnInv, ClosedInv, ConnFacts
<1>2. /\ restore[ch] \in {"connecting", "subscribing"} /\ open' = open \ {restConn[ch]}
      /\ UNCHANGED <<pool, regNext, regConn, closeConn, destroy>>
      /\ restConn' = [restConn EXCEPT ![ch] = None]
  BY DEF RestoreFails, regVars, closeVars
<1>3. /\ restore'[ch] # "subscribing"
      /\ \A c \in Channels \ {ch} : restore'[c] = restore[c]
  BY <1>1 DEF RestoreFails, Onward, EndRestore, GoOn, TypeOK
<1>4. RestoreStep(ch)
  BY <1>2, <1>3 DEF RestoreStep, TypeOK, Destroyed
<1>5. pool'[ch] = None
  BY <1>1, <1>2 DEF HolderFacts
<1> QED BY <1>2, <1>3, <1>4, <1>5, RestoreGivesUp

\* Every step of the adapter is one of the contract.
LEMMA ContractStep ==
    ASSUME ConnInv, ConnInv', [Next]_vars
    PROVE  [Contract!Next]_(Contract!vars)
<1>1. CASE UNCHANGED vars
  <2>1. /\ \A ch \in Channels : ChannelConn(ch)' = ChannelConn(ch)
        /\ open' = open /\ Destroyed' = Destroyed /\ Subscribing' = Subscribing
    BY <1>1 DEF vars, ChannelConn, Destroyed, Subscribing
  <2>2. [ch \in Channels |-> ChannelConn(ch)]' = [ch \in Channels |-> ChannelConn(ch)]
    BY <2>1
  <2>3. {ChannelConn(ch) : ch \in Channels}' = {ChannelConn(ch) : ch \in Channels}
    BY <2>1
  <2> QED BY <2>1, <2>2, <2>3 DEF Contract!vars
<1>2. CASE Destroy
  <2>1. RetractMoves
    BY <1>2, StepRetracts
  <2>2. Contract!Withdraw(Retracted, GivenUp)
    BY <2>1, RetractWithdraws
  <2>3. GivenUp = {} /\ Retracted \in SUBSET Channels
    BY <1>2 DEF Destroy, regVars, GivenUp, Retracted
  <2>4. ~Destroyed /\ Destroyed' = TRUE
    BY <1>2 DEF Destroy, Destroyed
  <2>5. Contract!Destroy
    <3> HIDE DEF Retracted, GivenUp
    <3> QED BY <2>2, <2>3, <2>4 DEF Contract!Destroy
  <2> QED BY <2>5 DEF Contract!Next
<1>3. CASE \/ Listen \/ Unlisten \/ SecondPass \/ DestroyDone
           \/ ConnectFails \/ SubscribeFails \/ RegistrationRejected
           \/ Connected /\ Destroyed
           \/ Subscribed /\ Destroyed
           \/ \E ch \in Channels :
                \/ Drained(ch) \/ DrainTimesOut(ch) \/ Process(ch) \/ CallbackDone(ch)
                \/ Attempt(ch) \/ DelayEnds(ch) \/ CheckFails(ch)
                \/ Message(ch, "change") \/ Message(ch, "dereg")
  <2>1. RetractMoves
    BY <1>3, StepRetracts
  <2>2. Destroyed' = Destroyed
    BY <1>3 DEF Listen, Unlisten, SecondPass, DestroyDone, ConnectFails, SubscribeFails,
                RegistrationRejected, Connected, Subscribed, Drained, DrainTimesOut,
                CloseContinues, Process, CallbackDone, Attempt, DelayEnds, CheckFails,
                Message, Destroyed
  <2> QED BY <2>1, <2>2, RetractIsClose
<1>4. CASE Connected /\ ~Destroyed
  BY <1>4, ConnectedOpens
<1>5. CASE Subscribed /\ ~Destroyed
  BY <1>5, SubscribedPublishes
<1>6. ASSUME NEW ch \in Channels,
             \/ CloseDone(ch) \/ RestoreClosed(ch) \/ RestoreConnected(ch)
             \/ RestoreSubscribed(ch) \/ RestoreFails(ch)
      PROVE  Contract!Next
  BY <1>6, CloseDoneCloses, RestoreClosedCloses, RestoreConnectedSteps,
     RestoreSubscribedSteps, RestoreFailsSteps
<1> QED BY <1>1, <1>2, <1>3, <1>4, <1>5, <1>6 DEF Next, CallStep, ChannelStep

(***************************************************************************)
(* OracleNotify keeps what DatabaseNotify promises of dedicated            *)
(* connections: a subscription gets one only when it has none, publishes   *)
(* it once and never after destroy() began, and closes it only after it    *)
(* left the pool, whatever unlistenNotify, the restores and the failed     *)
(* registrations do meanwhile.                                             *)
(***************************************************************************)
THEOREM OracleImplementsContract == Spec => ImplementsContract
<1>1. Init => Contract!Init
  <2> SUFFICES ASSUME Init PROVE Contract!Init
    OBVIOUS
  <2>1. \A ch \in Channels : ChannelConn(ch) = None
    BY DEF Init, ChannelConn
  <2>2. [ch \in Channels |-> ChannelConn(ch)] = [ch \in Channels |-> None]
    BY <2>1
  <2>3. Subscribing = {} /\ open = {} /\ ~Destroyed
    BY DEF Init, Subscribing, Destroyed
  <2> QED BY <2>2, <2>3 DEF Contract!Init
<1>2. ConnInv /\ ConnInv' /\ [Next]_vars => [Contract!Next]_(Contract!vars)
  BY ContractStep
<1> QED
  BY <1>1, <1>2, ConnectionInvariant, PTL DEF Spec, ImplementsContract, Contract!Spec

=============================================================================
