------------------------ MODULE Transactions_proofs ------------------------
(***************************************************************************)
(* The pool of the kit, for every number of calls, connections,            *)
(* transactions, statements and failures: a connection is leased to one    *)
(* call at a time, and one that may be leased again is clean.              *)
(***************************************************************************)
EXTENDS Transactions, SequenceTheorems, TLAPS

-----------------------------------------------------------------------------
(* The methods of a query runner.                                          *)

\* An outcome stems from a reply to the statement that was sent.
LEMMA OutcomesFrom ==
    ASSUME NEW R, NEW failed, NEW done, NEW o \in Outcomes(R, failed, done)
    PROVE  \E r \in R :
             /\ o.session = r.session
             /\ \/ ~o.ok /\ ~r.ok /\ o.runner = failed /\ o.cause = r.cause
                \/ o.ok /\ r.ok /\ o.runner = done /\ o.cause = r.cause
                \/ ~o.ok /\ r.ok /\ o.runner = done /\ o.cause = "after"
<1>1. CASE o \in {Outcome(FALSE, failed, r, r.cause) : r \in {x \in R : ~x.ok}}
  BY <1>1 DEF Outcome
<1>2. CASE o \in {Outcome(TRUE, done, r, r.cause) : r \in {x \in R : x.ok}}
  BY <1>2 DEF Outcome
<1>3. CASE o \in {Outcome(FALSE, done, r, "after") : r \in {x \in R : x.ok}}
  BY <1>3 DEF Outcome
<1> QED BY <1>1, <1>2, <1>3 DEF Outcomes

LEMMA OutcomesRunner ==
    ASSUME NEW R, NEW failed, NEW done, NEW o \in Outcomes(R, failed, done)
    PROVE  o.runner \in {failed, done}
BY OutcomesFrom

LEMMA ThrownRunner ==
    ASSUME NEW q, NEW s, NEW cause
    PROVE  Thrown(q, s, cause).runner = q
BY DEF Thrown, Outcome

\* What a method writes into its runner.
LEMMA ActiveWritten ==
    ASSUME NEW q \in Runners, NEW a \in BOOLEAN
    PROVE  /\ [q EXCEPT !.active = a] \in Runners
           /\ [q EXCEPT !.active = a].active = a
           /\ [q EXCEPT !.active = a].depth = q.depth
           /\ [q EXCEPT !.active = a].released = q.released
BY DEF Runners

LEMMA DepthWritten ==
    ASSUME NEW q \in Runners, NEW d \in Int
    PROVE  /\ [q EXCEPT !.depth = d] \in Runners
           /\ [q EXCEPT !.depth = d].active = q.active
           /\ [q EXCEPT !.depth = d].depth = d
           /\ [q EXCEPT !.depth = d].released = q.released
BY DEF Runners

\* No method of a runner releases it.
KeepsRunner(q, o) == o.runner \in Runners /\ o.runner.released = q.released

LEMMA StartKeepsRunner ==
    ASSUME NEW v, NEW q \in Runners, NEW s, NEW o \in StartTransaction(v, q, s)
    PROVE  KeepsRunner(q, o)
<1> DEFINE begun == [q EXCEPT !.active = TRUE]
           due   == IF q.depth = 0 THEN Begin(v, s) ELSE Savepoint(v, s, q.depth)
           sent  == Query(q, s, due, Refuse(v, s))
           done  == [begun EXCEPT !.depth = q.depth + 1]
           back  == [q EXCEPT !.active = FALSE]
<1>1. begun \in Runners /\ begun.released = q.released /\ begun.depth = q.depth
  BY ActiveWritten
<1>b. back \in Runners /\ back.released = q.released
  BY ActiveWritten
<1>d. q.depth + 1 \in Int
  BY DEF Runners
<1>e. done \in Runners /\ done.released = q.released
  BY <1>1, <1>d, DepthWritten
<1>2. \/ o = Thrown(q, s, "none")
      \/ o = Thrown(back, s, "before")
      \/ o \in Outcomes(sent, begun, done)
      \/ o \in {Outcome(FALSE, begun, Fault(Refuse(v, r.session)), "database") :
                  r \in {x \in sent : x.ok /\ q.depth = 0 /\ v = "postgres"}}
  BY DEF StartTransaction
<1> HIDE DEF begun, due, sent, done, back
<1>3. o.runner \in {q, back, begun, done}
  <2>1. CASE o = Thrown(q, s, "none") \/ o = Thrown(back, s, "before")
    BY <2>1, ThrownRunner
  <2>2. CASE o \in Outcomes(sent, begun, done)
    BY <2>2, OutcomesRunner
  <2>3. CASE o \in {Outcome(FALSE, begun, Fault(Refuse(v, r.session)), "database") :
                      r \in {x \in sent : x.ok /\ q.depth = 0 /\ v = "postgres"}}
    BY <2>3 DEF Outcome
  <2> QED BY <1>2, <2>1, <2>2, <2>3
<1> QED BY <1>1, <1>b, <1>e, <1>3 DEF KeepsRunner

LEMMA CommitKeepsRunner ==
    ASSUME NEW v, NEW q \in Runners, NEW s, NEW o \in CommitTransaction(v, q, s)
    PROVE  KeepsRunner(q, o)
<1> DEFINE outer == [q EXCEPT !.depth = q.depth - 1, !.active = FALSE]
           inner == [q EXCEPT !.depth = q.depth - 1]
<1>d. q.depth - 1 \in Int
  BY DEF Runners
<1>e. inner \in Runners /\ inner.released = q.released
  BY <1>d, DepthWritten
<1>f. outer = [inner EXCEPT !.active = FALSE]
  OBVIOUS
<1>1. outer \in Runners /\ outer.released = q.released
  BY <1>e, <1>f, ActiveWritten
<1>2. \/ o = Thrown(q, s, "none") \/ o = Thrown(q, s, "before")
      \/ \E R : o \in Outcomes(R, q, outer)
      \/ \E R : o \in Outcomes(R, q, inner)
  BY DEF CommitTransaction
<1> HIDE DEF outer, inner
<1>3. o.runner \in {q, outer, inner}
  <2>1. CASE o = Thrown(q, s, "none") \/ o = Thrown(q, s, "before")
    BY <2>1, ThrownRunner
  <2>2. CASE \E R : o \in Outcomes(R, q, outer) \/ o \in Outcomes(R, q, inner)
    BY <2>2, OutcomesRunner
  <2> QED BY <1>2, <2>1, <2>2
<1> QED BY <1>1, <1>e, <1>3 DEF KeepsRunner

LEMMA RollbackKeepsRunner ==
    ASSUME NEW v, NEW q \in Runners, NEW s, NEW o \in RollbackTransaction(v, q, s)
    PROVE  KeepsRunner(q, o)
<1> DEFINE outer == [q EXCEPT !.depth = q.depth - 1, !.active = FALSE]
           inner == [q EXCEPT !.depth = q.depth - 1]
<1>d. q.depth - 1 \in Int
  BY DEF Runners
<1>e. inner \in Runners /\ inner.released = q.released
  BY <1>d, DepthWritten
<1>f. outer = [inner EXCEPT !.active = FALSE]
  OBVIOUS
<1>1. outer \in Runners /\ outer.released = q.released
  BY <1>e, <1>f, ActiveWritten
<1>2. \/ o = Thrown(q, s, "none") \/ o = Thrown(q, s, "before")
      \/ \E R : o \in Outcomes(R, q, outer)
      \/ \E R : o \in Outcomes(R, q, inner)
  BY DEF RollbackTransaction
<1> HIDE DEF outer, inner
<1>3. o.runner \in {q, outer, inner}
  <2>1. CASE o = Thrown(q, s, "none") \/ o = Thrown(q, s, "before")
    BY <2>1, ThrownRunner
  <2>2. CASE \E R : o \in Outcomes(R, q, outer) \/ o \in Outcomes(R, q, inner)
    BY <2>2, OutcomesRunner
  <2> QED BY <1>2, <2>1, <2>2
<1> QED BY <1>1, <1>e, <1>3 DEF KeepsRunner

LEMMA CatchKeepsRunner ==
    ASSUME NEW k, runner[k] \in Runners, NEW o \in CatchOutcomes(k)
    PROVE  KeepsRunner(runner[k], o)
<1>1. CASE runner[k].active
  BY <1>1, RollbackKeepsRunner DEF CatchOutcomes
<1>2. CASE ~runner[k].active
  BY <1>2 DEF CatchOutcomes, Outcome, KeepsRunner
<1> QED BY <1>1, <1>2

-----------------------------------------------------------------------------
(* Leases.                                                                 *)

LeaseTypes ==
    /\ slot \in [Conns -> {"idle", "leased", "closed"}]
    /\ at \in [Calls -> Places]
    /\ holds \in [Calls -> Conns \cup {None}]
    /\ runner \in [Calls -> Runners]

\* A call that has not got its connection yet has a runner as it was made.
NewFacts == \A k \in Calls : at[k] \in {"new", "connecting"} => runner[k] = NewRunner

LeaseInv == LeaseTypes /\ LeasesAreExclusive /\ NewFacts

LEMMA InitLeases == Init => LeaseInv
<1> SUFFICES ASSUME Init PROVE LeaseInv
  OBVIOUS
<1>1. LeaseTypes
  BY DEF Init, LeaseTypes, Places, NewRunner, Runners
<1>2. LeasesAreExclusive
  BY ConstantsAssumption DEF Init, LeasesAreExclusive
<1>3. NewFacts
  BY DEF Init, NewFacts
<1> QED BY <1>1, <1>2, <1>3 DEF LeaseInv

\* A call goes on with the connection that it has.
LEMMA LeasesStay ==
    ASSUME LeaseInv, slot' = slot, holds' = holds, NEW k \in Calls, NEW q \in Runners,
           q.released = runner[k].released, runner' = [runner EXCEPT ![k] = q],
           NEW p \in Places \ {"new", "connecting", "done"},
           at[k] \notin {"new", "connecting", "done"},
           at' = [at EXCEPT ![k] = p]
    PROVE  LeaseInv'
<1>1. LeaseTypes'
  BY DEF LeaseInv, LeaseTypes
<1>2. LeasesAreExclusive'
  BY DEF LeaseInv, LeaseTypes, LeasesAreExclusive
<1>3. NewFacts'
  BY DEF LeaseInv, LeaseTypes, NewFacts
<1> QED BY <1>1, <1>2, <1>3 DEF LeaseInv

\* The same when the runner is not concerned.
LEMMA LeasesKept ==
    ASSUME LeaseInv, slot' = slot, holds' = holds, runner' = runner, NEW k \in Calls,
           NEW p \in Places \ {"new", "connecting", "done"},
           at[k] \notin {"new", "connecting", "done"},
           at' = [at EXCEPT ![k] = p] \/ at' = at
    PROVE  LeaseInv'
<1>1. LeaseTypes'
  BY DEF LeaseInv, LeaseTypes
<1>2. LeasesAreExclusive'
  BY DEF LeaseInv, LeaseTypes, LeasesAreExclusive
<1>3. NewFacts'
  BY DEF LeaseInv, LeaseTypes, NewFacts
<1> QED BY <1>1, <1>2, <1>3 DEF LeaseInv

\* A call gives its connection back, or had none.
LEMMA LeasesReturned ==
    ASSUME LeaseInv, NEW k \in Calls, NEW q \in Runners, NEW s, NEW error,
           ReleaseRunner(k, q, s, error),
           NEW p \in Places \ {"new", "connecting"},
           at' = [at EXCEPT ![k] = p]
    PROVE  LeaseInv'
<1> DEFINE gone == [q EXCEPT !.released = TRUE]
<1>1. gone \in Runners
  BY DEF Runners
<1>2. runner' = [runner EXCEPT ![k] = gone] /\ holds' = [holds EXCEPT ![k] = None]
  BY DEF ReleaseRunner
<1>3. IF holds[k] = None THEN slot' = slot
      ELSE \E x \in {"idle", "closed"} : slot' = [slot EXCEPT ![holds[k]] = x]
  BY DEF ReleaseRunner, Returned
<1> HIDE DEF gone
<1>4. LeaseTypes'
  BY <1>1, <1>2, <1>3 DEF LeaseInv, LeaseTypes
<1>5. LeasesAreExclusive'
  <2>1. \A c \in Conns : slot'[c] = "leased" <=> \E j \in Calls : holds'[j] = c
    BY <1>2, <1>3, ConstantsAssumption DEF LeaseInv, LeaseTypes, LeasesAreExclusive
  <2>2. \A i, j \in Calls : holds'[i] = holds'[j] /\ i # j => holds'[i] = None
    BY <1>2 DEF LeaseInv, LeaseTypes, LeasesAreExclusive
  <2>3. \A j \in Calls : holds'[j] # None =>
          ~runner'[j].released /\ at'[j] \notin {"new", "connecting", "done"}
    BY <1>2 DEF LeaseInv, LeaseTypes, LeasesAreExclusive
  <2> QED BY <2>1, <2>2, <2>3 DEF LeasesAreExclusive
<1>6. NewFacts'
  BY <1>2 DEF LeaseInv, LeaseTypes, NewFacts
<1> QED BY <1>4, <1>5, <1>6 DEF LeaseInv

LEMMA LeaseStep == LeaseInv /\ [Next]_vars => LeaseInv'
<1> SUFFICES ASSUME LeaseInv, [Next]_vars PROVE LeaseInv'
  OBVIOUS
<1>a. LeaseTypes /\ LeasesAreExclusive /\ NewFacts
  BY DEF LeaseInv
<1>b. \A k \in Calls : runner[k] \in Runners /\ at[k] \in Places
  BY <1>a DEF LeaseTypes
<1>1. CASE UNCHANGED vars
  BY <1>1, <1>a DEF vars, LeaseInv, LeaseTypes, LeasesAreExclusive, NewFacts
<1>2. ASSUME NEW k \in Calls, BeginCall(k) PROVE LeaseInv'
  <2>1. slot' = slot /\ holds' = holds /\ runner' = runner
    BY <1>2 DEF BeginCall, poolVars
  <2> QED BY <1>2, <1>a, <2>1
          DEF BeginCall, LeaseInv, LeaseTypes, LeasesAreExclusive, NewFacts, Places
<1>3. ASSUME NEW k \in Calls, Connect(k) PROVE LeaseInv'
  <2>1. PICK c \in Conns : /\ slot[c] # "leased"
                           /\ slot' = [slot EXCEPT ![c] = "leased"]
                           /\ holds' = [holds EXCEPT ![k] = c]
    BY <1>3 DEF Connect
  <2>2. runner' = runner /\ at' = [at EXCEPT ![k] = "ready"] /\ at[k] = "connecting"
    BY <1>3 DEF Connect
  <2>3. LeaseTypes'
    BY <1>a, <2>1, <2>2 DEF LeaseTypes, Places
  <2>4. LeasesAreExclusive'
    BY <1>a, <2>1, <2>2, ConstantsAssumption
       DEF LeaseTypes, LeasesAreExclusive, NewFacts, NewRunner
  <2>5. NewFacts'
    BY <1>a, <2>2 DEF LeaseTypes, NewFacts
  <2> QED BY <2>3, <2>4, <2>5 DEF LeaseInv
<1>4. ASSUME NEW k \in Calls, ConnectFails(k) PROVE LeaseInv'
  BY <1>4, <1>b, LeasesReturned DEF ConnectFails, Places
<1>5. ASSUME NEW k \in Calls, Start(k) PROVE LeaseInv'
  <2>1. PICK o \in StartTransaction(vendor, runner[k], SessionOf(k)) :
          /\ runner' = [runner EXCEPT ![k] = o.runner]
          /\ at' = [at EXCEPT ![k] = IF o.ok THEN "running" ELSE "failing"]
    BY <1>5 DEF Start
  <2>2. KeepsRunner(runner[k], o)
    BY <1>b, StartKeepsRunner
  <2>3. slot' = slot /\ holds' = holds /\ at[k] \in {"ready", "running"}
    BY <1>5 DEF Start, MayStart
  <2>4. (IF o.ok THEN "running" ELSE "failing") \in Places \ {"new", "connecting", "done"}
    BY DEF Places
  <2> QED BY <2>1, <2>2, <2>3, <2>4, LeasesStay DEF KeepsRunner
<1>6. ASSUME NEW k \in Calls, StartRefused(k) PROVE LeaseInv'
  <2>1. slot' = slot /\ holds' = holds /\ runner' = runner
    BY <1>6 DEF StartRefused, poolVars
  <2> QED BY <1>6, <2>1, LeasesKept DEF StartRefused, Places
<1>7. ASSUME NEW k \in Calls, ApplyOptions(k) PROVE LeaseInv'
  <2>1. slot' = slot /\ holds' = holds /\ runner' = runner /\ at[k] = "running"
    BY <1>7 DEF ApplyOptions
  <2>2. \E p \in {"running", "unwinding", "failing"} : at' = [at EXCEPT ![k] = p]
    BY <1>7 DEF ApplyOptions
  <2> QED BY <2>1, <2>2, LeasesKept DEF Places
<1>8. ASSUME NEW k \in Calls, Statement(k) PROVE LeaseInv'
  <2>1. slot' = slot /\ holds' = holds /\ runner' = runner /\ at[k] = "running"
    BY <1>8 DEF Statement
  <2>2. at' = at \/ \E p \in {"unwinding", "failing"} : at' = [at EXCEPT ![k] = p]
    BY <1>8 DEF Statement, Raised
  <2> QED BY <2>1, <2>2, LeasesKept DEF Places
<1>9. ASSUME NEW k \in Calls, CallbackThrows(k) PROVE LeaseInv'
  <2>1. slot' = slot /\ holds' = holds /\ runner' = runner /\ at[k] = "running"
    BY <1>9 DEF CallbackThrows, poolVars
  <2>2. \E p \in {"unwinding", "failing"} : at' = [at EXCEPT ![k] = p]
    BY <1>9 DEF CallbackThrows, Raised
  <2> QED BY <2>1, <2>2, LeasesKept DEF Places
<1>10. ASSUME NEW k \in Calls, OperationEnds(k) PROVE LeaseInv'
  <2>1. slot' = slot /\ holds' = holds /\ runner' = runner
    BY <1>10 DEF OperationEnds, poolVars
  <2> QED BY <1>10, <2>1, LeasesKept DEF OperationEnds, Places
<1>11. ASSUME NEW k \in Calls, RestoreOptions(k) PROVE LeaseInv'
  <2>1. /\ slot' = slot /\ holds' = holds /\ runner' = runner
        /\ at[k] \in {"restoring", "unwinding"}
    BY <1>11 DEF RestoreOptions
  <2>2. \E p \in {"running", "failing"} : at' = [at EXCEPT ![k] = p]
    BY <1>11 DEF RestoreOptions
  <2> QED BY <2>1, <2>2, LeasesKept DEF Places
<1>12. ASSUME NEW k \in Calls, Return(k) PROVE LeaseInv'
  <2>1. PICK o \in CommitTransaction(vendor, runner[k], SessionOf(k)) :
          /\ runner' = [runner EXCEPT ![k] = o.runner]
          /\ at' = at \/ \E p \in {"ready", "leaving", "failing"} : at' = [at EXCEPT ![k] = p]
    BY <1>12 DEF Return, Outside
  <2>2. KeepsRunner(runner[k], o)
    BY <1>b, CommitKeepsRunner
  <2>3. slot' = slot /\ holds' = holds /\ at[k] = "running"
    BY <1>12 DEF Return
  <2>4. \E p \in {"running", "ready", "leaving", "failing"} : at' = [at EXCEPT ![k] = p]
    BY <1>a, <2>1, <2>3 DEF LeaseTypes
  <2> QED BY <2>1, <2>2, <2>3, <2>4, LeasesStay DEF KeepsRunner, Places
<1>13. ASSUME NEW k \in Calls, Catch(k) PROVE LeaseInv'
  <2>1. PICK o \in CatchOutcomes(k), next \in Rethrown(k) :
          /\ at' = [at EXCEPT ![k] = next]
          /\ IF Distrusted(k, o) THEN ReleaseRunner(k, o.runner, o.session, TRUE)
             ELSE /\ runner' = [runner EXCEPT ![k] = o.runner]
                  /\ UNCHANGED <<slot, holds>>
    BY <1>13 DEF Catch
  <2>2. KeepsRunner(runner[k], o)
    BY <1>b, CatchKeepsRunner
  <2>3. next \in Places \ {"new", "connecting", "done"} /\ at[k] = "failing"
    BY <1>13 DEF Catch, Rethrown, Outside, Places
  <2>4. CASE Distrusted(k, o)
    BY <2>1, <2>2, <2>3, <2>4, LeasesReturned DEF KeepsRunner
  <2>5. CASE ~Distrusted(k, o)
    BY <2>1, <2>2, <2>3, <2>5, LeasesStay DEF KeepsRunner
  <2> QED BY <2>4, <2>5
<1>14. ASSUME NEW k \in Calls, PersistCatch(k) PROVE LeaseInv'
  <2>1. PICK o \in RollbackTransaction(vendor, runner[k], SessionOf(k)) :
          runner' = [runner EXCEPT ![k] = o.runner]
    BY <1>14 DEF PersistCatch
  <2>2. KeepsRunner(runner[k], o)
    BY <1>b, RollbackKeepsRunner
  <2>3. /\ slot' = slot /\ holds' = holds /\ at[k] = "failing"
        /\ at' = [at EXCEPT ![k] = "leaving"]
    BY <1>14 DEF PersistCatch
  <2> QED BY <2>1, <2>2, <2>3, LeasesStay DEF KeepsRunner, Places
<1>15. ASSUME NEW k \in Calls, Leave(k) PROVE LeaseInv'
  BY <1>15, <1>b, LeasesReturned DEF Leave, Places
<1>16. ASSUME NEW k \in Calls, ConnectionError(k) PROVE LeaseInv'
  <2>1. at[k] \in Places \ {"new", "connecting"}
    BY <1>16, <1>a, <1>b DEF ConnectionError, LeasesAreExclusive
  <2>2. at' = [at EXCEPT ![k] = at[k]]
    BY <1>16, <1>a DEF ConnectionError, LeaseTypes
  <2> QED BY <1>16, <1>b, <2>1, <2>2, LeasesReturned DEF ConnectionError
<1>17. CASE ClosePool
  <2>1. /\ slot' = [c \in Conns |-> "closed"] /\ holds' = [k \in Calls |-> None]
        /\ at' = at
        /\ runner' = [k \in Calls |-> IF holds[k] = None THEN runner[k]
                                      ELSE [runner[k] EXCEPT !.released = TRUE]]
    BY <1>17 DEF ClosePool
  <2>2. \A k \in Calls : [runner[k] EXCEPT !.released = TRUE] \in Runners
    BY <1>b DEF Runners
  <2>3. LeaseTypes'
    BY <1>a, <2>1, <2>2 DEF LeaseTypes
  <2>4. LeasesAreExclusive'
    BY <2>1, ConstantsAssumption DEF LeasesAreExclusive
  <2>5. NewFacts'
    BY <1>a, <2>1 DEF NewFacts, LeasesAreExclusive
  <2> QED BY <2>3, <2>4, <2>5 DEF LeaseInv
<1> QED
  BY <1>1, <1>2, <1>3, <1>4, <1>5, <1>6, <1>7, <1>8, <1>9, <1>10, <1>11, <1>12, <1>13,
     <1>14, <1>15, <1>16, <1>17
     DEF Next, CallStep

-----------------------------------------------------------------------------

(***************************************************************************)
(* Every connection is in one place: leased by exactly one call whose      *)
(* runner was not released, idle, or closed, and no call ends with one.    *)
(* The release in the finally blocks of ExecuteBase, the releases with an  *)
(* error, a broken connection and the closing of the pool never free a     *)
(* connection twice or leave it leased by nobody.                          *)
(***************************************************************************)
THEOREM ConnectionsAreLeasedOnce == Spec => []LeasesAreExclusive
<1>1. Init => LeaseInv
  BY InitLeases
<1>2. LeaseInv /\ [Next]_vars => LeaseInv'
  BY LeaseStep
<1>3. LeaseInv => LeasesAreExclusive
  BY DEF LeaseInv
<1> QED BY <1>1, <1>2, <1>3, PTL DEF Spec

-----------------------------------------------------------------------------
(* The transaction() calls of a call.                                      *)

Deeds == SUBSET (Calls \X Nat)

LevelTypes ==
    /\ kind \in [Calls -> Kinds]
    /\ at \in [Calls -> Places]
    /\ open \in [Calls -> Seq(Deeds)]
    /\ used \in [Calls -> Nat]

InsideCall(k) == at[k] \in {"running", "restoring", "unwinding", "failing"}

\* transaction() calls are open exactly while the call is inside of one, and
\* only an application nests them.
LevelFacts ==
    \A k \in Calls :
        /\ InsideCall(k) <=> Level(k) # 0
        /\ kind[k] # "manager" => Level(k) <= 1

LevelInv == LevelTypes /\ LevelFacts

LEMMA InitLevels == Init => LevelInv
<1> SUFFICES ASSUME Init PROVE LevelInv
  OBVIOUS
<1>1. kind \in [Calls -> Kinds]
  BY ConstantsAssumption DEF Init, Kinds
<1>2. open \in [Calls -> Seq(Deeds)]
  BY DEF Init
<1>3. LevelTypes
  BY <1>1, <1>2 DEF Init, LevelTypes, Places
<1>4. LevelFacts
  BY DEF Init, LevelFacts, InsideCall, Level
<1> QED BY <1>3, <1>4 DEF LevelInv

\* A call moves on with its transactions; the others stay where they are.
LEMMA LevelsMove ==
    ASSUME LevelInv, NEW k \in Calls, NEW p \in Places, NEW stack \in Seq(Deeds),
           at' = [at EXCEPT ![k] = p], open' = [open EXCEPT ![k] = stack],
           kind' = kind, used' \in [Calls -> Nat],
           p \in {"running", "restoring", "unwinding", "failing"} <=> Len(stack) # 0,
           kind[k] # "manager" => Len(stack) <= 1
    PROVE  LevelInv'
<1>1. LevelTypes'
  BY DEF LevelInv, LevelTypes
<1>2. LevelFacts'
  BY DEF LevelInv, LevelTypes, LevelFacts, InsideCall, Level
<1> QED BY <1>1, <1>2 DEF LevelInv

\* A call moves on within a transaction() call, or outside of all.
LEMMA LevelsKept ==
    ASSUME LevelInv, NEW k \in Calls, NEW p \in Places,
           at' = [at EXCEPT ![k] = p], open' = open, kind' = kind, used' = used,
           p \in {"running", "restoring", "unwinding", "failing"} <=> InsideCall(k)
    PROVE  LevelInv'
<1>1. open' = [open EXCEPT ![k] = open[k]] /\ open[k] \in Seq(Deeds)
  BY DEF LevelInv, LevelTypes
<1>2. used' \in [Calls -> Nat]
  BY DEF LevelInv, LevelTypes
<1> QED BY <1>1, <1>2, LevelsMove DEF LevelInv, LevelFacts, Level

\* The innermost of several transaction() calls, and the others.
LEMMA Stacks ==
    ASSUME NEW stack \in Seq(Deeds), Len(stack) # 0
    PROVE  /\ Len(stack) \in Nat
           /\ stack[Len(stack)] \in Deeds
           /\ SubSeq(stack, 1, Len(stack) - 1) \in Seq(Deeds)
           /\ Len(SubSeq(stack, 1, Len(stack) - 1)) = Len(stack) - 1
<1>1. Len(stack) \in Nat \ {0}
  OBVIOUS
<1>2. stack[Len(stack)] \in Deeds
  BY <1>1
<1>3. SubSeq(stack, 1, Len(stack) - 1) \in Seq(Deeds)
  BY <1>1
<1>4. Len(SubSeq(stack, 1, Len(stack) - 1)) = Len(stack) - 1
  <2> DEFINE m == Len(stack) - 1
  <2>1. 1 \in Int /\ m \in Int
    BY <1>1
  <2>2. \A i \in 1..m : stack[i] \in Deeds
    BY <1>1
  <2>3. Len(SubSeq(stack, 1, m)) = IF 1 <= m THEN m - 1 + 1 ELSE 0
    BY <2>1, <2>2, SubSeqProperties
  <2>4. m >= 0
    BY <1>1
  <2> HIDE DEF m
  <2>5. (IF 1 <= m THEN m - 1 + 1 ELSE 0) = m
    BY <2>1, <2>4
  <2>6. Len(SubSeq(stack, 1, m)) = m
    BY <2>3, <2>5, Zenon
  <2> QED BY <2>6, Zenon DEF m
<1> QED BY <1>1, <1>2, <1>3, <1>4

LEMMA LevelStep == LevelInv /\ [Next]_vars => LevelInv'
<1> SUFFICES ASSUME LevelInv, [Next]_vars PROVE LevelInv'
  OBVIOUS
<1>a. LevelTypes /\ LevelFacts
  BY DEF LevelInv
<1>b. \A k \in Calls : Level(k) \in Nat /\ open[k] \in Seq(Deeds) /\ at[k] \in Places
  BY <1>a DEF LevelTypes, Level
<1>1. CASE UNCHANGED vars
  BY <1>1 DEF vars, LevelInv, LevelTypes, LevelFacts, InsideCall, Level
<1>2. ASSUME NEW k \in Calls, BeginCall(k) \/ Connect(k) \/ ConnectFails(k) \/ Leave(k)
      PROVE  LevelInv'
  <2>1. \E p \in {"connecting", "ready", "done"} : at' = [at EXCEPT ![k] = p]
    BY <1>2 DEF BeginCall, Connect, ConnectFails, Leave
  <2>2. ~InsideCall(k) /\ open' = open /\ kind' = kind /\ used' = used
    BY <1>2 DEF BeginCall, Connect, ConnectFails, Leave, InsideCall
  <2> QED BY <2>1, <2>2, LevelsKept DEF Places
<1>3. ASSUME NEW k \in Calls, StartRefused(k) PROVE LevelInv'
  BY <1>3, LevelsKept DEF StartRefused, Places, InsideCall
<1>4. ASSUME NEW k \in Calls, Start(k) PROVE LevelInv'
  <2>1. /\ \E p \in {"running", "failing"} : at' = [at EXCEPT ![k] = p]
        /\ open' = [open EXCEPT ![k] = Append(open[k], {})]
        /\ kind' = kind /\ used' = used
    BY <1>4 DEF Start
  <2>2. {} \in Deeds
    BY DEF Deeds
  <2>3. Append(open[k], {}) \in Seq(Deeds) /\ Len(Append(open[k], {})) = Level(k) + 1
    BY <1>b, <2>2 DEF Level
  <2>4. kind[k] # "manager" => Level(k) = 0
    BY <1>4, <1>a DEF Start, MayStart, LevelFacts, InsideCall
  <2>5. used' \in [Calls -> Nat]
    BY <1>a, <2>1 DEF LevelTypes
  <2>6. Level(k) + 1 # 0 /\ (kind[k] # "manager" => Level(k) + 1 <= 1)
    BY <1>b, <2>4
  <2>7. PICK p \in {"running", "failing"} : at' = [at EXCEPT ![k] = p]
    BY <2>1
  <2>8. PICK stack \in Seq(Deeds) :
          Len(stack) = Level(k) + 1 /\ open' = [open EXCEPT ![k] = stack]
    BY <2>1, <2>3
  <2>9. /\ p \in {"running", "restoring", "unwinding", "failing"} <=> Len(stack) # 0
        /\ p \in Places /\ (kind[k] # "manager" => Len(stack) <= 1)
    BY <2>6, <2>8 DEF Places
  <2> QED BY <2>1, <2>5, <2>7, <2>8, <2>9, LevelsMove
<1>5. ASSUME NEW k \in Calls,
             ApplyOptions(k) \/ CallbackThrows(k) \/ OperationEnds(k) \/ RestoreOptions(k)
      PROVE  LevelInv'
  <2>1. \E p \in {"running", "restoring", "unwinding", "failing"} :
          at' = [at EXCEPT ![k] = p]
    BY <1>5 DEF ApplyOptions, CallbackThrows, OperationEnds, RestoreOptions, Raised
  <2>2. InsideCall(k) /\ open' = open /\ kind' = kind /\ used' = used
    BY <1>5 DEF ApplyOptions, CallbackThrows, OperationEnds, RestoreOptions, InsideCall
  <2> QED BY <2>1, <2>2, LevelsKept DEF Places
<1>6. ASSUME NEW k \in Calls, Statement(k) PROVE LevelInv'
  <2> DEFINE w == <<k, used[k] + 1>>
             stack == Append(Outer(k), Inner(k) \cup {w})
  <2>1. Level(k) # 0 /\ at[k] = "running"
    BY <1>6, <1>a DEF Statement, LevelFacts, InsideCall
  <2>2. Inner(k) \in Deeds /\ Outer(k) \in Seq(Deeds) /\ Len(Outer(k)) = Level(k) - 1
    BY <1>b, <2>1, Stacks DEF Inner, Outer, Level
  <2>3. used[k] + 1 \in Nat
    BY <1>a DEF LevelTypes
  <2>4. Inner(k) \cup {w} \in Deeds
    BY <2>2, <2>3 DEF Deeds
  <2>5. stack \in Seq(Deeds) /\ Len(stack) = Level(k)
    BY <1>b, <2>2, <2>4
  <2>6. used' \in [Calls -> Nat] /\ kind' = kind
    BY <1>6, <1>a, <2>3 DEF Statement, LevelTypes
  <2>7. \/ open' = [open EXCEPT ![k] = stack] /\ at' = at
        \/ open' = open /\ at' = at
        \/ open' = open /\ \E p \in {"unwinding", "failing"} : at' = [at EXCEPT ![k] = p]
    BY <1>6 DEF Statement, Raised
  <2>8. at = [at EXCEPT ![k] = "running"] /\ open = [open EXCEPT ![k] = open[k]]
    BY <1>a, <2>1 DEF LevelTypes
  <2>9. kind[k] # "manager" => Level(k) <= 1
    BY <1>a DEF LevelFacts
  <2> HIDE DEF w, stack
  <2>10. \E p \in {"running", "unwinding", "failing"} : at' = [at EXCEPT ![k] = p]
    BY <2>7, <2>8
  <2>11. open' = [open EXCEPT ![k] = stack] \/ open' = [open EXCEPT ![k] = open[k]]
    BY <2>7, <2>8
  <2>12. CASE open' = [open EXCEPT ![k] = stack]
    BY <2>1, <2>5, <2>6, <2>9, <2>10, <2>12, LevelsMove DEF Places
  <2>13. CASE open' = [open EXCEPT ![k] = open[k]]
    BY <1>b, <2>1, <2>6, <2>9, <2>10, <2>13, LevelsMove DEF Places, Level
  <2> QED BY <2>11, <2>12, <2>13
<1>7. ASSUME NEW k \in Calls, Return(k) PROVE LevelInv'
  <2>1. Level(k) # 0 /\ at[k] = "running" /\ kind' = kind /\ used' = used
    BY <1>7, <1>a DEF Return, LevelFacts, InsideCall
  <2>2. Inner(k) \in Deeds /\ Outer(k) \in Seq(Deeds) /\ Len(Outer(k)) = Level(k) - 1
    BY <1>b, <2>1, Stacks DEF Inner, Outer, Level
  <2>3. at = [at EXCEPT ![k] = "running"] /\ open = [open EXCEPT ![k] = open[k]]
    BY <1>a, <2>1 DEF LevelTypes
  <2>4. used' \in [Calls -> Nat] /\ (kind[k] # "manager" => Level(k) <= 1)
    BY <1>a, <2>1 DEF LevelFacts, LevelTypes
  <2>5. CASE /\ Level(k) > 1 /\ at' = at
             /\ open' = [open EXCEPT ![k] =
                           [Outer(k) EXCEPT ![Level(k) - 1] = @ \cup Inner(k)]]
    <3> DEFINE stack == [Outer(k) EXCEPT ![Level(k) - 1] = @ \cup Inner(k)]
    <3>1. Level(k) - 1 \in 1..Len(Outer(k))
      BY <1>b, <2>2, <2>5
    <3>2. Outer(k)[Level(k) - 1] \cup Inner(k) \in Deeds
      BY <2>2, <3>1 DEF Deeds
    <3>3. stack \in Seq(Deeds) /\ Len(stack) = Level(k) - 1
      BY <2>2, <3>1, <3>2
    <3>4. Len(stack) # 0 /\ (kind[k] # "manager" => Len(stack) <= 1)
      BY <1>b, <2>4, <2>5, <3>3
    <3> HIDE DEF stack
    <3>5. open' = [open EXCEPT ![k] = stack] /\ at' = [at EXCEPT ![k] = "running"]
      BY <2>3, <2>5 DEF stack
    <3> QED BY <2>1, <2>4, <3>3, <3>4, <3>5, LevelsMove DEF Places
  <2>6. CASE open' = [open EXCEPT ![k] = <<>>] /\ at' = [at EXCEPT ![k] = Outside(k)]
    <3>1. <<>> \in Seq(Deeds) /\ Len(<<>>) = 0
      OBVIOUS
    <3>2. Outside(k) \in {"ready", "leaving"}
      BY DEF Outside
    <3>3. PICK p \in {"ready", "leaving"} : at' = [at EXCEPT ![k] = p]
      BY <2>6, <3>2
    <3>4. PICK stack \in Seq(Deeds) : Len(stack) = 0 /\ open' = [open EXCEPT ![k] = stack]
      BY <2>6, <3>1
    <3>5. /\ p \in {"running", "restoring", "unwinding", "failing"} <=> Len(stack) # 0
          /\ p \in Places /\ (kind[k] # "manager" => Len(stack) <= 1)
      BY <3>4 DEF Places
    <3> QED BY <2>1, <2>4, <3>3, <3>4, <3>5, LevelsMove
  <2>7. CASE /\ open' = [open EXCEPT ![k] = <<{}>>] \/ open' = open
             /\ Level(k) = 1 \/ open' = open
             /\ at' = [at EXCEPT ![k] = "failing"]
    <3>1. {} \in Deeds
      BY DEF Deeds
    <3>2. <<{}>> \in Seq(Deeds) /\ Len(<<{}>>) = 1
      BY <3>1
    <3>3. PICK stack \in Seq(Deeds) :
            Len(stack) = Level(k) /\ open' = [open EXCEPT ![k] = stack]
      <4>1. CASE open' = open
        BY <1>b, <2>3, <4>1 DEF Level
      <4>2. CASE open' = [open EXCEPT ![k] = <<{}>>] /\ Level(k) = 1
        BY <3>2, <4>2
      <4> QED BY <2>7, <4>1, <4>2
    <3>4. PICK p \in {"failing"} : at' = [at EXCEPT ![k] = p]
      BY <2>7
    <3>5. /\ p \in {"running", "restoring", "unwinding", "failing"} <=> Len(stack) # 0
          /\ p \in Places /\ (kind[k] # "manager" => Len(stack) <= 1)
      BY <2>1, <2>4, <3>3, <3>4 DEF Places
    <3> QED BY <2>1, <2>4, <3>3, <3>4, <3>5, LevelsMove
  <2> QED BY <1>7, <2>5, <2>6, <2>7 DEF Return
<1>8. ASSUME NEW k \in Calls, Catch(k) \/ PersistCatch(k) PROVE LevelInv'
  <2>1. /\ at[k] = "failing" /\ open' = [open EXCEPT ![k] = Outer(k)]
        /\ kind' = kind /\ used' = used
    BY <1>8 DEF Catch, PersistCatch
  <2>2. Level(k) # 0 /\ (kind[k] # "manager" => Level(k) <= 1)
    BY <1>a, <2>1 DEF LevelFacts, InsideCall
  <2>3. Outer(k) \in Seq(Deeds) /\ Len(Outer(k)) = Level(k) - 1
    BY <1>b, <2>2, Stacks DEF Outer, Level
  <2>4. PICK p \in {"running", "failing", "ready", "leaving"} :
          /\ at' = [at EXCEPT ![k] = p]
          /\ p \in {"running", "failing"} <=> Level(k) # 1
    <3>1. CASE Catch(k)
      BY <3>1 DEF Catch, Rethrown, Outside
    <3>2. CASE PersistCatch(k)
      <4>1. kind[k] = "persist" /\ at' = [at EXCEPT ![k] = "leaving"]
        BY <3>2 DEF PersistCatch
      <4>2. Level(k) = 1
        BY <1>b, <2>2, <4>1
      <4> QED BY <4>1, <4>2
    <3> QED BY <1>8, <3>1, <3>2
  <2>5. used' \in [Calls -> Nat]
    BY <1>a, <2>1 DEF LevelTypes
  <2>6. /\ Level(k) # 1 <=> Len(Outer(k)) # 0
        /\ kind[k] # "manager" => Len(Outer(k)) <= 1
    BY <1>b, <2>2, <2>3
  <2> QED BY <2>1, <2>3, <2>4, <2>5, <2>6, LevelsMove DEF Places
<1>9. ASSUME NEW k \in Calls, ConnectionError(k) PROVE LevelInv'
  BY <1>9 DEF ConnectionError, LevelInv, LevelTypes, LevelFacts, InsideCall, Level
<1>10. CASE ClosePool
  BY <1>10 DEF ClosePool, LevelInv, LevelTypes, LevelFacts, InsideCall, Level
<1> QED
  BY <1>1, <1>2, <1>3, <1>4, <1>5, <1>6, <1>7, <1>8, <1>9, <1>10 DEF Next, CallStep

-----------------------------------------------------------------------------
(* What the answers of the server leave behind.                            *)

\* A session and a reply are records with their fields, whatever they hold.
IsSession(s) == DOMAIN s = {"frames", "failed", "changed", "alive"}

IsReply(r) ==
    DOMAIN r = {"ok", "session", "durable", "cause"} /\ IsSession(r.session)

\* The session t goes on with the options that s had.
Same(s, t) == IsSession(t) /\ t.alive = s.alive /\ t.changed = s.changed

\* The transaction of s, if any, has come to its end in t.
Over(v, s, t) ==
    /\ IsSession(t) /\ t.alive = s.alive
    /\ t.frames = <<>>
    /\ t.changed => s.changed /\ v = "oracle"

LEMMA RepliesAre ==
    ASSUME NEW s, IsSession(s), NEW durables
    PROVE  /\ IsReply(Reply(TRUE, s, durables)) /\ Reply(TRUE, s, durables).ok
           /\ Reply(TRUE, s, durables).session = s
           /\ IsReply(Reply(FALSE, s, durables)) /\ ~Reply(FALSE, s, durables).ok
           /\ Reply(FALSE, s, durables).session = s
<1>1. IsReply(Reply(TRUE, s, durables)) /\ IsReply(Reply(FALSE, s, durables))
  BY DEF IsReply, Reply
<1>2. Reply(TRUE, s, durables).ok /\ ~Reply(FALSE, s, durables).ok
  BY DEF Reply
<1>3. Reply(TRUE, s, durables).session = s /\ Reply(FALSE, s, durables).session = s
  BY DEF Reply
<1> QED BY <1>1, <1>2, <1>3

LEMMA FaultsAre ==
    ASSUME NEW r, IsReply(r)
    PROVE  IsReply(Fault(r)) /\ Fault(r).ok = r.ok /\ Fault(r).session = r.session
BY DEF IsReply, Fault

LEMMA Dead == IsSession(DeadSession) /\ ~DeadSession.alive
BY DEF IsSession, DeadSession

LEMMA SessionWritten ==
    ASSUME NEW s, IsSession(s)
    PROVE  /\ \A f : /\ IsSession([s EXCEPT !.failed = f])
                     /\ [s EXCEPT !.failed = f].alive = s.alive
                     /\ [s EXCEPT !.failed = f].changed = s.changed
                     /\ [s EXCEPT !.failed = f].frames = s.frames
           /\ \A f : /\ IsSession([s EXCEPT !.frames = f])
                     /\ [s EXCEPT !.frames = f].alive = s.alive
                     /\ [s EXCEPT !.frames = f].changed = s.changed
                     /\ [s EXCEPT !.frames = f].frames = f
           /\ \A f : /\ IsSession([s EXCEPT !.changed = f])
                     /\ [s EXCEPT !.changed = f].alive = s.alive
                     /\ [s EXCEPT !.changed = f].changed = f
                     /\ [s EXCEPT !.changed = f].frames = s.frames
<1>1. ASSUME NEW f
      PROVE  /\ IsSession([s EXCEPT !.failed = f])
             /\ [s EXCEPT !.failed = f].alive = s.alive
             /\ [s EXCEPT !.failed = f].changed = s.changed
             /\ [s EXCEPT !.failed = f].frames = s.frames
  BY DEF IsSession
<1>2. ASSUME NEW f
      PROVE  /\ IsSession([s EXCEPT !.frames = f])
             /\ [s EXCEPT !.frames = f].alive = s.alive
             /\ [s EXCEPT !.frames = f].changed = s.changed
             /\ [s EXCEPT !.frames = f].frames = f
  BY DEF IsSession
<1>3. ASSUME NEW f
      PROVE  /\ IsSession([s EXCEPT !.changed = f])
             /\ [s EXCEPT !.changed = f].alive = s.alive
             /\ [s EXCEPT !.changed = f].changed = f
             /\ [s EXCEPT !.changed = f].frames = s.frames
  BY DEF IsSession
<1> QED BY <1>1, <1>2, <1>3

LEMMA RefuseIs ==
    ASSUME NEW v, NEW s, IsSession(s)
    PROVE  /\ IsReply(Refuse(v, s)) /\ ~Refuse(v, s).ok
           /\ Same(s, Refuse(v, s).session)
           /\ Refuse(v, s).session.frames = s.frames
<1> DEFINE t == [s EXCEPT !.failed = s.failed \/ (v = "postgres" /\ InTransaction(s))]
<1>1. Same(s, t) /\ t.frames = s.frames
  BY SessionWritten DEF Same
<1>2. Refuse(v, s) = Reply(FALSE, t, {})
  BY DEF Refuse
<1> HIDE DEF t
<1>3. IsSession(t)
  BY <1>1 DEF Same
<1>4. /\ IsReply(Reply(FALSE, t, {})) /\ ~Reply(FALSE, t, {}).ok
      /\ Reply(FALSE, t, {}).session = t
  BY <1>3, RepliesAre
<1> QED BY <1>1, <1>2, <1>4

LEMMA EndedIs ==
    ASSUME NEW v, NEW s, IsSession(s)
    PROVE  Over(v, s, Ended(v, s))
<1> DEFINE t == Ended(v, s)
<1>1. IsSession(t) /\ t.alive = s.alive /\ t.frames = <<>>
  BY DEF Ended, IsSession
<1>2. t.changed => s.changed /\ v = "oracle"
  BY DEF Ended, IsSession
<1> QED BY <1>1, <1>2 DEF Over

LEMMA BeginIs ==
    ASSUME NEW v, NEW s, IsSession(s)
    PROVE  IsReply(Begin(v, s)) /\ Same(s, Begin(v, s).session)
<1>1. IsReply(Refuse(v, s)) /\ Same(s, Refuse(v, s).session)
  BY RefuseIs
<1>2. IsReply(Reply(TRUE, s, {})) /\ Same(s, Reply(TRUE, s, {}).session)
  <2>1. IsReply(Reply(TRUE, s, {})) /\ Reply(TRUE, s, {}).session = s
    BY RepliesAre
  <2> QED BY <2>1 DEF Same
<1> DEFINE t == [s EXCEPT !.frames = <<Frame(0)>>]
<1>3. Same(s, t)
  BY SessionWritten DEF Same
<1> HIDE DEF t
<1>4. IsReply(Reply(TRUE, t, {})) /\ Same(s, Reply(TRUE, t, {}).session)
  <2>1. IsSession(t)
    BY <1>3 DEF Same
  <2>2. IsReply(Reply(TRUE, t, {})) /\ Reply(TRUE, t, {}).session = t
    BY <2>1, RepliesAre
  <2> QED BY <1>3, <2>2
<1> QED BY <1>1, <1>2, <1>4 DEF Begin, t

\* A statement whose effect is on the frames alone.
LEMMA FramesAre ==
    ASSUME NEW s, IsSession(s), NEW f, NEW durables
    PROVE  /\ IsReply(Reply(TRUE, [s EXCEPT !.frames = f], durables))
           /\ Same(s, Reply(TRUE, [s EXCEPT !.frames = f], durables).session)
<1> DEFINE t == [s EXCEPT !.frames = f]
<1>1. Same(s, t)
  BY SessionWritten DEF Same
<1> HIDE DEF t
<1>2. IsReply(Reply(TRUE, t, durables)) /\ Same(s, Reply(TRUE, t, durables).session)
  <2>1. IsSession(t)
    BY <1>1 DEF Same
  <2>2. IsReply(Reply(TRUE, t, durables)) /\ Reply(TRUE, t, durables).session = t
    BY <2>1, RepliesAre
  <2> QED BY <1>1, <2>2
<1> QED BY <1>2 DEF t

LEMMA SavepointIs ==
    ASSUME NEW v, NEW s, IsSession(s), NEW mark \in Int
    PROVE  /\ IsReply(Savepoint(v, s, mark)) /\ Same(s, Savepoint(v, s, mark).session)
           /\ mark <= 0 => ~Savepoint(v, s, mark).ok
<1>1. /\ IsReply(Refuse(v, s)) /\ Same(s, Refuse(v, s).session)
      /\ ~Refuse(v, s).ok
  BY RefuseIs
<1>2. \/ Savepoint(v, s, mark) = Refuse(v, s)
      \/ /\ ~(mark <= 0)
         /\ \E f : Savepoint(v, s, mark) = Reply(TRUE, [s EXCEPT !.frames = f], {})
  BY DEF Savepoint
<1> QED BY <1>1, <1>2, FramesAre

LEMMA ReleaseIs ==
    ASSUME NEW v, NEW s, IsSession(s), NEW mark
    PROVE  IsReply(Release(v, s, mark)) /\ Same(s, Release(v, s, mark).session)
<1>1. IsReply(Refuse(v, s)) /\ Same(s, Refuse(v, s).session)
  BY RefuseIs
<1>2. \/ Release(v, s, mark) = Refuse(v, s)
      \/ \E f : Release(v, s, mark) = Reply(TRUE, [s EXCEPT !.frames = f], {})
  BY DEF Release
<1> QED BY <1>1, <1>2, FramesAre

LEMMA RollbackToIs ==
    ASSUME NEW v, NEW s, IsSession(s), NEW mark
    PROVE  IsReply(RollbackTo(v, s, mark)) /\ Same(s, RollbackTo(v, s, mark).session)
<1>1. IsReply(Refuse(v, s)) /\ Same(s, Refuse(v, s).session)
  BY RefuseIs
<1>2. \/ RollbackTo(v, s, mark) = Refuse(v, s)
      \/ \E f : RollbackTo(v, s, mark)
                  = Reply(TRUE, [s EXCEPT !.frames = f, !.failed = FALSE], {})
  BY DEF RollbackTo
<1>3. ASSUME NEW f, RollbackTo(v, s, mark)
                      = Reply(TRUE, [s EXCEPT !.frames = f, !.failed = FALSE], {})
      PROVE  IsReply(RollbackTo(v, s, mark)) /\ Same(s, RollbackTo(v, s, mark).session)
  <2> DEFINE t == [s EXCEPT !.frames = f, !.failed = FALSE]
  <2>1. Same(s, t)
    BY DEF Same, IsSession
  <2> HIDE DEF t
  <2>2. RollbackTo(v, s, mark) = Reply(TRUE, t, {})
    BY <1>3 DEF t
  <2>3. IsSession(t)
    BY <2>1 DEF Same
  <2>4. IsReply(Reply(TRUE, t, {})) /\ Reply(TRUE, t, {}).session = t
    BY <2>3, RepliesAre
  <2> QED BY <2>1, <2>2, <2>4
<1> QED BY <1>1, <1>2, <1>3

LEMMA CommitIs ==
    ASSUME NEW v, NEW s, IsSession(s)
    PROVE  /\ IsReply(Commit(v, s)) /\ Over(v, s, Commit(v, s).session)
           /\ IsReply(RefusedCommit(v, s)) /\ Over(v, s, RefusedCommit(v, s).session)
           /\ ~RefusedCommit(v, s).ok
<1>1. Over(v, s, Ended(v, s)) /\ IsSession(Ended(v, s))
  BY EndedIs DEF Over
<1>2. ASSUME NEW durables
      PROVE  /\ IsReply(Reply(TRUE, Ended(v, s), durables))
             /\ Reply(TRUE, Ended(v, s), durables).session = Ended(v, s)
  BY <1>1, RepliesAre
<1>3. /\ IsReply(Reply(FALSE, Ended(v, s), {})) /\ ~Reply(FALSE, Ended(v, s), {}).ok
      /\ Reply(FALSE, Ended(v, s), {}).session = Ended(v, s)
  BY <1>1, RepliesAre
<1>4. IsReply(Commit(v, s)) /\ Commit(v, s).session = Ended(v, s)
  <2>1. PICK durables : Commit(v, s) = Reply(TRUE, Ended(v, s), durables)
    BY DEF Commit
  <2> QED BY <1>2, <2>1
<1>5. /\ IsReply(RefusedCommit(v, s)) /\ ~RefusedCommit(v, s).ok
      /\ RefusedCommit(v, s).session = Ended(v, s)
  BY <1>3 DEF RefusedCommit
<1> QED BY <1>1, <1>4, <1>5

LEMMA RollbackIs ==
    ASSUME NEW v, NEW s, IsSession(s)
    PROVE  IsReply(Rollback(v, s)) /\ Over(v, s, Rollback(v, s).session)
<1>1. Over(v, s, Ended(v, s)) /\ IsSession(Ended(v, s))
  BY EndedIs DEF Over
<1>2. /\ IsReply(Reply(TRUE, Ended(v, s), {}))
      /\ Reply(TRUE, Ended(v, s), {}).session = Ended(v, s)
  BY <1>1, RepliesAre
<1> QED BY <1>1, <1>2 DEF Rollback

LEMMA AnsweredLateIs ==
    ASSUME NEW r, IsReply(r)
    PROVE  /\ IsReply(AnsweredLate(r)) /\ ~AnsweredLate(r).ok
           /\ AnsweredLate(r).session = r.session
<1>1. AnsweredLate(r).session = r.session
  BY DEF IsReply, AnsweredLate
<1>2. ~AnsweredLate(r).ok
  BY DEF IsReply, AnsweredLate
<1>3. IsReply(AnsweredLate(r))
  BY DEF IsReply, AnsweredLate
<1> QED BY <1>1, <1>2, <1>3

\* The reply that a runner gets: one of the two, or that of a dead connection.
LEMMA QueryIs ==
    ASSUME NEW q, ~q.released, NEW s, IsSession(s), NEW due, IsReply(due),
           NEW failing, IsReply(failing), NEW r \in Query(q, s, due, failing)
    PROVE  /\ IsReply(r)
           /\ \/ ~r.ok /\ ~r.session.alive
              \/ s.alive /\ r.session = due.session /\ r.ok = due.ok
              \/ s.alive /\ r.session = failing.session /\ r.ok = failing.ok
<1>1. CASE ~s.alive
  <2>1. r = Reply(FALSE, s, {})
    BY <1>1 DEF Query, Replies
  <2>2. /\ IsReply(Reply(FALSE, s, {})) /\ ~Reply(FALSE, s, {}).ok
        /\ Reply(FALSE, s, {}).session = s
    BY RepliesAre
  <2> QED BY <1>1, <2>1, <2>2
<1>2. CASE s.alive
  <2> DEFINE early == Reply(FALSE, DeadSession, {})
             late  == Reply(FALSE, DeadSession, due.durable)
  <2>1. \/ r = due \/ r = Fault(failing) \/ r = Fault(early) \/ r = Fault(late)
    BY <1>2 DEF Query, Replies
  <2>2. /\ IsReply(early) /\ ~early.ok /\ early.session = DeadSession
        /\ IsReply(late) /\ ~late.ok /\ late.session = DeadSession
    BY Dead, RepliesAre
  <2> HIDE DEF early, late
  <2> QED BY <1>2, <2>1, <2>2, Dead, FaultsAre
<1> QED BY <1>1, <1>2

-----------------------------------------------------------------------------
(* The outcomes of the methods, as far as the connection lives on.         *)

LEMMA ThrownIs ==
    ASSUME NEW q, NEW s, NEW cause
    PROVE  /\ ~Thrown(q, s, cause).ok /\ Thrown(q, s, cause).runner = q
           /\ Thrown(q, s, cause).session = s /\ Thrown(q, s, cause).cause = cause
<1>1. Thrown(q, s, cause).runner = q /\ Thrown(q, s, cause).cause = cause
  BY DEF Thrown, Outcome
<1>2. ~Thrown(q, s, cause).ok
  BY DEF Thrown, Outcome
<1>3. Thrown(q, s, cause).session = s
  BY DEF Thrown, Outcome, Reply
<1> QED BY <1>1, <1>2, <1>3

\* A transaction begins: a subscriber stopped it, or the runner is active.
StartedAs(q, s, o) ==
    /\ s.alive /\ Same(s, o.session)
    /\ \/ /\ o.cause = "before" /\ ~o.ok /\ o.session = s
          /\ ~o.runner.active /\ o.runner.depth = q.depth
       \/ /\ o.runner.active
          /\ o.runner.depth \in {q.depth, q.depth + 1}
          /\ o.ok => o.runner.depth = q.depth + 1 /\ q.depth >= 0

LEMMA StartOutcome ==
    ASSUME NEW v, NEW q \in Runners, ~q.released, NEW s, IsSession(s),
           NEW o \in StartTransaction(v, q, s)
    PROVE  IsSession(o.session) /\ (o.session.alive => StartedAs(q, s, o))
<1> DEFINE begun == [q EXCEPT !.active = TRUE]
           due   == IF q.depth = 0 THEN Begin(v, s) ELSE Savepoint(v, s, q.depth)
           sent  == Query(q, s, due, Refuse(v, s))
           done  == [begun EXCEPT !.depth = q.depth + 1]
           back  == [q EXCEPT !.active = FALSE]
<1>1. begun \in Runners /\ begun.active /\ begun.depth = q.depth
  BY ActiveWritten
<1>2. back \in Runners /\ ~back.active /\ back.depth = q.depth
  BY ActiveWritten
<1>3. q.depth \in Int /\ q.depth + 1 \in Int
  BY DEF Runners
<1>4. done.active /\ done.depth = q.depth + 1
  BY <1>1, <1>3, DepthWritten
<1>5. /\ IsReply(due) /\ Same(s, due.session)
      /\ q.depth < 0 => ~due.ok
  BY <1>3, BeginIs, SavepointIs
<1>6. /\ IsReply(Refuse(v, s)) /\ Same(s, Refuse(v, s).session)
      /\ ~Refuse(v, s).ok
  BY RefuseIs
<1>7. ASSUME NEW r \in sent
      PROVE  /\ IsReply(r)
             /\ r.session.alive => s.alive /\ Same(s, r.session)
             /\ q.depth < 0 => ~r.ok
  BY <1>5, <1>6, QueryIs DEF Same
<1>8. \/ o = Thrown(back, s, "before")
      \/ o \in Outcomes(sent, begun, done)
      \/ o \in {Outcome(FALSE, begun, Fault(Refuse(v, r.session)), "database") :
                  r \in {x \in sent : x.ok /\ q.depth = 0 /\ v = "postgres"}}
  BY DEF StartTransaction
<1> HIDE DEF begun, due, sent, done, back
<1>9. CASE o = Thrown(back, s, "before")
  BY <1>2, <1>9, ThrownIs DEF StartedAs, Same
<1>10. CASE o \in Outcomes(sent, begun, done)
  <2>1. PICK r \in sent :
          /\ o.session = r.session
          /\ \/ ~o.ok /\ ~r.ok /\ o.runner = begun /\ o.cause = r.cause
             \/ o.ok /\ r.ok /\ o.runner = done /\ o.cause = r.cause
             \/ ~o.ok /\ r.ok /\ o.runner = done /\ o.cause = "after"
    BY <1>10, OutcomesFrom
  <2>2. /\ IsReply(r)
        /\ r.session.alive => s.alive /\ Same(s, r.session)
        /\ q.depth < 0 => ~r.ok
    BY <1>7
  <2>3. IsSession(o.session)
    BY <2>1, <2>2 DEF IsReply
  <2>4. o.session.alive => s.alive /\ Same(s, o.session)
    BY <2>1, <2>2
  <2>5. /\ o.runner.active /\ o.runner.depth \in {q.depth, q.depth + 1}
        /\ o.ok => o.runner.depth = q.depth + 1 /\ q.depth >= 0
    BY <1>1, <1>3, <1>4, <2>1, <2>2
  <2> QED BY <2>3, <2>4, <2>5 DEF StartedAs
<1>11. CASE o \in {Outcome(FALSE, begun, Fault(Refuse(v, r.session)), "database") :
                     r \in {x \in sent : x.ok /\ q.depth = 0 /\ v = "postgres"}}
  <2>1. PICK r \in sent :
          o = Outcome(FALSE, begun, Fault(Refuse(v, r.session)), "database")
    BY <1>11
  <2>2. /\ IsReply(r)
        /\ r.session.alive => s.alive /\ Same(s, r.session)
    BY <1>7
  <2>3. ~o.ok /\ o.runner = begun
    BY <2>1 DEF Outcome
  <2>4. o.session = Fault(Refuse(v, r.session)).session
    BY <2>1 DEF Outcome
  <2>5. /\ IsReply(Refuse(v, r.session))
        /\ Same(r.session, Refuse(v, r.session).session)
    BY <2>2, RefuseIs DEF IsReply
  <2>6. o.session = Refuse(v, r.session).session
    BY <2>4, <2>5, FaultsAre
  <2>7. Same(r.session, o.session)
    BY <2>5, <2>6
  <2>8. IsSession(o.session) /\ (o.session.alive => s.alive /\ Same(s, o.session))
    BY <2>2, <2>7 DEF Same
  <2> QED BY <1>1, <2>3, <2>8 DEF StartedAs
<1> QED BY <1>8, <1>9, <1>10, <1>11

\* A method ends a transaction as a whole, or an inner one.
EndedAs(v, q, s, o) ==
    /\ q.active /\ o.runner.depth = q.depth - 1
    /\ IF o.runner.active THEN q.depth # 1 /\ Same(s, o.session)
       ELSE q.depth <= 1 /\ Over(v, s, o.session)

CommittedAs(v, q, s, o) ==
    /\ s.alive
    /\ \/ ~o.ok /\ o.runner = q /\ o.session = s
       \/ /\ ~o.ok /\ q.active /\ o.runner = q
          /\ (Same(s, o.session) \/ Over(v, s, o.session))
       \/ EndedAs(v, q, s, o)

LEMMA CommitOutcome ==
    ASSUME NEW v, NEW q \in Runners, ~q.released, NEW s, IsSession(s),
           NEW o \in CommitTransaction(v, q, s)
    PROVE  IsSession(o.session) /\ (o.session.alive => CommittedAs(v, q, s, o))
<1> DEFINE outer == [q EXCEPT !.depth = q.depth - 1, !.active = FALSE]
           inner == [q EXCEPT !.depth = q.depth - 1]
           whole == IF v = "postgres" THEN q.depth <= 1 ELSE q.depth = 1
           commit == Query(q, s, Commit(v, s), RefusedCommit(v, s))
           release == Query(q, s, Release(v, s, q.depth - 1), Refuse(v, s))
           nothing == {Reply(TRUE, s, {})}
<1>1. q.depth \in Int /\ q.depth - 1 \in Int
  BY DEF Runners
<1>2. inner \in Runners /\ inner.active = q.active /\ inner.depth = q.depth - 1
  BY <1>1, DepthWritten
<1>3. outer = [inner EXCEPT !.active = FALSE]
  OBVIOUS
<1>4. ~outer.active /\ outer.depth = q.depth - 1
  BY <1>2, <1>3, ActiveWritten
<1>5. \/ o = Thrown(q, s, "none") \/ o = Thrown(q, s, "before")
      \/ q.active /\ whole /\ o \in Outcomes(commit, q, outer)
      \/ q.active /\ ~whole /\ v = "postgres" /\ o \in Outcomes(release, q, inner)
      \/ q.active /\ ~whole /\ v # "postgres" /\ o \in Outcomes(nothing, q, inner)
  BY DEF CommitTransaction
<1>6. ASSUME NEW r \in commit
      PROVE  IsReply(r) /\ (r.session.alive => s.alive /\ Over(v, s, r.session))
  <2>1. /\ IsReply(Commit(v, s)) /\ Over(v, s, Commit(v, s).session)
        /\ IsReply(RefusedCommit(v, s)) /\ Over(v, s, RefusedCommit(v, s).session)
    BY CommitIs
  <2> QED BY <2>1, QueryIs
<1>7. ASSUME NEW r \in release
      PROVE  IsReply(r) /\ (r.session.alive => s.alive /\ Same(s, r.session))
  <2>1. /\ IsReply(Release(v, s, q.depth - 1)) /\ Same(s, Release(v, s, q.depth - 1).session)
        /\ IsReply(Refuse(v, s)) /\ Same(s, Refuse(v, s).session)
    BY ReleaseIs, RefuseIs
  <2> QED BY <2>1, QueryIs
<1>8. ASSUME NEW r \in nothing
      PROVE  IsReply(r) /\ Same(s, r.session)
  <2>1. r = Reply(TRUE, s, {})
    OBVIOUS
  <2>2. IsReply(Reply(TRUE, s, {})) /\ Reply(TRUE, s, {}).session = s
    BY RepliesAre
  <2> QED BY <2>1, <2>2 DEF Same
<1>9. whole <=> IF v = "postgres" THEN q.depth <= 1 ELSE q.depth = 1
  OBVIOUS
<1> HIDE DEF outer, inner, whole, commit, release, nothing
<1>10. CASE o = Thrown(q, s, "none") \/ o = Thrown(q, s, "before")
  BY <1>10, ThrownIs DEF CommittedAs
<1>11. CASE q.active /\ whole /\ o \in Outcomes(commit, q, outer)
  <2>1. PICK r \in commit :
          /\ o.session = r.session
          /\ \/ ~o.ok /\ o.runner = q
             \/ o.runner = outer
    BY <1>11, OutcomesFrom
  <2>2. IsReply(r) /\ (r.session.alive => s.alive /\ Over(v, s, r.session))
    BY <1>6
  <2>3. q.depth <= 1
    BY <1>1, <1>9, <1>11
  <2>4. IsSession(o.session) /\ (o.session.alive => s.alive /\ Over(v, s, o.session))
    BY <2>1, <2>2 DEF IsReply
  <2> QED BY <1>4, <1>11, <2>1, <2>3, <2>4 DEF CommittedAs, EndedAs
<1>12. ASSUME q.active, ~whole,
              \/ o \in Outcomes(release, q, inner)
              \/ o \in Outcomes(nothing, q, inner)
       PROVE  IsSession(o.session) /\ (o.session.alive => CommittedAs(v, q, s, o))
  <2>1. PICK r \in release \cup nothing :
          /\ o.session = r.session
          /\ \/ ~o.ok /\ o.runner = q
             \/ o.runner = inner
    BY <1>12, OutcomesFrom
  <2>2. IsReply(r) /\ (r.session.alive => s.alive /\ Same(s, r.session))
    BY <1>7, <1>8 DEF Same
  <2>3. q.depth # 1
    BY <1>1, <1>9, <1>12
  <2>4. IsSession(o.session) /\ (o.session.alive => s.alive /\ Same(s, o.session))
    BY <2>1, <2>2 DEF IsReply
  <2>5. q.active
    BY <1>12
  <2> QED BY <1>2, <2>1, <2>3, <2>4, <2>5 DEF CommittedAs, EndedAs
<1> QED BY <1>5, <1>10, <1>11, <1>12

RolledBackAs(v, q, s, o) ==
    /\ s.alive
    /\ \/ ~o.ok /\ o.session = s /\ (~q.active \/ o.cause = "before")
       \/ q.active /\ ~o.ok /\ q.depth <= 1 /\ Over(v, s, o.session)
       \/ q.active /\ ~o.ok /\ q.depth > 1
       \/ q.active /\ o.ok /\ EndedAs(v, q, s, o) /\ (q.depth > 1 <=> o.runner.active)

LEMMA RollbackOutcome ==
    ASSUME NEW v, NEW q \in Runners, ~q.released, NEW s, IsSession(s),
           NEW o \in RollbackTransaction(v, q, s)
    PROVE  IsSession(o.session) /\ (o.session.alive => RolledBackAs(v, q, s, o))
<1> DEFINE outer == [q EXCEPT !.depth = q.depth - 1, !.active = FALSE]
           inner == [q EXCEPT !.depth = q.depth - 1]
           due   == IF q.depth > 1 THEN RollbackTo(v, s, q.depth - 1) ELSE Rollback(v, s)
           done  == IF q.depth > 1 THEN inner ELSE outer
           sent  == Query(q, s, due, AnsweredLate(due))
<1>1. q.depth \in Int /\ q.depth - 1 \in Int
  BY DEF Runners
<1>2. inner \in Runners /\ inner.active = q.active /\ inner.depth = q.depth - 1
  BY <1>1, DepthWritten
<1>3. outer = [inner EXCEPT !.active = FALSE]
  OBVIOUS
<1>4. ~outer.active /\ outer.depth = q.depth - 1
  BY <1>2, <1>3, ActiveWritten
<1>5. \/ ~q.active /\ o = Thrown(q, s, "none")
      \/ o = Thrown(q, s, "before")
      \/ q.active /\ o \in Outcomes(sent, q, done)
  BY DEF RollbackTransaction
<1>6. /\ IsReply(due)
      /\ IF q.depth > 1 THEN Same(s, due.session) ELSE Over(v, s, due.session)
  BY RollbackToIs, RollbackIs
<1>7. /\ IsReply(AnsweredLate(due)) /\ AnsweredLate(due).session = due.session
  BY <1>6, AnsweredLateIs
<1> HIDE DEF due
<1>8. ASSUME NEW r \in sent
      PROVE  /\ IsReply(r)
             /\ r.session.alive => s.alive /\ r.session = due.session
  BY <1>6, <1>7, QueryIs
<1>9. done = IF q.depth > 1 THEN inner ELSE outer
  OBVIOUS
<1> HIDE DEF outer, inner, done, sent
<1>10. CASE (o = Thrown(q, s, "none") /\ ~q.active) \/ o = Thrown(q, s, "before")
  BY <1>10, ThrownIs DEF RolledBackAs
<1>11. CASE q.active /\ o \in Outcomes(sent, q, done)
  <2>1. PICK r \in sent : o.session = r.session /\ (o.ok => o.runner = done)
    BY <1>11, OutcomesFrom
  <2>2. IsReply(r) /\ (r.session.alive => s.alive /\ r.session = due.session)
    BY <1>8
  <2>3. IsSession(o.session) /\ (o.session.alive => s.alive /\ o.session = due.session)
    BY <2>1, <2>2 DEF IsReply
  <2>4. CASE q.depth > 1
    <3>1. q.depth # 1
      BY <1>1, <2>4
    <3>2. q.active /\ done = inner
      BY <1>9, <1>11, <2>4
    <3>3. o.ok => o.runner.active /\ o.runner.depth = q.depth - 1
      BY <1>2, <2>1, <3>2
    <3> QED BY <1>6, <1>11, <2>3, <2>4, <3>1, <3>3 DEF RolledBackAs, EndedAs
  <2>5. CASE ~(q.depth > 1)
    <3>1. q.depth <= 1
      BY <1>1, <2>5
    <3>2. o.ok => ~o.runner.active /\ o.runner.depth = q.depth - 1
      BY <1>4, <1>9, <2>1, <2>5
    <3> QED BY <1>6, <1>11, <2>3, <2>5, <3>1, <3>2 DEF RolledBackAs, EndedAs
  <2> QED BY <2>4, <2>5
<1> QED BY <1>5, <1>10, <1>11

-----------------------------------------------------------------------------
(* What other statements leave behind.                                     *)

LEMMA OptionSetIs ==
    ASSUME NEW v, NEW s, IsSession(s)
    PROVE  /\ IsReply(SetOption(v, s, TRUE))
           /\ SetOption(v, s, TRUE).session.alive = s.alive
           /\ SetOption(v, s, TRUE).session.frames = s.frames
           /\ IF SetOption(v, s, TRUE).ok
              THEN SetOption(v, s, TRUE).session.changed
              ELSE SetOption(v, s, TRUE).session.changed = s.changed
<1> DEFINE t == [s EXCEPT !.changed = TRUE]
<1>1. /\ IsReply(Refuse(v, s)) /\ ~Refuse(v, s).ok
      /\ Same(s, Refuse(v, s).session) /\ Refuse(v, s).session.frames = s.frames
  BY RefuseIs
<1>2. IsSession(t) /\ t.alive = s.alive /\ t.frames = s.frames
  BY DEF IsSession
<1>3. t.changed
  BY DEF IsSession
<1>4. SetOption(v, s, TRUE) \in {Refuse(v, s), Reply(TRUE, t, {})}
  BY DEF SetOption
<1> HIDE DEF t
<1>5. /\ IsReply(Reply(TRUE, t, {})) /\ Reply(TRUE, t, {}).ok
      /\ Reply(TRUE, t, {}).session = t
  BY <1>2, RepliesAre
<1> QED BY <1>1, <1>2, <1>3, <1>4, <1>5 DEF Same

LEMMA OptionRestoredIs ==
    ASSUME NEW v, NEW s, IsSession(s)
    PROVE  /\ IsReply(SetOption(v, s, FALSE))
           /\ SetOption(v, s, FALSE).session.alive = s.alive
           /\ SetOption(v, s, FALSE).session.frames = s.frames
           /\ IF SetOption(v, s, FALSE).ok
              THEN ~SetOption(v, s, FALSE).session.changed
              ELSE SetOption(v, s, FALSE).session.changed = s.changed
<1> DEFINE t == [s EXCEPT !.changed = FALSE]
<1>1. /\ IsReply(Refuse(v, s)) /\ ~Refuse(v, s).ok
      /\ Same(s, Refuse(v, s).session) /\ Refuse(v, s).session.frames = s.frames
  BY RefuseIs
<1>2. IsSession(t) /\ t.alive = s.alive /\ t.frames = s.frames
  BY DEF IsSession
<1>3. ~t.changed
  BY DEF IsSession
<1>4. SetOption(v, s, FALSE) \in {Refuse(v, s), Reply(TRUE, t, {})}
  BY DEF SetOption
<1> HIDE DEF t
<1>5. /\ IsReply(Reply(TRUE, t, {})) /\ Reply(TRUE, t, {}).ok
      /\ Reply(TRUE, t, {}).session = t
  BY <1>2, RepliesAre
<1> QED BY <1>1, <1>2, <1>3, <1>4, <1>5 DEF Same

\* A statement changes no option, and opens a transaction only in a runner
\* that believes in one.
LEMMA DoIs ==
    ASSUME NEW v \in Vendors, NEW s, IsSession(s), NEW w, NEW autoCommit \in BOOLEAN
    PROVE  /\ IsReply(Do(v, s, w, autoCommit))
           /\ Do(v, s, w, autoCommit).session.alive = s.alive
           /\ Do(v, s, w, autoCommit).session.changed => s.changed
           /\ InTransaction(Do(v, s, w, autoCommit).session) =>
                InTransaction(s) \/ ~autoCommit
<1> DEFINE r == Do(v, s, w, autoCommit)
<1>1. CASE r = Refuse(v, s)
  <2>1. /\ IsReply(Refuse(v, s)) /\ Same(s, Refuse(v, s).session)
        /\ Refuse(v, s).session.frames = s.frames
    BY RefuseIs
  <2> QED BY <1>1, <2>1 DEF Same, InTransaction
<1>2. CASE r = Reply(TRUE, s, {w})
  <2>1. IsReply(Reply(TRUE, s, {w})) /\ Reply(TRUE, s, {w}).session = s
    BY RepliesAre
  <2> QED BY <1>2, <2>1
<1>3. CASE r = Reply(TRUE, Ended(v, s), WorkOf(s) \cup {w})
  <2>1. Over(v, s, Ended(v, s)) /\ IsSession(Ended(v, s))
    BY EndedIs DEF Over
  <2>2. /\ IsReply(Reply(TRUE, Ended(v, s), WorkOf(s) \cup {w}))
        /\ Reply(TRUE, Ended(v, s), WorkOf(s) \cup {w}).session = Ended(v, s)
    BY <2>1, RepliesAre
  <2> QED BY <1>3, <2>1, <2>2 DEF Over, InTransaction
<1>4. CASE /\ \E f : r = Reply(TRUE, [s EXCEPT !.frames = f], {})
           /\ InTransaction(s) \/ ~autoCommit
  <2>1. PICK f : r = Reply(TRUE, [s EXCEPT !.frames = f], {})
    BY <1>4
  <2>2. /\ IsReply(Reply(TRUE, [s EXCEPT !.frames = f], {}))
        /\ Same(s, Reply(TRUE, [s EXCEPT !.frames = f], {}).session)
    BY FramesAre
  <2> QED BY <1>4, <2>1, <2>2 DEF Same
<1>5. \/ r = Refuse(v, s) \/ r = Reply(TRUE, s, {w})
      \/ r = Reply(TRUE, Ended(v, s), WorkOf(s) \cup {w})
      \/ /\ \E f : r = Reply(TRUE, [s EXCEPT !.frames = f], {})
         /\ InTransaction(s) \/ ~autoCommit
  BY DEF Do, Vendors
<1> QED BY <1>1, <1>2, <1>3, <1>4, <1>5

-----------------------------------------------------------------------------
(* Idle connections.                                                       *)

CleanTypes ==
    /\ vendor \in Vendors
    /\ DOMAIN session = Conns
    /\ \A c \in Conns : IsSession(session[c])

(***************************************************************************)
(* What a runner q inside of n transaction() calls, at place p, believes   *)
(* of its session s: no transaction is open that it does not know of, and  *)
(* it never counts more of them than there are.                            *)
(***************************************************************************)
Knows(q, p, n, s) ==
    /\ InTransaction(s) => q.active
    /\ ~q.active => q.depth <= 0
    /\ q.depth <= n
    /\ p \in {"running", "restoring"} /\ q.active => q.depth >= 1

(***************************************************************************)
(* A changed option ends with the transaction of PostgreSQL; in Oracle it  *)
(* will be restored, or the connection is not trusted any more.            *)
(***************************************************************************)
OptionsEnd(v, d, q, p, o, i, s) ==
    /\ s.changed => d = "configured"
    /\ v = "postgres" /\ s.changed => q.active
    /\ v = "oracle" /\ s.changed =>
         \/ p \in {"running", "restoring", "unwinding"} /\ o = "set"
         \/ p = "failing" /\ i
    /\ d = "configured" /\ p \in {"running", "restoring"} => q.active

\* A call of kind d whose runner is q, at place p, and the session s it holds.
Fits(v, d, q, p, n, o, i, s) ==
    /\ p # "leaving" => Knows(q, p, n, s) /\ OptionsEnd(v, d, q, p, o, i, s)
    /\ p \in {"ready", "leaving"} => Clean(s)

CallFits(k) ==
    holds[k] # None /\ session[holds[k]].alive =>
        Fits(vendor, kind[k], runner[k], at[k], Level(k), opts[k], invalid[k],
             session[holds[k]])

IdleFacts ==
    ~tainted =>
        /\ \A c \in Conns : slot[c] = "idle" => Clean(session[c])
        /\ \A k \in Calls : CallFits(k)

\* Two more variables have values of their types.
OptionTypes ==
    opts \in [Calls -> {"unset", "set", "restored"}] /\ invalid \in [Calls -> BOOLEAN]

CleanInv == LeaseInv /\ LevelInv /\ CleanTypes /\ OptionTypes /\ IdleFacts

LEMMA InitClean == Init => CleanTypes /\ OptionTypes /\ IdleFacts
<1> SUFFICES ASSUME Init PROVE CleanTypes /\ OptionTypes /\ IdleFacts
  OBVIOUS
<1>1. CleanTypes
  BY Dead DEF Init, CleanTypes
<1>2. OptionTypes
  BY DEF Init, OptionTypes
<1>3. IdleFacts
  BY DEF Init, IdleFacts, CallFits
<1> QED BY <1>1, <1>2, <1>3

LEMMA OptionTypesStep == OptionTypes /\ [Next]_vars => OptionTypes'
<1> SUFFICES ASSUME OptionTypes, [Next]_vars PROVE OptionTypes'
  OBVIOUS
<1>1. CASE UNCHANGED vars
  BY <1>1 DEF vars, OptionTypes
<1>2. ASSUME NEW k \in Calls, BeginCall(k) \/ ConnectionError(k) \/ Connect(k)
        \/ ConnectFails(k) \/ Start(k) \/ StartRefused(k) \/ Statement(k)
        \/ CallbackThrows(k) \/ OperationEnds(k) \/ PersistCatch(k) \/ Leave(k)
      PROVE OptionTypes'
  BY <1>2 DEF OptionTypes, BeginCall, ConnectionError, Connect, ConnectFails, Start,
    StartRefused, Statement, CallbackThrows, OperationEnds, PersistCatch, Leave
<1>3. ASSUME NEW k \in Calls, ApplyOptions(k) PROVE OptionTypes'
  BY <1>3 DEF OptionTypes, ApplyOptions
<1>4. ASSUME NEW k \in Calls, RestoreOptions(k) PROVE OptionTypes'
  <2>1. opts' = [opts EXCEPT ![k] = "restored"]
    BY <1>4 DEF RestoreOptions
  <2>2. PICK r : invalid' = [invalid EXCEPT ![k] = ~r.ok]
    BY <1>4 DEF RestoreOptions
  <2>3. (~r.ok) \in BOOLEAN
    BY Zenon
  <2> QED BY <2>1, <2>2, <2>3 DEF OptionTypes
<1>5. ASSUME NEW k \in Calls, Return(k) PROVE OptionTypes'
  BY <1>5 DEF OptionTypes, Return
<1>6. ASSUME NEW k \in Calls, Catch(k) PROVE OptionTypes'
  BY <1>6 DEF OptionTypes, Catch
<1>7. CASE ClosePool
  BY <1>7 DEF OptionTypes, ClosePool
<1> QED BY <1>1, <1>2, <1>3, <1>4, <1>5, <1>6, <1>7 DEF Next, CallStep

\* The calls other than k are where they were.
OthersStay(k) ==
    \A j \in Calls \ {k} :
        /\ at'[j] = at[j] /\ runner'[j] = runner[j] /\ Level(j)' = Level(j)
        /\ opts'[j] = opts[j] /\ invalid'[j] = invalid[j]

\* Nothing but the call k and its session has changed.
LEMMA OneCall ==
    ASSUME CleanInv, NEW k \in Calls, holds' = holds, slot' = slot,
           vendor' = vendor, kind' = kind, OthersStay(k), tainted => tainted',
           NEW t, IsSession(t),
           \/ session' = IF holds[k] = None THEN session
                         ELSE [session EXCEPT ![holds[k]] = t]
           \/ session' = session /\ (holds[k] # None => t = session[holds[k]]),
           ~tainted' /\ holds[k] # None /\ t.alive =>
             Fits(vendor, kind[k], runner'[k], at'[k], Level(k)', opts'[k],
                  invalid'[k], t)
    PROVE  CleanTypes' /\ IdleFacts'
<1>1. holds[k] \in Conns \cup {None} /\ DOMAIN session = Conns
  BY DEF CleanInv, LeaseInv, LeaseTypes, CleanTypes
<1>2. CleanTypes'
  BY <1>1 DEF CleanInv, CleanTypes
<1>3. ASSUME NEW c \in Conns, c # holds[k] PROVE session'[c] = session[c]
  BY <1>1, <1>3
<1>4. holds[k] # None => session'[holds[k]] = t
  BY <1>1
<1>5. ASSUME ~tainted' PROVE \A c \in Conns : slot'[c] = "idle" => Clean(session'[c])
  <2>1. ASSUME NEW c \in Conns, slot[c] = "idle" PROVE c # holds[k] /\ Clean(session[c])
    BY <1>5, <2>1 DEF CleanInv, IdleFacts, LeaseInv, LeasesAreExclusive
  <2> QED BY <1>3, <2>1
<1>6. ASSUME ~tainted', NEW j \in Calls PROVE CallFits(j)'
  <2>1. CASE j = k
    BY <1>4, <1>6, <2>1 DEF CallFits
  <2>2. CASE j # k
    <3>1. CallFits(j)
      BY <1>6 DEF CleanInv, IdleFacts
    <3>2. holds[j] # None => holds[j] \in Conns /\ holds[j] # holds[k]
      BY <2>2 DEF CleanInv, LeaseInv, LeaseTypes, LeasesAreExclusive
    <3>3. holds[j] # None => session'[holds[j]] = session[holds[j]]
      BY <1>3, <3>2
    <3>4. /\ at'[j] = at[j] /\ runner'[j] = runner[j] /\ Level(j)' = Level(j)
          /\ opts'[j] = opts[j] /\ invalid'[j] = invalid[j]
      BY <2>2 DEF OthersStay
    <3> QED BY <3>1, <3>3, <3>4 DEF CallFits
  <2> QED BY <2>1, <2>2
<1> QED BY <1>2, <1>5, <1>6 DEF IdleFacts

\* A call gives its connection back: clean, or not to be used again.
LEMMA OneReturn ==
    ASSUME CleanInv, NEW k \in Calls, NEW q, NEW s, IsSession(s), NEW error \in BOOLEAN,
           ReleaseRunner(k, q, s, error), vendor' = vendor, kind' = kind,
           OthersStay(k), tainted => tainted',
           ~tainted' /\ holds[k] # None /\ s.alive => error \/ Clean(s)
    PROVE  CleanTypes' /\ IdleFacts'
<1>1. /\ holds \in [Calls -> Conns \cup {None}] /\ DOMAIN session = Conns
      /\ slot \in [Conns -> {"idle", "leased", "closed"}]
  BY DEF CleanInv, LeaseInv, LeaseTypes, CleanTypes
<1>2. IsSession(Ended(vendor, s)) /\ (Clean(s) => Clean(Ended(vendor, s)))
  BY EndedIs DEF Over, Clean, InTransaction
<1>3. holds' = [holds EXCEPT ![k] = None]
  BY DEF ReleaseRunner
<1>4. PICK x, t :
        /\ IF holds[k] = None THEN slot' = slot /\ session' = session
           ELSE /\ slot' = [slot EXCEPT ![holds[k]] = x]
                /\ session' = [session EXCEPT ![holds[k]] = t]
        /\ IsSession(t)
        /\ ~tainted' /\ holds[k] # None /\ x = "idle" => Clean(t)
  <2>1. CASE holds[k] = None
    BY <2>1, Dead DEF ReleaseRunner
  <2>2. CASE holds[k] # None /\ (error \/ ended \/ ~s.alive)
    <3>1. /\ slot' = [slot EXCEPT ![holds[k]] = "closed"]
          /\ session' = [session EXCEPT ![holds[k]] = DeadSession]
      BY <2>2 DEF ReleaseRunner, Returned
    <3>2. holds[k] # None /\ "closed" # "idle"
      BY <2>2
    <3> QED BY <3>1, <3>2, Dead
  <2>3. CASE holds[k] # None /\ ~(error \/ ended \/ ~s.alive)
    <3>1. slot' = [slot EXCEPT ![holds[k]] = "idle"]
      BY <2>3 DEF ReleaseRunner, Returned
    <3>2. \/ session' = [session EXCEPT ![holds[k]] = Ended(vendor, s)]
          \/ session' = [session EXCEPT ![holds[k]] = s]
      BY <2>3 DEF ReleaseRunner, Returned
    <3>3. ~tainted' => Clean(s)
      BY <2>3
    <3> QED BY <1>2, <2>3, <3>1, <3>2, <3>3
  <2> QED BY <2>1, <2>2, <2>3
<1>5. CleanTypes'
  BY <1>1, <1>4 DEF CleanInv, CleanTypes
<1>6. ASSUME NEW c \in Conns, c # holds[k]
      PROVE  session'[c] = session[c] /\ slot'[c] = slot[c]
  BY <1>1, <1>4, <1>6
<1>7. ASSUME ~tainted', NEW c \in Conns, slot'[c] = "idle" PROVE Clean(session'[c])
  <2>1. CASE c = holds[k]
    <3>1. c # None
      BY ConstantsAssumption
    <3>2. x = "idle" /\ session'[c] = t
      BY <1>1, <1>4, <1>7, <2>1, <3>1
    <3> QED BY <1>4, <1>7, <2>1, <3>1, <3>2
  <2>2. CASE c # holds[k]
    BY <1>6, <1>7, <2>2 DEF CleanInv, IdleFacts
  <2> QED BY <2>1, <2>2
<1>8. ASSUME ~tainted', NEW j \in Calls PROVE CallFits(j)'
  <2>1. CASE j = k
    BY <1>1, <1>3, <2>1 DEF CallFits
  <2>2. CASE j # k
    <3>1. CallFits(j) /\ holds'[j] = holds[j]
      BY <1>1, <1>3, <1>8, <2>2 DEF CleanInv, IdleFacts
    <3>2. holds[j] # None => holds[j] \in Conns /\ holds[j] # holds[k]
      BY <2>2 DEF CleanInv, LeaseInv, LeaseTypes, LeasesAreExclusive
    <3>3. holds[j] # None => session'[holds[j]] = session[holds[j]]
      BY <1>6, <3>2
    <3>4. /\ at'[j] = at[j] /\ runner'[j] = runner[j] /\ Level(j)' = Level(j)
          /\ opts'[j] = opts[j] /\ invalid'[j] = invalid[j]
      BY <2>2 DEF OthersStay
    <3> QED BY <3>1, <3>3, <3>4 DEF CallFits
  <2> QED BY <2>1, <2>2
<1> QED BY <1>5, <1>7, <1>8 DEF IdleFacts

LEMMA OneCallWithout ==
    ASSUME CleanInv, NEW k \in Calls, holds[k] = None, holds' = holds, slot' = slot,
           session' = session, vendor' = vendor, kind' = kind, OthersStay(k),
           tainted => tainted'
    PROVE  CleanTypes' /\ IdleFacts'
BY OneCall, Dead

\* The connection that a call has.
LEMMA Holder ==
    ASSUME CleanInv, NEW k \in Calls
    PROVE  /\ IsSession(SessionOf(k))
           /\ runner[k] \in Runners /\ runner[k].depth \in Int
           /\ Level(k) \in Nat /\ open[k] \in Seq(Deeds)
           /\ InsideCall(k) <=> Level(k) # 0
           /\ kind[k] # "manager" => Level(k) <= 1
           /\ vendor \in Vendors
           /\ holds[k] # None =>
                ~runner[k].released /\ SessionOf(k) = session[holds[k]]
           /\ holds[k] # None /\ ~tainted /\ SessionOf(k).alive =>
                Fits(vendor, kind[k], runner[k], at[k], Level(k), opts[k],
                     invalid[k], SessionOf(k))
<1>1. holds[k] # None => SessionOf(k) = session[holds[k]] /\ holds[k] \in Conns
  BY DEF CleanInv, LeaseInv, LeaseTypes, SessionOf
<1>2. IsSession(SessionOf(k))
  BY <1>1, Dead DEF CleanInv, CleanTypes, SessionOf
<1>3. runner[k] \in Runners /\ runner[k].depth \in Int
  BY DEF CleanInv, LeaseInv, LeaseTypes, Runners
<1>4. Level(k) \in Nat /\ open[k] \in Seq(Deeds)
  BY DEF CleanInv, LevelInv, LevelTypes, Level
<1>5. /\ InsideCall(k) <=> Level(k) # 0
      /\ kind[k] # "manager" => Level(k) <= 1
  BY DEF CleanInv, LevelInv, LevelFacts
<1>6. vendor \in Vendors
  BY DEF CleanInv, CleanTypes
<1>7. holds[k] # None => ~runner[k].released
  BY DEF CleanInv, LeaseInv, LeasesAreExclusive
<1>8. ~tainted => CallFits(k)
  BY DEF CleanInv, IdleFacts
<1> QED BY <1>1, <1>2, <1>3, <1>4, <1>5, <1>6, <1>7, <1>8 DEF CallFits

\* What a step of k leaves alone: shared by the lemmas about steps.
LEMMA Types ==
    ASSUME CleanInv
    PROVE  /\ at \in [Calls -> Places] /\ runner \in [Calls -> Runners]
           /\ open \in [Calls -> Seq(Deeds)] /\ holds \in [Calls -> Conns \cup {None}]
           /\ opts \in [Calls -> {"unset", "set", "restored"}]
           /\ invalid \in [Calls -> BOOLEAN]
BY DEF CleanInv, LeaseInv, LeaseTypes, LevelInv, LevelTypes, OptionTypes

\* A step that writes its own entries only.
LEMMA Elsewhere ==
    ASSUME CleanInv, NEW k \in Calls,
           at' = at \/ \E x : at' = [at EXCEPT ![k] = x],
           runner' = runner \/ \E x : runner' = [runner EXCEPT ![k] = x],
           open' = open \/ \E x : open' = [open EXCEPT ![k] = x],
           opts' = opts \/ \E x : opts' = [opts EXCEPT ![k] = x],
           invalid' = invalid \/ \E x : invalid' = [invalid EXCEPT ![k] = x]
    PROVE  OthersStay(k)
<1> SUFFICES ASSUME NEW j \in Calls \ {k}
             PROVE  /\ at'[j] = at[j] /\ runner'[j] = runner[j] /\ Level(j)' = Level(j)
                    /\ opts'[j] = opts[j] /\ invalid'[j] = invalid[j]
  BY DEF OthersStay
<1>1. at'[j] = at[j]
  BY Types
<1>2. runner'[j] = runner[j]
  BY Types
<1>3. open'[j] = open[j]
  BY Types
<1>4. opts'[j] = opts[j]
  BY Types
<1>5. invalid'[j] = invalid[j]
  BY Types
<1> QED BY <1>1, <1>2, <1>3, <1>4, <1>5 DEF Level

LEMMA StartClean ==
    ASSUME CleanInv, NEW k \in Calls, Start(k)
    PROVE  CleanTypes' /\ IdleFacts'
<1>1. PICK o \in StartTransaction(vendor, runner[k], SessionOf(k)) :
        /\ Answered(k, o)
        /\ runner' = [runner EXCEPT ![k] = o.runner]
        /\ at' = [at EXCEPT ![k] = IF o.ok THEN "running" ELSE "failing"]
        /\ tainted' = (tainted \/ (o.cause = "before" /\ runner[k].depth # 0))
  BY DEF Start
<1>2. /\ holds' = holds /\ slot' = slot /\ vendor' = vendor /\ kind' = kind
      /\ opts' = opts /\ invalid' = invalid /\ (tainted => tainted')
      /\ open' = [open EXCEPT ![k] = Append(open[k], {})]
      /\ at[k] = "ready" \/ (at[k] = "running" /\ kind[k] = "manager")
      /\ session' = IF holds[k] = None THEN session
                    ELSE [session EXCEPT ![holds[k]] = o.session]
  BY <1>1 DEF Start, MayStart, Answered
<1>3. OthersStay(k)
  BY <1>1, <1>2, Elsewhere
<1>4. CASE holds[k] = None
  BY <1>2, <1>3, <1>4, OneCallWithout
<1>5. CASE holds[k] # None
  <2> DEFINE s == SessionOf(k)
             q == runner[k]
             n == Level(k)
  <2>1. /\ IsSession(s) /\ q \in Runners /\ q.depth \in Int /\ n \in Nat
        /\ ~q.released /\ open[k] \in Seq(Deeds)
        /\ ~tainted /\ s.alive =>
             Fits(vendor, kind[k], q, at[k], n, opts[k], invalid[k], s)
    BY <1>5, Holder
  <2>2. IsSession(o.session) /\ (o.session.alive => StartedAs(q, s, o))
    BY <2>1, StartOutcome
  <2>3. /\ runner'[k] = o.runner /\ opts'[k] = opts[k] /\ invalid'[k] = invalid[k]
        /\ at'[k] = IF o.ok THEN "running" ELSE "failing"
    BY <1>1, <1>2, Types
  <2>4. Level(k)' = n + 1
    <3>1. open'[k] = Append(open[k], {})
      BY <1>2, Types
    <3>2. Len(Append(open[k], {})) = Len(open[k]) + 1
      BY <2>1, AppendProperties
    <3> QED BY <3>1, <3>2 DEF Level
  <2> HIDE DEF s, q, n
  <2>5. ASSUME ~tainted', o.session.alive
        PROVE  Fits(vendor, kind[k], runner'[k], at'[k], Level(k)', opts'[k],
                    invalid'[k], o.session)
    <3>1. s.alive /\ o.session.changed = s.changed /\ ~tainted
      BY <1>1, <2>2, <2>5 DEF StartedAs, Same
    <3>2. Fits(vendor, kind[k], q, at[k], n, opts[k], invalid[k], s)
      BY <2>1, <3>1
    <3>3. Knows(q, at[k], n, s) /\ OptionsEnd(vendor, kind[k], q, at[k], opts[k], invalid[k], s)
      BY <1>2, <3>2 DEF Fits
    <3>4. ~s.changed
      BY <1>2, <3>2, <3>3 DEF Fits, Clean, OptionsEnd
    <3>5. CASE /\ o.cause = "before" /\ ~o.ok /\ o.session = s
               /\ ~o.runner.active /\ o.runner.depth = q.depth
      <4>1. q.depth = 0
        BY <1>1, <2>5, <3>5 DEF q
      <4>2. ~InTransaction(s)
        BY <1>2, <3>2, <3>3, <4>1 DEF Fits, Clean, Knows
      <4>3. at'[k] = "failing" /\ o.runner.depth <= n + 1
        BY <2>1, <2>3, <3>5, <4>1
      <4> QED BY <2>3, <2>4, <3>4, <3>5, <4>1, <4>2, <4>3 DEF Fits, Knows, OptionsEnd
    <3>6. CASE /\ o.runner.active
               /\ o.runner.depth \in {q.depth, q.depth + 1}
               /\ o.ok => o.runner.depth = q.depth + 1 /\ q.depth >= 0
      <4>1. q.depth <= n
        BY <3>3 DEF Knows
      <4>2. o.runner.depth <= n + 1 /\ (o.ok => o.runner.depth >= 1)
        BY <2>1, <3>6, <4>1
      <4>3. ~o.session.changed
        BY <3>1, <3>4
      <4>4. at'[k] \in {"running", "failing"} /\ (at'[k] = "running" => o.ok)
        BY <2>3
      <4> QED BY <2>3, <2>4, <3>6, <4>2, <4>3, <4>4 DEF Fits, Knows, OptionsEnd
    <3> QED BY <2>2, <2>5, <3>5, <3>6 DEF StartedAs
  <2> QED BY <1>2, <1>3, <1>5, <2>2, <2>5, OneCall
<1> QED BY <1>4, <1>5

LEMMA ApplyClean ==
    ASSUME CleanInv, NEW k \in Calls, ApplyOptions(k)
    PROVE  CleanTypes' /\ IdleFacts'
<1> DEFINE s == SessionOf(k)
           due == SetOption(vendor, s, TRUE)
           tried(b) == [s EXCEPT !.changed = s.changed \/ b]
           failing(b) == Refuse(vendor, tried(b))
<1>0. PICK before \in BOOLEAN, captured \in BOOLEAN :
        \E r \in Query(runner[k], s, due, failing(before)) :
          /\ captured \/ (~r.ok /\ ~before)
          /\ Answered(k, r)
          /\ opts' = [opts EXCEPT ![k] = IF captured THEN "set" ELSE "unset"]
          /\ at' = [at EXCEPT ![k] =
                 IF r.ok THEN "running"
                 ELSE IF captured /\ vendor = "oracle" THEN "unwinding"
                 ELSE "failing"]
  BY DEF ApplyOptions
<1>1. PICK r \in Query(runner[k], s, due, failing(before)) :
        /\ captured \/ (~r.ok /\ ~before)
        /\ Answered(k, r)
        /\ opts' = [opts EXCEPT ![k] = IF captured THEN "set" ELSE "unset"]
        /\ at' = [at EXCEPT ![k] =
               IF r.ok THEN "running"
               ELSE IF captured /\ vendor = "oracle" THEN "unwinding"
               ELSE "failing"]
  BY <1>0
<1>2. /\ holds' = holds /\ slot' = slot /\ vendor' = vendor /\ kind' = kind
      /\ runner' = runner /\ open' = open /\ invalid' = invalid /\ tainted' = tainted
      /\ at[k] = "running" /\ kind[k] = "configured" /\ opts[k] = "unset"
      /\ session' = IF holds[k] = None THEN session
                    ELSE [session EXCEPT ![holds[k]] = r.session]
  BY <1>1 DEF ApplyOptions, Answered
<1>3. OthersStay(k)
  BY <1>1, <1>2, Elsewhere
<1>4. CASE holds[k] = None
  BY <1>2, <1>3, <1>4, OneCallWithout
<1>5. CASE holds[k] # None
  <2>1. /\ IsSession(s) /\ ~runner[k].released
        /\ ~tainted /\ s.alive =>
             Fits(vendor, kind[k], runner[k], at[k], Level(k), opts[k], invalid[k], s)
    BY <1>5, Holder
  <2>2. /\ IsReply(due) /\ due.session.alive = s.alive
        /\ due.session.frames = s.frames
        /\ ~due.ok => due.session.changed = s.changed
    BY <2>1, OptionSetIs
  <2>3. /\ IsSession(tried(before)) /\ tried(before).alive = s.alive
        /\ tried(before).changed = (s.changed \/ before)
        /\ tried(before).frames = s.frames
    BY <2>1, SessionWritten
  <2> HIDE DEF tried
  <2>4. /\ IsReply(failing(before)) /\ ~failing(before).ok
        /\ Same(tried(before), failing(before).session)
        /\ failing(before).session.frames = tried(before).frames
    BY <2>3, RefuseIs
  <2> HIDE DEF s, due, failing
  <2>5. /\ IsReply(r)
        /\ \/ ~r.ok /\ ~r.session.alive
           \/ s.alive /\ r.session = due.session /\ r.ok = due.ok
           \/ s.alive /\ r.session = failing(before).session /\ r.ok = failing(before).ok
    BY <2>1, <2>2, <2>4, QueryIs
  <2>6. r.session.alive => /\ s.alive /\ r.session.frames = s.frames
                           /\ ~r.ok /\ ~before => (r.session.changed => s.changed)
    BY <2>2, <2>3, <2>4, <2>5 DEF Same
  <2>7. /\ runner'[k] = runner[k] /\ Level(k)' = Level(k) /\ invalid'[k] = invalid[k]
        /\ opts'[k] = IF captured THEN "set" ELSE "unset"
        /\ at'[k] = IF r.ok THEN "running"
                    ELSE IF captured /\ vendor = "oracle" THEN "unwinding"
                    ELSE "failing"
    BY <1>1, <1>2, Types DEF Level
  <2>8. ASSUME ~tainted', r.session.alive
        PROVE  Fits(vendor, kind[k], runner'[k], at'[k], Level(k)', opts'[k],
                    invalid'[k], r.session)
    <3>1. Knows(runner[k], "running", Level(k), s)
          /\ OptionsEnd(vendor, "configured", runner[k], "running", "unset", invalid[k], s)
      BY <1>2, <2>1, <2>6, <2>8 DEF Fits
    <3>2. at'[k] \in {"running", "unwinding", "failing"}
      BY <2>7
    <3>3. runner[k].active /\ Knows(runner'[k], at'[k], Level(k)', r.session)
      BY <2>6, <2>7, <2>8, <3>1, <3>2 DEF Knows, OptionsEnd, InTransaction
    <3>4. vendor = "oracle" => ~s.changed
      BY <3>1 DEF OptionsEnd
    <3>5. vendor = "oracle" /\ r.session.changed => captured
      BY <1>1, <2>6, <2>8, <3>4
    <3>6. vendor = "oracle" /\ r.session.changed =>
            at'[k] \in {"running", "unwinding"} /\ opts'[k] = "set"
      BY <2>7, <3>5
    <3>7. OptionsEnd(vendor, kind[k], runner'[k], at'[k], opts'[k], invalid'[k], r.session)
      BY <1>2, <2>7, <3>3, <3>6 DEF OptionsEnd
    <3> QED BY <3>2, <3>3, <3>7 DEF Fits
  <2>9. IsSession(r.session)
    BY <2>5 DEF IsReply
  <2> QED BY <1>2, <1>3, <1>5, <2>8, <2>9, OneCall
<1> QED BY <1>4, <1>5

LEMMA RestoreClean ==
    ASSUME CleanInv, NEW k \in Calls, RestoreOptions(k)
    PROVE  CleanTypes' /\ IdleFacts'
<1> DEFINE s == SessionOf(k)
           due == SetOption(vendor, s, FALSE)
           failing == Refuse(vendor, s)
<1>1. PICK r \in Query(runner[k], s, due, failing) :
        /\ Answered(k, r)
        /\ invalid' = [invalid EXCEPT ![k] = ~r.ok]
        /\ at' = [at EXCEPT ![k] =
               IF r.ok /\ at[k] = "restoring" THEN "running" ELSE "failing"]
  BY DEF RestoreOptions
<1>2. /\ holds' = holds /\ slot' = slot /\ vendor' = vendor /\ kind' = kind
      /\ runner' = runner /\ open' = open /\ tainted' = tainted
      /\ at[k] \in {"restoring", "unwinding"}
      /\ opts' = [opts EXCEPT ![k] = "restored"]
      /\ session' = IF holds[k] = None THEN session
                    ELSE [session EXCEPT ![holds[k]] = r.session]
  BY <1>1 DEF RestoreOptions, Answered
<1>3. OthersStay(k)
  BY <1>1, <1>2, Elsewhere
<1>4. CASE holds[k] = None
  BY <1>2, <1>3, <1>4, OneCallWithout
<1>5. CASE holds[k] # None
  <2>1. /\ IsSession(s) /\ ~runner[k].released
        /\ ~tainted /\ s.alive =>
             Fits(vendor, kind[k], runner[k], at[k], Level(k), opts[k], invalid[k], s)
    BY <1>5, Holder
  <2>2. /\ IsReply(due) /\ due.session.alive = s.alive
        /\ due.session.frames = s.frames
        /\ IF due.ok THEN ~due.session.changed ELSE due.session.changed = s.changed
    <3>1. /\ IsReply(SetOption(vendor, s, FALSE))
          /\ SetOption(vendor, s, FALSE).session.alive = s.alive
          /\ SetOption(vendor, s, FALSE).session.frames = s.frames
          /\ IF SetOption(vendor, s, FALSE).ok
             THEN ~SetOption(vendor, s, FALSE).session.changed
             ELSE SetOption(vendor, s, FALSE).session.changed = s.changed
      <4> HIDE DEF s
      <4> QED BY <2>1, OptionRestoredIs
    <3> QED BY <3>1
  <2>3. /\ IsReply(failing) /\ ~failing.ok /\ Same(s, failing.session)
        /\ failing.session.frames = s.frames
    BY <2>1, RefuseIs
  <2> HIDE DEF s, due, failing
  <2>4. /\ IsReply(r)
        /\ \/ ~r.ok /\ ~r.session.alive
           \/ s.alive /\ r.session = due.session /\ r.ok = due.ok
           \/ s.alive /\ r.session = failing.session /\ r.ok = failing.ok
    BY <2>1, <2>2, <2>3, QueryIs
  <2>5. r.session.alive => /\ s.alive /\ r.session.frames = s.frames
                           /\ r.session.changed => ~r.ok /\ s.changed
    BY <2>2, <2>3, <2>4 DEF Same
  <2>6. /\ runner'[k] = runner[k] /\ Level(k)' = Level(k)
        /\ invalid'[k] = ~r.ok /\ opts'[k] = "restored"
        /\ at'[k] = IF r.ok /\ at[k] = "restoring" THEN "running" ELSE "failing"
    BY <1>1, <1>2, Types DEF Level
  <2>7. ASSUME ~tainted', r.session.alive
        PROVE  Fits(vendor, kind[k], runner'[k], at'[k], Level(k)', opts'[k],
                    invalid'[k], r.session)
    <3>1. /\ Knows(runner[k], at[k], Level(k), s)
          /\ OptionsEnd(vendor, kind[k], runner[k], at[k], opts[k], invalid[k], s)
      BY <1>2, <2>1, <2>5, <2>7 DEF Fits
    <3>2. at'[k] \in {"running", "failing"} /\ (at'[k] = "running" => at[k] = "restoring")
      BY <2>6
    <3>3. Knows(runner'[k], at'[k], Level(k)', r.session)
      BY <2>5, <2>6, <2>7, <3>1, <3>2 DEF Knows, InTransaction
    <3>4. r.session.changed => at'[k] = "failing" /\ invalid'[k]
      BY <2>5, <2>6, <2>7
    <3>5. OptionsEnd(vendor, kind[k], runner'[k], at'[k], opts'[k], invalid'[k], r.session)
      BY <2>5, <2>6, <2>7, <3>1, <3>2, <3>4 DEF OptionsEnd
    <3> QED BY <3>2, <3>3, <3>5 DEF Fits
  <2>8. IsSession(r.session)
    BY <2>4 DEF IsReply
  <2> QED BY <1>2, <1>3, <1>5, <2>7, <2>8, OneCall
<1> QED BY <1>4, <1>5

LEMMA StatementClean ==
    ASSUME CleanInv, NEW k \in Calls, Statement(k)
    PROVE  CleanTypes' /\ IdleFacts'
<1> DEFINE s == SessionOf(k)
           q == runner[k]
           n == Level(k)
           w == <<k, used[k] + 1>>
           due == Do(vendor, s, w, ~q.active)
           failing == Refuse(vendor, s)
<1>1. PICK r \in Query(q, s, due, failing) :
        /\ Answered(k, r)
        /\ \/ /\ open' = [open EXCEPT ![k] = Append(Outer(k), Inner(k) \cup {w})]
              /\ at' = at
           \/ at' = [at EXCEPT ![k] = Raised(k)] /\ open' = open
           \/ at' = at /\ open' = open
  BY DEF Statement, Execute
<1>2. /\ holds' = holds /\ slot' = slot /\ vendor' = vendor /\ kind' = kind
      /\ runner' = runner /\ opts' = opts /\ invalid' = invalid /\ tainted' = tainted
      /\ at[k] = "running"
      /\ session' = IF holds[k] = None THEN session
                    ELSE [session EXCEPT ![holds[k]] = r.session]
  BY <1>1 DEF Statement, Answered
<1>3. OthersStay(k)
  BY <1>1, <1>2, Elsewhere
<1>4. CASE holds[k] = None
  BY <1>2, <1>3, <1>4, OneCallWithout
<1>5. CASE holds[k] # None
  <2>1. /\ IsSession(s) /\ ~q.released /\ q \in Runners /\ vendor \in Vendors
        /\ n \in Nat /\ n # 0 /\ open[k] \in Seq(Deeds)
        /\ ~tainted /\ s.alive =>
             Fits(vendor, kind[k], q, at[k], n, opts[k], invalid[k], s)
    BY <1>2, <1>5, Holder DEF InsideCall
  <2>3. /\ IsReply(due) /\ due.session.alive = s.alive
        /\ due.session.changed => s.changed
        /\ InTransaction(due.session) => InTransaction(s) \/ q.active
    <3> DEFINE auto == ~q.active
    <3>1. auto \in BOOLEAN /\ (~auto => q.active)
      OBVIOUS
    <3> HIDE DEF auto, s, q, w
    <3>2. /\ IsReply(Do(vendor, s, w, auto)) /\ Do(vendor, s, w, auto).session.alive = s.alive
          /\ Do(vendor, s, w, auto).session.changed => s.changed
          /\ InTransaction(Do(vendor, s, w, auto).session) => InTransaction(s) \/ ~auto
      BY <2>1, <3>1, DoIs
    <3>3. due = Do(vendor, s, w, auto)
      BY DEF auto
    <3> QED BY <3>1, <3>2, <3>3
  <2>4. /\ IsReply(failing) /\ ~failing.ok /\ Same(s, failing.session)
        /\ failing.session.frames = s.frames
    BY <2>1, RefuseIs
  <2>5. /\ runner'[k] = q /\ invalid'[k] = invalid[k] /\ opts'[k] = opts[k]
        /\ at'[k] = "running" \/ at'[k] = Raised(k)
    BY <1>1, <1>2, Types
  <2>6. Level(k)' = n
    <3>1. CASE open' = [open EXCEPT ![k] = Append(Outer(k), Inner(k) \cup {w})]
      <4>1. Outer(k) \in Seq(Deeds) /\ Len(Outer(k)) = n - 1
        BY <2>1, Stacks DEF Outer, Level
      <4>2. open'[k] = Append(Outer(k), Inner(k) \cup {w})
        BY <3>1, Types
      <4> HIDE DEF w
      <4>3. Len(open'[k]) = n - 1 + 1
        BY <4>1, <4>2
      <4> HIDE DEF n
      <4> QED BY <2>1, <4>3 DEF Level
    <3>2. CASE open' = open
      BY <3>2 DEF Level
    <3> QED BY <1>1, <3>1, <3>2
  <2> HIDE DEF s, q, n, due, failing
  <2>7. /\ IsReply(r)
        /\ \/ ~r.ok /\ ~r.session.alive
           \/ s.alive /\ r.session = due.session /\ r.ok = due.ok
           \/ s.alive /\ r.session = failing.session /\ r.ok = failing.ok
    BY <2>1, <2>3, <2>4, QueryIs
  <2>8. r.session.alive =>
          /\ s.alive /\ (r.session.changed => s.changed)
          /\ InTransaction(r.session) => InTransaction(s) \/ q.active
    BY <2>3, <2>4, <2>7 DEF Same, InTransaction
  <2>9. ASSUME ~tainted', r.session.alive
        PROVE  Fits(vendor, kind[k], runner'[k], at'[k], Level(k)', opts'[k],
                    invalid'[k], r.session)
    <3>1. /\ Knows(q, "running", n, s)
          /\ OptionsEnd(vendor, kind[k], q, "running", opts[k], invalid[k], s)
      BY <1>2, <2>1, <2>8, <2>9 DEF Fits
    <3>2. /\ at'[k] \in {"running", "unwinding", "failing"}
          /\ vendor = "oracle" /\ opts[k] = "set" => at'[k] # "failing"
      BY <2>5 DEF Raised
    <3>3. Knows(runner'[k], at'[k], Level(k)', r.session)
      BY <2>5, <2>6, <2>8, <2>9, <3>1, <3>2 DEF Knows
    <3>4. OptionsEnd(vendor, kind[k], runner'[k], at'[k], opts'[k], invalid'[k], r.session)
      BY <2>5, <2>8, <2>9, <3>1, <3>2 DEF OptionsEnd
    <3> QED BY <3>2, <3>3, <3>4 DEF Fits
  <2>10. IsSession(r.session)
    BY <2>7 DEF IsReply
  <2> QED BY <1>2, <1>3, <1>5, <2>9, <2>10, OneCall
<1> QED BY <1>4, <1>5

\* A step that leaves the session and the runner of k as they are.
LEMMA MoveClean ==
    ASSUME CleanInv, NEW k \in Calls,
           \/ BeginCall(k) \/ StartRefused(k) \/ CallbackThrows(k) \/ OperationEnds(k)
    PROVE  CleanTypes' /\ IdleFacts'
<1>1. /\ holds' = holds /\ slot' = slot /\ vendor' = vendor /\ kind' = kind
      /\ runner' = runner /\ opts' = opts /\ invalid' = invalid /\ tainted' = tainted
      /\ open' = open /\ session' = session
      /\ \E p : at' = [at EXCEPT ![k] = p]
  BY DEF BeginCall, StartRefused, CallbackThrows, OperationEnds, poolVars, dataVars
<1>2. OthersStay(k)
  BY <1>1, Elsewhere
<1>3. CASE holds[k] = None
  BY <1>1, <1>2, <1>3, OneCallWithout
<1>4. CASE holds[k] # None
  <2> DEFINE s == SessionOf(k)
  <2>1. /\ IsSession(s) /\ s = session[holds[k]] /\ ~runner[k].released
        /\ ~tainted /\ s.alive =>
             Fits(vendor, kind[k], runner[k], at[k], Level(k), opts[k], invalid[k], s)
    BY <1>4, Holder
  <2>2. at[k] \notin {"new", "connecting"} /\ DOMAIN session = Conns
    BY <1>4 DEF CleanInv, LeaseInv, LeasesAreExclusive, CleanTypes
  <2>3. at[k] = "running" /\ at'[k] \in {Raised(k), "restoring"}
        /\ (at'[k] = "restoring" \/ CallbackThrows(k))
        /\ (at'[k] = "restoring" => opts[k] = "set")
    BY <2>1, <2>2, Types DEF BeginCall, StartRefused, CallbackThrows, OperationEnds, Raised
  <2> HIDE DEF s
  <2>4. ASSUME ~tainted', s.alive
        PROVE  Fits(vendor, kind[k], runner'[k], at'[k], Level(k)', opts'[k],
                    invalid'[k], s)
    <3>1. /\ Knows(runner[k], "running", Level(k), s)
          /\ OptionsEnd(vendor, kind[k], runner[k], "running", opts[k], invalid[k], s)
      BY <1>1, <2>1, <2>3, <2>4 DEF Fits
    <3>2. /\ at'[k] \in {"restoring", "unwinding", "failing"}
          /\ vendor = "oracle" /\ opts[k] = "set" => at'[k] # "failing"
          /\ at'[k] = "restoring" => opts[k] = "set"
      BY <2>3 DEF Raised
    <3>3. Level(k)' = Level(k)
      BY <1>1 DEF Level
    <3>4. Knows(runner'[k], at'[k], Level(k)', s)
      BY <1>1, <3>1, <3>2, <3>3 DEF Knows
    <3>5. OptionsEnd(vendor, kind[k], runner'[k], at'[k], opts'[k], invalid'[k], s)
      BY <1>1, <3>1, <3>2 DEF OptionsEnd
    <3> QED BY <3>2, <3>4, <3>5 DEF Fits
  <2> QED BY <1>1, <1>2, <1>4, <2>1, <2>4, OneCall
<1> QED BY <1>3, <1>4

LEMMA ReturnClean ==
    ASSUME CleanInv, NEW k \in Calls, Return(k)
    PROVE  CleanTypes' /\ IdleFacts'
<1> DEFINE s == SessionOf(k)
           q == runner[k]
           n == Level(k)
<1>1. PICK o \in CommitTransaction(vendor, q, s) :
        /\ Answered(k, o)
        /\ runner' = [runner EXCEPT ![k] = o.runner]
        /\ \/ /\ o.ok /\ n > 1 /\ at' = at /\ invalid' = invalid
              /\ open' = [open EXCEPT ![k] = [Outer(k) EXCEPT ![n - 1] = @ \cup Inner(k)]]
           \/ /\ o.ok /\ n = 1 /\ open' = [open EXCEPT ![k] = <<>>]
              /\ at' = [at EXCEPT ![k] = Outside(k)] /\ invalid' = invalid
           \/ /\ ~o.ok
              /\ open' = open \/ (n = 1 /\ open' = [open EXCEPT ![k] = <<{}>>])
              /\ at' = [at EXCEPT ![k] = "failing"]
              /\ invalid' = [invalid EXCEPT ![k] = TRUE]
  BY DEF Return
<1>2. /\ holds' = holds /\ slot' = slot /\ vendor' = vendor /\ kind' = kind
      /\ opts' = opts /\ tainted' = tainted /\ at[k] = "running"
      /\ session' = IF holds[k] = None THEN session
                    ELSE [session EXCEPT ![holds[k]] = o.session]
      /\ kind[k] = "configured" /\ vendor = "oracle" => opts[k] = "restored"
  BY <1>1 DEF Return, Answered
<1>3. OthersStay(k)
  BY <1>1, <1>2, Elsewhere
<1>4. CASE holds[k] = None
  BY <1>2, <1>3, <1>4, OneCallWithout
<1>5. CASE holds[k] # None
  <2>1. /\ IsSession(s) /\ ~q.released /\ q \in Runners /\ q.depth \in Int
        /\ n \in Nat /\ n # 0 /\ open[k] \in Seq(Deeds)
        /\ kind[k] # "manager" => n <= 1
        /\ ~tainted /\ s.alive =>
             Fits(vendor, kind[k], q, at[k], n, opts[k], invalid[k], s)
    BY <1>2, <1>5, Holder DEF InsideCall
  <2>2. IsSession(o.session) /\ (o.session.alive => CommittedAs(vendor, q, s, o))
    BY <2>1, CommitOutcome
  <2>3. runner'[k] = o.runner /\ opts'[k] = opts[k]
    BY <1>1, <1>2, Types
  <2>4. \/ o.ok /\ n > 1 /\ at'[k] = "running" /\ Level(k)' = n - 1
        \/ o.ok /\ n = 1 /\ at'[k] \in {"ready", "leaving"} /\ Level(k)' = 0
        \/ ~o.ok /\ at'[k] = "failing" /\ invalid'[k] /\ Level(k)' = n
    <3>1. CASE /\ o.ok /\ n > 1 /\ at' = at
               /\ open' = [open EXCEPT ![k] = [Outer(k) EXCEPT ![n - 1] = @ \cup Inner(k)]]
      <4>1. Outer(k) \in Seq(Deeds) /\ Len(Outer(k)) = n - 1
        BY <2>1, Stacks DEF Outer, Level
      <4>2. open'[k] = [Outer(k) EXCEPT ![n - 1] = @ \cup Inner(k)]
        BY <3>1, Types
      <4>3. Len(open'[k]) = n - 1
        BY <4>1, <4>2
      <4> QED BY <1>2, <3>1, <4>3 DEF Level
    <3>2. CASE /\ o.ok /\ n = 1 /\ open' = [open EXCEPT ![k] = <<>>]
               /\ at' = [at EXCEPT ![k] = Outside(k)]
      <4>1. open'[k] = <<>> /\ at'[k] = Outside(k)
        BY <3>2, Types
      <4> QED BY <3>2, <4>1 DEF Level, Outside
    <3>3. CASE /\ ~o.ok
               /\ open' = open \/ (n = 1 /\ open' = [open EXCEPT ![k] = <<{}>>])
               /\ at' = [at EXCEPT ![k] = "failing"]
               /\ invalid' = [invalid EXCEPT ![k] = TRUE]
      <4>1. at'[k] = "failing" /\ invalid'[k]
        BY <3>3, Types
      <4>2. CASE open' = open
        BY <3>3, <4>1, <4>2 DEF Level
      <4>3. CASE n = 1 /\ open' = [open EXCEPT ![k] = <<{}>>]
        <5>1. Len(open'[k]) = 1
          BY <4>3, Types
        <5> QED BY <3>3, <4>1, <4>3, <5>1 DEF Level
      <4> QED BY <3>3, <4>2, <4>3
    <3> QED BY <1>1, <3>1, <3>2, <3>3
  <2> HIDE DEF s, q, n
  <2>5. ASSUME ~tainted', o.session.alive
        PROVE  Fits(vendor, kind[k], runner'[k], at'[k], Level(k)', opts'[k],
                    invalid'[k], o.session)
    <3> DEFINE t == o.session
               x == o.runner
    <3>1. CommittedAs(vendor, q, s, o) /\ s.alive
      BY <2>2, <2>5 DEF CommittedAs
    <3>2. /\ Knows(q, "running", n, s)
          /\ OptionsEnd(vendor, kind[k], q, "running", opts[k], invalid[k], s)
      BY <1>2, <2>1, <2>5, <3>1 DEF Fits
    <3>3. q.active => q.depth >= 1
      BY <3>2 DEF Knows
    <3>4. CASE o.ok
      <4>1. EndedAs(vendor, q, s, o) /\ q.active /\ x.depth = q.depth - 1
        BY <3>1, <3>4 DEF CommittedAs, EndedAs
      <4>2. ~(s.changed /\ vendor = "oracle")
        BY <1>2, <3>2 DEF OptionsEnd
      <4>3. ~x.active => ~InTransaction(t) /\ ~t.changed /\ x.depth <= 0
        <5>1. ASSUME ~x.active PROVE q.depth <= 1 /\ Over(vendor, s, t)
          BY <4>1, <5>1 DEF EndedAs
        <5>2. ~x.active => x.depth <= 0
          BY <2>1, <4>1, <5>1
        <5> QED BY <4>2, <5>1, <5>2 DEF Over, InTransaction
      <4>4. x.active => x.depth >= 1 /\ t.changed = s.changed
        <5>1. ASSUME x.active PROVE q.depth # 1 /\ Same(s, t)
          BY <4>1, <5>1 DEF EndedAs
        <5> QED BY <2>1, <3>3, <4>1, <5>1 DEF Same
      <4>5. CASE n > 1 /\ at'[k] = "running" /\ Level(k)' = n - 1
        <5>1. kind[k] # "configured" /\ ~s.changed
          BY <2>1, <3>2, <4>5 DEF OptionsEnd
        <5>2. x.depth <= n - 1
          BY <2>1, <3>2, <4>1 DEF Knows
        <5>3. ~t.changed /\ (InTransaction(t) => x.active)
          BY <4>3, <4>4, <5>1
        <5> QED BY <2>3, <4>3, <4>4, <4>5, <5>1, <5>2, <5>3 DEF Fits, Knows, OptionsEnd
      <4>6. CASE n = 1 /\ at'[k] \in {"ready", "leaving"} /\ Level(k)' = 0
        <5>1. q.depth <= 1
          BY <3>2, <4>6 DEF Knows
        <5>2. x.depth <= 0 /\ ~x.active
          BY <2>1, <4>1, <4>4, <5>1
        <5>3. ~InTransaction(t) /\ ~t.changed
          BY <4>3, <5>2
        <5> QED BY <2>3, <4>6, <5>2, <5>3 DEF Fits, Knows, OptionsEnd, Clean
      <4> QED BY <2>4, <3>4, <4>5, <4>6
    <3>5. CASE ~o.ok
      <4>1. at'[k] = "failing" /\ invalid'[k] /\ Level(k)' = n
        BY <2>4, <3>5
      <4>2. CASE x = q /\ (t = s \/ (q.active /\ Same(s, t)) \/ (q.active /\ Over(vendor, s, t)))
        <5>1. (t.changed => s.changed) /\ (InTransaction(t) => q.active)
          BY <3>2, <4>2 DEF Same, Over, Knows
        <5>2. Knows(runner'[k], at'[k], Level(k)', t)
          BY <2>3, <3>2, <4>1, <4>2, <5>1 DEF Knows
        <5>3. OptionsEnd(vendor, kind[k], runner'[k], at'[k], opts'[k], invalid'[k], t)
          BY <2>3, <3>2, <4>1, <4>2, <5>1 DEF OptionsEnd
        <5> QED BY <4>1, <5>2, <5>3 DEF Fits
      <4>3. CASE EndedAs(vendor, q, s, o)
        <5>1. q.active /\ x.depth = q.depth - 1
          BY <4>3 DEF EndedAs
        <5>2. x.depth <= n
          BY <2>1, <3>2, <5>1 DEF Knows
        <5>3. x.active => t.changed = s.changed
          BY <4>3 DEF EndedAs, Same
        <5>4. ~x.active => /\ ~InTransaction(t) /\ q.depth <= 1
                           /\ t.changed => s.changed /\ vendor = "oracle"
          BY <4>3 DEF EndedAs, Over, InTransaction
        <5>5. ~x.active => x.depth <= 0
          BY <2>1, <5>1, <5>4
        <5>6. Knows(runner'[k], at'[k], Level(k)', t)
          BY <2>3, <4>1, <5>2, <5>4, <5>5 DEF Knows
        <5>7. OptionsEnd(vendor, kind[k], runner'[k], at'[k], opts'[k], invalid'[k], t)
          BY <2>3, <3>2, <4>1, <5>3, <5>4 DEF OptionsEnd
        <5> QED BY <4>1, <5>6, <5>7 DEF Fits
      <4> QED BY <3>1, <4>2, <4>3 DEF CommittedAs
    <3> QED BY <3>4, <3>5
  <2> QED BY <1>2, <1>3, <1>5, <2>2, <2>5, OneCall
<1> QED BY <1>4, <1>5

\* What the catch block of transaction() leaves on a connection it keeps.
CaughtAs(v, q, s, o) ==
    /\ s.alive
    /\ \/ /\ ~q.active /\ o.runner = q /\ o.session = s
       \/ /\ q.active /\ EndedAs(v, q, s, o) /\ (q.depth > 1 <=> o.runner.active)

LEMMA CatchOutcome ==
    ASSUME CleanInv, NEW k \in Calls, holds[k] # None, NEW o \in CatchOutcomes(k)
    PROVE  /\ IsSession(o.session)
           /\ o.ok /\ o.session.alive => CaughtAs(vendor, runner[k], SessionOf(k), o)
<1> DEFINE s == SessionOf(k)
           q == runner[k]
<1>1. IsSession(s) /\ ~q.released /\ q \in Runners
  BY Holder
<1>2. CASE q.active
  <2>1. o \in RollbackTransaction(vendor, q, s)
    BY <1>2 DEF CatchOutcomes
  <2>2. IsSession(o.session) /\ (o.session.alive => RolledBackAs(vendor, q, s, o))
    BY <1>1, <2>1, RollbackOutcome
  <2> QED BY <1>2, <2>2 DEF RolledBackAs, CaughtAs
<1>3. CASE ~q.active
  <2>1. o = Outcome(TRUE, q, Reply(TRUE, s, {}), "none")
    BY <1>3 DEF CatchOutcomes
  <2>2. o.runner = q /\ o.session = s
    BY <2>1 DEF Outcome, Reply
  <2> QED BY <1>1, <1>3, <2>2 DEF CaughtAs
<1> QED BY <1>2, <1>3

LEMMA CatchClean ==
    ASSUME CleanInv, NEW k \in Calls, Catch(k)
    PROVE  CleanTypes' /\ IdleFacts'
<1> DEFINE s == SessionOf(k)
           q == runner[k]
           n == Level(k)
<1>1. PICK o \in CatchOutcomes(k), next \in Rethrown(k) :
        /\ IF Distrusted(k, o)
           THEN ReleaseRunner(k, o.runner, o.session, TRUE)
           ELSE /\ runner' = [runner EXCEPT ![k] = o.runner]
                /\ session' = IF holds[k] = None THEN session
                              ELSE [session EXCEPT ![holds[k]] = o.session]
                /\ UNCHANGED <<slot, holds>>
        /\ at' = [at EXCEPT ![k] = next]
  BY DEF Catch
<1>2. /\ vendor' = vendor /\ kind' = kind /\ opts' = opts /\ tainted' = tainted
      /\ at[k] = "failing" /\ open' = [open EXCEPT ![k] = Outer(k)]
      /\ invalid' = [invalid EXCEPT ![k] = FALSE]
  BY DEF Catch
<1>3. OthersStay(k)
  <2>1. runner' = runner \/ \E x : runner' = [runner EXCEPT ![k] = x]
    BY <1>1 DEF ReleaseRunner
  <2> QED BY <1>1, <1>2, <2>1, Elsewhere
<1>4. CASE Distrusted(k, o)
  <2>1. ReleaseRunner(k, o.runner, o.session, TRUE)
    BY <1>1, <1>4
  <2>2. CASE holds[k] = None
    <3>1. ReleaseRunner(k, o.runner, DeadSession, TRUE)
      BY <2>1, <2>2 DEF ReleaseRunner
    <3> DEFINE q0 == o.runner
    <3> HIDE DEF q0
    <3>2. PICK error \in BOOLEAN : error /\ ReleaseRunner(k, q0, DeadSession, error)
      BY <3>1 DEF q0
    <3> QED BY <1>2, <1>3, <3>2, Dead, OneReturn
  <2>3. CASE holds[k] # None
    <3>1. IsSession(o.session)
      BY <2>3, CatchOutcome
    <3> DEFINE q0 == o.runner
               s0 == o.session
    <3> HIDE DEF q0, s0
    <3>2. PICK error \in BOOLEAN : error /\ ReleaseRunner(k, q0, s0, error)
      BY <2>1 DEF q0, s0
    <3>3. IsSession(s0)
      BY <3>1 DEF s0
    <3> QED BY <1>2, <1>3, <3>2, <3>3, OneReturn
  <2> QED BY <2>2, <2>3
<1>5. CASE ~Distrusted(k, o)
  <2>0. /\ runner' = [runner EXCEPT ![k] = o.runner] /\ slot' = slot /\ holds' = holds
        /\ session' = IF holds[k] = None THEN session
                      ELSE [session EXCEPT ![holds[k]] = o.session]
        /\ o.ok /\ ~invalid[k]
    BY <1>1, <1>5 DEF Distrusted
  <2>1. CASE holds[k] = None
    BY <1>2, <1>3, <2>0, <2>1, OneCallWithout
  <2>2. CASE holds[k] # None
    <3>1. /\ IsSession(s) /\ ~q.released /\ q \in Runners /\ q.depth \in Int
          /\ n \in Nat /\ n # 0 /\ open[k] \in Seq(Deeds)
          /\ kind[k] # "manager" => n <= 1
          /\ ~tainted /\ s.alive =>
               Fits(vendor, kind[k], q, at[k], n, opts[k], invalid[k], s)
      BY <1>2, <2>2, Holder DEF InsideCall
    <3>2. IsSession(o.session) /\ (o.session.alive => CaughtAs(vendor, q, s, o))
      BY <2>0, <2>2, CatchOutcome
    <3>3. /\ runner'[k] = o.runner /\ opts'[k] = opts[k] /\ invalid'[k] = FALSE
          /\ at'[k] = next
      BY <1>1, <1>2, <2>0, Types
    <3>4. Level(k)' = n - 1
      <4>1. Len(Outer(k)) = n - 1
        BY <3>1, Stacks DEF Outer, Level
      <4>2. open'[k] = Outer(k)
        BY <1>2, Types
      <4> QED BY <4>1, <4>2 DEF Level
    <3>5. \/ n = 1 /\ next \in {"ready", "leaving"}
          \/ n # 1 /\ next \in {"running", "failing"}
      BY <1>1 DEF Rethrown, Outside
    <3> HIDE DEF s, q, n
    <3>6. ASSUME ~tainted', o.session.alive
          PROVE  Fits(vendor, kind[k], runner'[k], at'[k], Level(k)', opts'[k],
                      invalid'[k], o.session)
      <4> DEFINE t == o.session
                 x == o.runner
      <4>1. CaughtAs(vendor, q, s, o) /\ s.alive
        BY <3>2, <3>6 DEF CaughtAs
      <4>2. /\ Knows(q, "failing", n, s)
            /\ OptionsEnd(vendor, kind[k], q, "failing", opts[k], invalid[k], s)
        BY <1>2, <3>1, <3>6, <4>1 DEF Fits
      <4>3. vendor \in Vendors /\ ~(vendor = "oracle" /\ s.changed)
        BY <2>0, <4>2, Holder DEF OptionsEnd
      <4>4. s.changed => q.active /\ kind[k] = "configured"
        BY <4>2, <4>3 DEF OptionsEnd, Vendors
      <4>5. ~x.active => ~InTransaction(t) /\ ~t.changed /\ x.depth <= 0
        <5>1. CASE ~q.active /\ x = q /\ t = s
          BY <4>2, <4>4, <5>1 DEF Knows
        <5>2. CASE q.active /\ EndedAs(vendor, q, s, o)
          <6>1. ASSUME ~x.active PROVE q.depth <= 1 /\ Over(vendor, s, t)
            BY <5>2, <6>1 DEF EndedAs
          <6>2. ~x.active => x.depth <= 0
            BY <3>1, <5>2, <6>1 DEF EndedAs
          <6> QED BY <4>3, <6>1, <6>2 DEF Over, InTransaction
        <5> QED BY <4>1, <5>1, <5>2 DEF CaughtAs
      <4>6. x.active => q.depth > 1 /\ x.depth = q.depth - 1 /\ t.changed = s.changed
        BY <4>1 DEF CaughtAs, EndedAs, Same
      <4>7. q.depth <= n
        BY <4>2 DEF Knows
      <4>8. x.active => x.depth >= 1 /\ x.depth <= n - 1 /\ n # 1
        BY <3>1, <4>6, <4>7
      <4>9. CASE n = 1 /\ next \in {"ready", "leaving"}
        <5>1. ~x.active
          BY <4>8, <4>9
        <5> QED BY <3>3, <3>4, <4>5, <4>9, <5>1 DEF Fits, Knows, OptionsEnd, Clean
      <4>10. CASE n # 1 /\ next \in {"running", "failing"}
        <5>1. n - 1 >= 1 /\ kind[k] = "manager"
          BY <3>1, <4>10
        <5>2. ~t.changed
          BY <4>4, <4>5, <4>6, <5>1
        <5>3. x.depth <= n - 1
          <6>1. x.depth \in Int \/ x.active
            BY <3>1, <4>1 DEF CaughtAs, EndedAs
          <6> QED BY <3>1, <4>5, <4>8, <5>1, <6>1
        <5> QED BY <3>3, <3>4, <4>5, <4>8, <4>10, <5>1, <5>2, <5>3 DEF Fits, Knows, OptionsEnd
      <4> QED BY <3>5, <4>9, <4>10
    <3> QED BY <1>2, <1>3, <2>0, <2>2, <3>2, <3>6, OneCall
  <2> QED BY <2>1, <2>2
<1> QED BY <1>4, <1>5

LEMMA PersistClean ==
    ASSUME CleanInv, NEW k \in Calls, PersistCatch(k)
    PROVE  CleanTypes' /\ IdleFacts'
<1> DEFINE s == SessionOf(k)
           q == runner[k]
<1>1. PICK o \in RollbackTransaction(vendor, q, s) :
        /\ Answered(k, o)
        /\ runner' = [runner EXCEPT ![k] = o.runner]
        /\ tainted' = (tainted \/ o.cause = "before")
  BY DEF PersistCatch
<1>2. /\ holds' = holds /\ slot' = slot /\ vendor' = vendor /\ kind' = kind
      /\ opts' = opts /\ invalid' = invalid /\ (tainted => tainted')
      /\ open' = [open EXCEPT ![k] = Outer(k)] /\ at' = [at EXCEPT ![k] = "leaving"]
      /\ at[k] = "failing" /\ kind[k] = "persist"
      /\ session' = IF holds[k] = None THEN session
                    ELSE [session EXCEPT ![holds[k]] = o.session]
  BY <1>1 DEF PersistCatch, Answered
<1>3. OthersStay(k)
  BY <1>1, <1>2, Elsewhere
<1>4. CASE holds[k] = None
  BY <1>2, <1>3, <1>4, OneCallWithout
<1>5. CASE holds[k] # None
  <2>1. /\ IsSession(s) /\ ~q.released /\ q \in Runners /\ q.depth \in Int
        /\ Level(k) \in Nat /\ Level(k) <= 1
        /\ ~tainted /\ s.alive =>
             Fits(vendor, kind[k], q, at[k], Level(k), opts[k], invalid[k], s)
    BY <1>2, <1>5, Holder
  <2>2. IsSession(o.session) /\ (o.session.alive => RolledBackAs(vendor, q, s, o))
    BY <2>1, RollbackOutcome
  <2>3. at'[k] = "leaving"
    BY <1>2, Types
  <2> HIDE DEF s, q
  <2>4. ASSUME ~tainted', o.session.alive PROVE Clean(o.session)
    <3>1. RolledBackAs(vendor, q, s, o) /\ s.alive /\ ~tainted /\ o.cause # "before"
      BY <1>1, <2>2, <2>4 DEF RolledBackAs
    <3>2. /\ Knows(q, "failing", Level(k), s)
          /\ OptionsEnd(vendor, kind[k], q, "failing", opts[k], invalid[k], s)
      BY <1>2, <2>1, <3>1 DEF Fits
    <3>3. ~s.changed
      BY <1>2, <3>2 DEF OptionsEnd
    <3>4. q.depth <= 1
      BY <2>1, <3>2 DEF Knows
    <3>5. ~(q.depth > 1)
      BY <2>1, <3>4
    <3>6. CASE o.session = s /\ ~q.active
      BY <3>2, <3>3, <3>6 DEF Knows, Clean
    <3>7. CASE Over(vendor, s, o.session)
      BY <3>3, <3>7 DEF Over, Clean, InTransaction
    <3> QED BY <3>1, <3>5, <3>6, <3>7 DEF RolledBackAs, EndedAs
  <2>5. ~tainted' /\ o.session.alive =>
          Fits(vendor, kind[k], runner'[k], at'[k], Level(k)', opts'[k],
               invalid'[k], o.session)
    BY <2>3, <2>4 DEF Fits
  <2> QED BY <1>2, <1>3, <1>5, <2>2, <2>5, OneCall
<1> QED BY <1>4, <1>5

LEMMA LeaveClean ==
    ASSUME CleanInv, NEW k \in Calls,
           ConnectFails(k) \/ Leave(k) \/ ConnectionError(k)
    PROVE  CleanTypes' /\ IdleFacts'
<1>1. /\ vendor' = vendor /\ kind' = kind /\ opts' = opts /\ tainted' = tainted
      /\ invalid' = invalid /\ open' = open
      /\ at' = at \/ \E p : at' = [at EXCEPT ![k] = p]
  BY DEF ConnectFails, Leave, ConnectionError, dataVars
<1>2. PICK s, error :
        /\ error \in BOOLEAN /\ IsSession(s) /\ ReleaseRunner(k, runner[k], s, error)
        /\ error \/ (/\ s = SessionOf(k)
                     /\ at[k] = "leaving" \/ (at[k] = "ready" /\ kind[k] = "manager"))
  <2>0. PICK yes \in BOOLEAN : yes = TRUE
    OBVIOUS
  <2>1. CASE ConnectFails(k)
    <3>1. ReleaseRunner(k, runner[k], DeadSession, yes)
      BY <2>0, <2>1 DEF ConnectFails
    <3> QED BY <2>0, <3>1, Dead
  <2>2. CASE Leave(k)
    <3>1. PICK cause \in {"none", "database"} :
            ReleaseRunner(k, runner[k], SessionOf(k), cause = "database")
      BY <2>2 DEF Leave
    <3>2. PICK broken \in BOOLEAN : broken = (cause = "database")
      OBVIOUS
    <3>3. ReleaseRunner(k, runner[k], SessionOf(k), broken)
      BY <3>1, <3>2
    <3>4. at[k] = "leaving" \/ (at[k] = "ready" /\ kind[k] = "manager")
      BY <2>2 DEF Leave
    <3>5. IsSession(SessionOf(k))
      BY Holder
    <3> QED BY <3>3, <3>4, <3>5
  <2>3. CASE ConnectionError(k)
    <3>1. ReleaseRunner(k, runner[k], SessionOf(k), yes)
      BY <2>0, <2>3 DEF ConnectionError
    <3> QED BY <2>0, <3>1, Holder
  <2> QED BY <2>1, <2>2, <2>3
<1>3. OthersStay(k)
  <2>1. runner' = runner \/ \E x : runner' = [runner EXCEPT ![k] = x]
    BY <1>2 DEF ReleaseRunner
  <2> QED BY <1>1, <2>1, Elsewhere
<1>4. ~tainted' /\ holds[k] # None /\ s.alive => error \/ Clean(s)
  <2>1. holds[k] # None /\ ~tainted /\ SessionOf(k).alive =>
          Fits(vendor, kind[k], runner[k], at[k], Level(k), opts[k],
               invalid[k], SessionOf(k))
    BY Holder
  <2> QED BY <1>1, <1>2, <2>1 DEF Fits
<1> DEFINE q == runner[k]
<1>5. ReleaseRunner(k, q, s, error)
  BY <1>2
<1> HIDE DEF q
<1> QED BY <1>1, <1>2, <1>3, <1>4, <1>5, OneReturn

LEMMA ConnectClean ==
    ASSUME CleanInv, NEW k \in Calls, Connect(k)
    PROVE  CleanTypes' /\ IdleFacts'
<1>1. PICK c \in Conns :
        /\ slot[c] # "leased" /\ slot' = [slot EXCEPT ![c] = "leased"]
        /\ session' = [session EXCEPT ![c] =
               IF slot[c] = "closed" THEN FreshSession ELSE session[c]]
        /\ holds' = [holds EXCEPT ![k] = c]
  BY DEF Connect
<1>2. /\ vendor' = vendor /\ kind' = kind /\ opts' = opts /\ tainted' = tainted
      /\ invalid' = invalid /\ open' = open /\ runner' = runner
      /\ at[k] = "connecting" /\ at' = [at EXCEPT ![k] = "ready"]
  BY DEF Connect, dataVars
<1>3. OthersStay(k)
  BY <1>1, <1>2, Elsewhere
<1>4. /\ DOMAIN session = Conns /\ slot \in [Conns -> {"idle", "leased", "closed"}]
      /\ holds \in [Calls -> Conns \cup {None}]
  BY DEF CleanInv, CleanTypes, LeaseInv, LeaseTypes
<1> DEFINE t == session'[c]
<1>5. /\ \A d \in Conns \ {c} : session'[d] = session[d] /\ slot'[d] = slot[d]
      /\ slot'[c] = "leased" /\ holds'[k] = c /\ at'[k] = "ready"
      /\ \A j \in Calls \ {k} : holds'[j] = holds[j]
  BY <1>1, <1>2, <1>4, Types
<1>6. t = FreshSession \/ (slot[c] = "idle" /\ t = session[c])
  BY <1>1, <1>4
<1>7. IsSession(FreshSession) /\ Clean(FreshSession)
  BY DEF IsSession, FreshSession, Clean, InTransaction
<1>8. IsSession(t) /\ (~tainted => Clean(t))
  BY <1>6, <1>7 DEF CleanInv, CleanTypes, IdleFacts
<1>9. CleanTypes'
  BY <1>1, <1>2, <1>4, <1>5, <1>8 DEF CleanInv, CleanTypes
<1>10. ASSUME ~tainted', NEW d \in Conns, slot'[d] = "idle" PROVE Clean(session'[d])
  BY <1>2, <1>5, <1>10 DEF CleanInv, IdleFacts
<1>11. ASSUME ~tainted' PROVE CallFits(k)'
  <2>1. runner[k] = NewRunner /\ ~runner[k].active /\ runner[k].depth = 0
    BY <1>2 DEF CleanInv, LeaseInv, NewFacts, NewRunner
  <2>2. Level(k)' = 0
    <3>1. ~InsideCall(k)
      BY <1>2 DEF InsideCall
    <3>2. Level(k) = 0
      BY <3>1, Holder
    <3> QED BY <1>2, <3>2 DEF Level
  <2>3. Clean(t)
    BY <1>2, <1>8, <1>11
  <2> HIDE DEF t
  <2>4. Fits(vendor', kind'[k], runner'[k], at'[k], Level(k)', opts'[k], invalid'[k], t)
    BY <1>2, <1>5, <2>1, <2>2, <2>3 DEF Fits, Knows, OptionsEnd, Clean
  <2> QED BY <1>5, <2>4 DEF CallFits, t
<1>12. ASSUME ~tainted', NEW j \in Calls, j # k PROVE CallFits(j)'
  <2>1. CallFits(j)
    BY <1>2, <1>12 DEF CleanInv, IdleFacts
  <2>2. holds[j] # None => holds[j] \in Conns \ {c}
    BY <1>1, <1>4 DEF CleanInv, LeaseInv, LeasesAreExclusive
  <2>3. holds[j] # None => session'[holds[j]] = session[holds[j]]
    BY <1>5, <2>2
  <2>4. /\ at'[j] = at[j] /\ runner'[j] = runner[j] /\ Level(j)' = Level(j)
        /\ opts'[j] = opts[j] /\ invalid'[j] = invalid[j]
    BY <1>3, <1>12 DEF OthersStay
  <2>5. holds'[j] = holds[j]
    BY <1>5, <1>12
  <2> QED BY <1>2, <2>1, <2>3, <2>4, <2>5 DEF CallFits
<1> QED BY <1>9, <1>10, <1>11, <1>12 DEF IdleFacts

LEMMA CleanStep == CleanInv /\ [Next]_vars => CleanInv'
<1> SUFFICES ASSUME CleanInv, [Next]_vars PROVE CleanInv'
  OBVIOUS
<1>1. LeaseInv' /\ LevelInv' /\ OptionTypes'
  BY LeaseStep, LevelStep, OptionTypesStep DEF CleanInv
<1>2. CleanTypes' /\ IdleFacts'
  <2>1. CASE UNCHANGED vars
    BY <2>1 DEF vars, CleanInv, CleanTypes, IdleFacts, CallFits, Level
  <2>2. ASSUME NEW k \in Calls, BeginCall(k) \/ CallStep(k) \/ ConnectionError(k)
        PROVE  CleanTypes' /\ IdleFacts'
    BY <2>2, MoveClean, ConnectClean, LeaveClean, StartClean, ApplyClean, StatementClean,
       RestoreClean, ReturnClean, CatchClean, PersistClean DEF CallStep
  <2>3. CASE ClosePool
    <3>1. /\ vendor' = vendor /\ slot' = [c \in Conns |-> "closed"]
          /\ session' = [c \in Conns |-> DeadSession]
          /\ holds' = [k \in Calls |-> None]
      BY <2>3 DEF ClosePool
    <3> QED BY <3>1, Dead DEF CleanInv, CleanTypes, IdleFacts, CallFits
  <2> QED BY <2>1, <2>2, <2>3 DEF Next
<1> QED BY <1>1, <1>2 DEF CleanInv

(***************************************************************************)
(* A connection that the pool may give to the next call has no transaction *)
(* open and the options that the pool set up, for any number of calls of   *)
(* any kind, of nested transactions and of failures, the ones in which a   *)
(* subscriber throws where the code forgets about it excepted: whatever    *)
(* the rollback of EntityManager.transaction or the restoring of session   *)
(* options could not put right keeps the connection out of the pool.       *)
(***************************************************************************)
THEOREM IdleConnectionsAreClean == Spec => []IdleIsClean
<1>1. Init => CleanInv
  BY InitLeases, InitLevels, InitClean DEF CleanInv
<1>2. CleanInv /\ [Next]_vars => CleanInv'
  BY CleanStep
<1>3. CleanInv => IdleIsClean
  BY DEF CleanInv, IdleFacts, IdleIsClean
<1> QED BY <1>1, <1>2, <1>3, PTL DEF Spec

=============================================================================
