---------------------------- MODULE Transactions ----------------------------
(***************************************************************************)
(* Calls that lease a connection of the pool, work in transactions on it   *)
(* and give it back: ExecuteBase and ConnectionBase (src/src/core),        *)
(* DatabaseAdapter.execute with DatabaseOptionsExecutor,                   *)
(* EntityManager.transaction and EntityPersistExecutor                     *)
(* (src/src/typeorm), over the query runners of QueryRunner and the        *)
(* server's sessions of DatabaseSession.                                   *)
(*                                                                         *)
(* A step is one call of a query runner with its outcome, and whatever the *)
(* code does with that outcome before it awaits again.                     *)
(***************************************************************************)
EXTENDS QueryRunner, FiniteSets

CONSTANTS Calls,        \* calls of the kit's API, each with one query runner
          Conns,        \* connections the pool may hold
          None,         \* no connection
          Mixes,        \* the kinds of the calls that are considered together
          MaxWork,      \* statements of a call
          MaxStarts,    \* transactions of a call, nested ones included
          MaxFaults     \* failures of the database and of subscribers

ASSUME ConstantsAssumption ==
    /\ None \notin Conns
    /\ MaxWork \in Nat /\ MaxStarts \in Nat /\ MaxFaults \in Nat
    /\ Work = Calls \X (1..MaxWork)
    /\ Mixes \subseteq [Calls -> {"execute", "configured", "manager", "persist"}]

(***************************************************************************)
(* execute: call and callSqlTransaction without, configured: with          *)
(* optionsCommands; manager: an application that uses getEntityManager;    *)
(* persist: EntityPersistExecutor with a runner of its own.                *)
(***************************************************************************)
Kinds == {"execute", "configured", "manager", "persist"}

Places == {"new", "connecting", "ready", "running", "restoring", "unwinding",
           "failing", "leaving", "done"}

VARIABLES
    vendor,     \* the database: the same for all calls
    ended,      \* the pool was closed
    slot,       \* [Conns -> "idle", "leased", "closed"]
    session,    \* [Conns -> the session of the connection]
    kind,       \* [Calls -> Kinds]
    at,         \* [Calls -> Places]
    holds,      \* [Calls -> the connection of its runner]
    runner,     \* [Calls -> Runners]
    open,       \* [Calls -> the open transaction() calls, each with its work]
    invalid,    \* [Calls -> releaseError is set]
    opts,       \* [Calls -> "unset", "set", "restored"]
    started,    \* [Calls -> transactions begun]
    used,       \* [Calls -> statements issued]
    durable,    \* the work that is committed
    kept,       \* history: work of transactions that resolved
    undone,     \* history: work of transactions that were rejected
    swallowed,  \* history: calls that went on in a transaction that was lost
    astray,     \* history: calls that went on in a transaction rolled back too far
    tainted,    \* history: a subscriber threw where the code forgets about it
    faults      \* failures so far

poolVars == <<ended, slot, session>>
callVars == <<kind, at, holds, runner, open, invalid, opts, started, used>>
dataVars == <<durable, kept, undone, swallowed, astray, tainted>>
vars == <<vendor, ended, slot, session, kind, at, holds, runner, open, invalid,
          opts, started, used, durable, kept, undone, swallowed, astray, tainted,
          faults>>

TypeOK ==
    /\ vendor \in Vendors
    /\ ended \in BOOLEAN
    /\ slot \in [Conns -> {"idle", "leased", "closed"}]
    /\ session \in [Conns -> Sessions]
    /\ kind \in [Calls -> Kinds]
    /\ at \in [Calls -> Places]
    /\ holds \in [Calls -> Conns \cup {None}]
    /\ runner \in [Calls -> Runners]
    /\ open \in [Calls -> Seq(SUBSET Work)]
    /\ invalid \in [Calls -> BOOLEAN]
    /\ opts \in [Calls -> {"unset", "set", "restored"}]
    /\ started \in [Calls -> 0..MaxStarts]
    /\ used \in [Calls -> 0..MaxWork]
    /\ durable \subseteq Work /\ kept \subseteq Work /\ undone \subseteq Work
    /\ swallowed \subseteq Calls /\ astray \subseteq Calls
    /\ tainted \in BOOLEAN
    /\ faults \in 0..MaxFaults

Init ==
    /\ vendor \in Vendors
    /\ ended = FALSE
    /\ slot = [c \in Conns |-> "closed"]
    /\ session = [c \in Conns |-> DeadSession]
    /\ kind \in Mixes
    /\ at = [k \in Calls |-> "new"]
    /\ holds = [k \in Calls |-> None]
    /\ runner = [k \in Calls |-> NewRunner]
    /\ open = [k \in Calls |-> <<>>]
    /\ invalid = [k \in Calls |-> FALSE]
    /\ opts = [k \in Calls |-> "unset"]
    /\ started = [k \in Calls |-> 0]
    /\ used = [k \in Calls |-> 0]
    /\ durable = {} /\ kept = {} /\ undone = {}
    /\ swallowed = {} /\ astray = {}
    /\ tainted = FALSE
    /\ faults = 0

-----------------------------------------------------------------------------
(* The connection and the runner of a call.                                *)

SessionOf(k) == IF holds[k] = None THEN DeadSession ELSE session[holds[k]]

Level(k) == Len(open[k])

\* The work of the transaction() call that is innermost.
Inner(k) == open[k][Level(k)]

Outer(k) == SubSeq(open[k], 1, Level(k) - 1)

Blame(cause) ==
    /\ cause # "none" => faults < MaxFaults
    /\ faults' = faults + (IF cause = "none" THEN 0 ELSE 1)

\* What an outcome o of a method of k's runner changes in the database.
Answered(k, o) ==
    /\ Blame(o.cause)
    /\ session' = IF holds[k] = None THEN session
                  ELSE [session EXCEPT ![holds[k]] = o.session]
    /\ durable' = durable \cup o.durable

(***************************************************************************)
(* The pool drops a connection that is released with an error or dead; the *)
(* Oracle driver rolls back what a connection it takes back left open.     *)
(***************************************************************************)
Returned(c, s, error) ==
    /\ slot' = [slot EXCEPT ![c] =
           IF error \/ ended \/ ~s.alive THEN "closed" ELSE "idle"]
    /\ session' = [session EXCEPT ![c] =
           IF error \/ ended \/ ~s.alive THEN DeadSession
           ELSE IF vendor = "oracle" THEN Ended(vendor, s)
           ELSE s]

\* Mutant of ReleaseRunner: the runner keeps the connection it gave back.
ReleaseRunnerKeeping(k, q, s, error) ==
    /\ runner' = [runner EXCEPT ![k] = [q EXCEPT !.released = TRUE]]
    /\ UNCHANGED holds
    /\ IF holds[k] = None THEN UNCHANGED <<slot, session>>
       ELSE Returned(holds[k], s, error)

(***************************************************************************)
(* release(error) of the runner q of k, whose session is s: at most once,  *)
(* since releasePostgresConnection returns early when isReleased is set    *)
(* and OracleQueryRunner forgets its connection.                           *)
(***************************************************************************)
ReleaseRunner(k, q, s, error) ==
    /\ runner' = [runner EXCEPT ![k] = [q EXCEPT !.released = TRUE]]
    /\ holds' = [holds EXCEPT ![k] = None]
    /\ IF holds[k] = None THEN UNCHANGED <<slot, session>>
       ELSE Returned(holds[k], s, error)

-----------------------------------------------------------------------------
(* Acquiring a connection.                                                 *)

BeginCall(k) ==
    /\ at[k] = "new"
    /\ at' = [at EXCEPT ![k] = "connecting"]
    /\ UNCHANGED <<vendor, poolVars, kind, holds, runner, open, invalid, opts,
                   started, used, dataVars, faults>>

\* The pool hands out an idle connection, or opens one.
Connect(k) ==
    /\ at[k] = "connecting"
    /\ ~ended
    /\ \E c \in Conns :
         /\ slot[c] # "leased"
         /\ slot' = [slot EXCEPT ![c] = "leased"]
         /\ session' = [session EXCEPT ![c] =
                IF slot[c] = "closed" THEN FreshSession ELSE session[c]]
         /\ holds' = [holds EXCEPT ![k] = c]
    /\ at' = [at EXCEPT ![k] = "ready"]
    /\ UNCHANGED <<vendor, ended, kind, runner, open, invalid, opts, started,
                   used, dataVars, faults>>

\* Mutant of ConnectFails: a pool that was closed lets those who wait wait on.
ConnectFailsWhileOpen(k) ==
    /\ at[k] = "connecting" /\ ~ended
    /\ Blame("database")
    /\ ReleaseRunner(k, runner[k], DeadSession, TRUE)
    /\ at' = [at EXCEPT ![k] = "done"]
    /\ UNCHANGED <<vendor, ended, kind, open, invalid, opts, started, used,
                   dataVars>>

\* getEntityManager releases the runner of a connect that failed.
ConnectFails(k) ==
    /\ at[k] = "connecting"
    /\ Blame(IF ended THEN "none" ELSE "database")
    /\ ReleaseRunner(k, runner[k], DeadSession, TRUE)
    /\ at' = [at EXCEPT ![k] = "done"]
    /\ UNCHANGED <<vendor, ended, kind, open, invalid, opts, started, used,
                   dataVars>>

-----------------------------------------------------------------------------
(* One transaction.                                                        *)

MayStart(k) ==
    \/ at[k] = "ready" /\ (started[k] = 0 \/ kind[k] = "manager")
    \/ at[k] = "running" /\ kind[k] = "manager"

(***************************************************************************)
(* transaction() begins, or the persist executor begins its own.  A        *)
(* subscriber that stops a nested one leaves isTransactionActive false     *)
(* while the outer transaction is open.                                    *)
(***************************************************************************)
Start(k) ==
    /\ MayStart(k)
    /\ started[k] < MaxStarts
    /\ ~runner[k].released \/ kind[k] = "persist"
    /\ \E o \in StartTransaction(vendor, runner[k], SessionOf(k)) :
         /\ Answered(k, o)
         /\ runner' = [runner EXCEPT ![k] = o.runner]
         /\ at' = [at EXCEPT ![k] = IF o.ok THEN "running" ELSE "failing"]
         /\ tainted' = (tainted \/ (o.cause = "before" /\ runner[k].depth # 0))
    /\ open' = [open EXCEPT ![k] = Append(open[k], {})]
    /\ started' = [started EXCEPT ![k] = started[k] + 1]
    /\ UNCHANGED <<vendor, ended, slot, kind, holds, invalid, opts, used, kept,
                   undone, swallowed, astray>>

\* transaction() of a runner that was released meanwhile throws at once.
StartRefused(k) ==
    /\ at[k] = "ready" /\ started[k] = 0
    /\ runner[k].released /\ kind[k] \in {"execute", "configured"}
    /\ at' = [at EXCEPT ![k] = "leaving"]
    /\ UNCHANGED <<vendor, poolVars, kind, holds, runner, open, invalid, opts,
                   started, used, dataVars, faults>>

\* Where a call goes on whose callback threw: Oracle options come first.
Raised(k) ==
    IF vendor = "oracle" /\ opts[k] = "set" THEN "unwinding" ELSE "failing"

(***************************************************************************)
(* optionsCommands are applied before the operation.  When one of several  *)
(* fails the earlier ones are in force; a failure to capture the value of  *)
(* an Oracle parameter comes before any of them.                           *)
(***************************************************************************)
ApplyOptions(k) ==
    /\ at[k] = "running" /\ kind[k] = "configured" /\ opts[k] = "unset"
    /\ \E before \in BOOLEAN, captured \in BOOLEAN :
         LET s == SessionOf(k)
             failing == Refuse(vendor, [s EXCEPT !.changed = s.changed \/ before])
         IN  \E r \in Query(runner[k], s, SetOption(vendor, s, TRUE), failing) :
               /\ captured \/ (~r.ok /\ ~before)
               /\ Answered(k, r)
               /\ opts' = [opts EXCEPT ![k] = IF captured THEN "set" ELSE "unset"]
               /\ at' = [at EXCEPT ![k] =
                      IF r.ok THEN "running"
                      ELSE IF captured /\ vendor = "oracle" THEN "unwinding"
                      ELSE "failing"]
    /\ UNCHANGED <<vendor, ended, slot, kind, holds, runner, open, invalid,
                   started, used, kept, undone, swallowed, astray, tainted>>

(***************************************************************************)
(* A statement of the callback.  When it fails the callback throws; that   *)
(* of an application may also go on as if nothing had happened.            *)
(***************************************************************************)
Statement(k) ==
    LET w == <<k, used[k] + 1>>
    IN  /\ at[k] = "running" /\ used[k] < MaxWork
        /\ kind[k] = "configured" => opts[k] = "set"
        /\ used' = [used EXCEPT ![k] = used[k] + 1]
        /\ \E r \in Execute(vendor, runner[k], SessionOf(k), w) :
             /\ Answered(k, r)
             /\ \/ /\ r.ok
                   /\ open' = [open EXCEPT ![k] = Append(Outer(k), Inner(k) \cup {w})]
                   /\ UNCHANGED <<at, swallowed>>
                \/ /\ ~r.ok
                   /\ at' = [at EXCEPT ![k] = Raised(k)]
                   /\ UNCHANGED <<open, swallowed>>
                \/ /\ ~r.ok /\ kind[k] = "manager"
                   /\ swallowed' = IF vendor = "postgres" THEN swallowed \cup {k}
                                   ELSE swallowed
                   /\ UNCHANGED <<at, open>>
        /\ UNCHANGED <<vendor, ended, slot, kind, holds, runner, invalid, opts,
                       started, kept, undone, astray, tainted>>

\* The callback throws for a reason of its own: a business rule, a result
\* that cannot be materialized.
CallbackThrows(k) ==
    /\ at[k] = "running"
    /\ at' = [at EXCEPT ![k] = Raised(k)]
    /\ UNCHANGED <<vendor, poolVars, kind, holds, runner, open, invalid, opts,
                   started, used, dataVars, faults>>

\* The operation of a call with options is over.
OperationEnds(k) ==
    /\ at[k] = "running" /\ kind[k] = "configured" /\ opts[k] = "set"
    /\ vendor = "oracle"
    /\ at' = [at EXCEPT ![k] = "restoring"]
    /\ UNCHANGED <<vendor, poolVars, kind, holds, runner, open, invalid, opts,
                   started, used, dataVars, faults>>

\* The captured values are set again; if that fails the error carries the
\* mark that invalidates the connection.
RestoreOptions(k) ==
    /\ at[k] \in {"restoring", "unwinding"}
    /\ LET s == SessionOf(k)
       IN \E r \in Query(runner[k], s, SetOption(vendor, s, FALSE), Refuse(vendor, s)) :
            /\ Answered(k, r)
            /\ invalid' = [invalid EXCEPT ![k] = ~r.ok]
            /\ at' = [at EXCEPT ![k] =
                   IF r.ok /\ at[k] = "restoring" THEN "running" ELSE "failing"]
    /\ opts' = [opts EXCEPT ![k] = "restored"]
    /\ UNCHANGED <<vendor, ended, slot, kind, holds, runner, open, started, used,
                   kept, undone, swallowed, astray, tainted>>

\* Where a call is after its outermost transaction.
Outside(k) == IF kind[k] = "manager" THEN "ready" ELSE "leaving"

(***************************************************************************)
(* The callback returns and the transaction is committed.  If that fails   *)
(* the connection is not trusted any more; whether the work is durable is  *)
(* open unless a subscriber kept the COMMIT from being sent.               *)
(***************************************************************************)
Return(k) ==
    /\ at[k] = "running"
    /\ kind[k] = "configured" =>
         opts[k] = IF vendor = "oracle" THEN "restored" ELSE "set"
    /\ \E o \in CommitTransaction(vendor, runner[k], SessionOf(k)) :
         /\ Answered(k, o)
         /\ runner' = [runner EXCEPT ![k] = o.runner]
         /\ \/ /\ o.ok /\ Level(k) > 1
               /\ open' = [open EXCEPT ![k] =
                      [Outer(k) EXCEPT ![Level(k) - 1] = @ \cup Inner(k)]]
               /\ UNCHANGED <<at, invalid, kept, swallowed>>
            \/ /\ o.ok /\ Level(k) = 1
               /\ open' = [open EXCEPT ![k] = <<>>]
               /\ at' = [at EXCEPT ![k] = Outside(k)]
               /\ kept' = IF k \in swallowed THEN kept ELSE kept \cup Inner(k)
               /\ swallowed' = swallowed \ {k}
               /\ UNCHANGED invalid
            \/ /\ ~o.ok
               /\ open' = IF Level(k) = 1 /\ o.cause # "before"
                          THEN [open EXCEPT ![k] = <<{}>>] ELSE open
               /\ at' = [at EXCEPT ![k] = "failing"]
               /\ invalid' = [invalid EXCEPT ![k] = TRUE]
               /\ UNCHANGED <<kept, swallowed>>
    /\ UNCHANGED <<vendor, ended, slot, kind, holds, opts, started, used, undone,
                   astray, tainted>>

\* The outcomes of the rollback in a catch block; transaction() asks for one
\* only if the runner is in a transaction.
CatchOutcomes(k) ==
    IF runner[k].active THEN RollbackTransaction(vendor, runner[k], SessionOf(k))
    ELSE {Outcome(TRUE, runner[k], Reply(TRUE, SessionOf(k), {}), "none")}

\* The error reaches the callback that encloses the transaction() call,
\* which may catch it, or the code that called the outermost one.
Rethrown(k) ==
    IF Level(k) = 1 THEN {Outside(k)} ELSE {"running", "failing"}

\* Mutant of Distrusted: the failure of the rollback is forgotten.
DistrustedCommit(k, o) == invalid[k]

\* A connection to drop: the error says so, or its rollback failed too.
Distrusted(k, o) == invalid[k] \/ ~o.ok

(***************************************************************************)
(* The catch and finally blocks of EntityManager.transaction, for the      *)
(* manager of a runner that somebody else releases.  An enclosing callback *)
(* may go on although the connection of its transaction is gone (commits   *)
(* of Oracle at a depth other than 1 do not notice), or although its own   *)
(* work is: a nested transaction() that did not start rolls the enclosing  *)
(* one back in its place, and the runner counts one level too few.         *)
(***************************************************************************)
Catch(k) ==
    /\ at[k] = "failing" /\ kind[k] # "persist"
    /\ \E o \in CatchOutcomes(k), next \in Rethrown(k) :
         /\ Blame(o.cause)
         /\ durable' = durable \cup o.durable
         /\ IF Distrusted(k, o)
            THEN ReleaseRunner(k, o.runner, o.session, TRUE)
            ELSE /\ runner' = [runner EXCEPT ![k] = o.runner]
                 /\ session' = IF holds[k] = None THEN session
                               ELSE [session EXCEPT ![holds[k]] = o.session]
                 /\ UNCHANGED <<slot, holds>>
         /\ at' = [at EXCEPT ![k] = next]
         /\ swallowed' = IF Level(k) = 1 THEN swallowed \ {k}
                         ELSE IF Distrusted(k, o) /\ next = "running"
                         THEN swallowed \cup {k} ELSE swallowed
         /\ astray' = IF /\ next = "running" /\ ~Distrusted(k, o)
                         /\ ~o.runner.active \/ o.runner.depth # Level(k) - 1
                      THEN astray \cup {k} ELSE astray
    /\ undone' = undone \cup Inner(k)
    /\ open' = [open EXCEPT ![k] = Outer(k)]
    /\ invalid' = [invalid EXCEPT ![k] = FALSE]
    /\ UNCHANGED <<vendor, ended, kind, opts, started, used, kept, tainted>>

(***************************************************************************)
(* The catch block of EntityPersistExecutor: the rollback may fail, and    *)
(* nothing is remembered of that.                                          *)
(***************************************************************************)
PersistCatch(k) ==
    /\ at[k] = "failing" /\ kind[k] = "persist"
    /\ \E o \in RollbackTransaction(vendor, runner[k], SessionOf(k)) :
         /\ Answered(k, o)
         /\ runner' = [runner EXCEPT ![k] = o.runner]
         /\ tainted' = (tainted \/ o.cause = "before")
    /\ undone' = undone \cup Inner(k)
    /\ open' = [open EXCEPT ![k] = Outer(k)]
    /\ at' = [at EXCEPT ![k] = "leaving"]
    /\ UNCHANGED <<vendor, ended, slot, kind, holds, invalid, opts, started, used,
                   kept, swallowed, astray>>

(***************************************************************************)
(* The release at the end of a call.  Closing an Oracle connection may     *)
(* fail; the runner has forgotten it all the same.                         *)
(***************************************************************************)
Leave(k) ==
    /\ at[k] = "leaving" \/ (at[k] = "ready" /\ kind[k] = "manager")
    /\ \E cause \in {"none", "database"} :
         /\ cause = "database" => vendor = "oracle" /\ holds[k] # None
         /\ Blame(cause)
         /\ ReleaseRunner(k, runner[k], SessionOf(k), cause = "database")
    /\ at' = [at EXCEPT ![k] = "done"]
    /\ UNCHANGED <<vendor, ended, kind, open, invalid, opts, started, used,
                   dataVars>>

-----------------------------------------------------------------------------
(* What happens to a leased connection from outside.                       *)

\* pg reports a broken connection: the runner returns it with the error.
ConnectionError(k) ==
    /\ vendor = "postgres" /\ holds[k] # None
    /\ Blame("database")
    /\ ReleaseRunner(k, runner[k], SessionOf(k), TRUE)
    /\ UNCHANGED <<vendor, ended, kind, at, open, invalid, opts, started, used,
                   dataVars>>

(***************************************************************************)
(* The data source is destroyed.  The pools of pg release every connected  *)
(* runner first, in the middle of whatever it does; a pool of Oracle does  *)
(* not close while a connection is out.                                    *)
(***************************************************************************)
ClosePool ==
    /\ ~ended
    /\ vendor = "oracle" => \A k \in Calls : holds[k] = None
    /\ ended' = TRUE
    /\ slot' = [c \in Conns |-> "closed"]
    /\ session' = [c \in Conns |-> DeadSession]
    /\ runner' = [k \in Calls |-> IF holds[k] = None THEN runner[k]
                                  ELSE [runner[k] EXCEPT !.released = TRUE]]
    /\ holds' = [k \in Calls |-> None]
    /\ UNCHANGED <<vendor, kind, at, open, invalid, opts, started, used, dataVars,
                   faults>>

CallStep(k) ==
    \/ Connect(k) \/ ConnectFails(k)
    \/ Start(k) \/ StartRefused(k)
    \/ ApplyOptions(k) \/ Statement(k) \/ CallbackThrows(k)
    \/ OperationEnds(k) \/ RestoreOptions(k)
    \/ Return(k) \/ Catch(k) \/ PersistCatch(k)
    \/ Leave(k)

Next ==
    \/ \E k \in Calls : BeginCall(k) \/ CallStep(k) \/ ConnectionError(k)
    \/ ClosePool

Spec == Init /\ [][Next]_vars

\* The server answers, callbacks end, applications release their manager.
Fairness == \A k \in Calls : WF_vars(CallStep(k))

FairSpec == Spec /\ Fairness

-----------------------------------------------------------------------------
(* Properties.                                                             *)

(***************************************************************************)
(* A connection that the pool may give to anybody has no transaction open  *)
(* and the session options the pool set up, whatever the calls before did  *)
(* and however they failed: a rollback that failed, options that could not *)
(* be restored, a COMMIT of unknown outcome keep it from coming back       *)
(* (EntityManager.transaction, markConnectionForInvalidation).             *)
(***************************************************************************)
IdleIsClean ==
    tainted \/ \A c \in Conns : slot[c] = "idle" => Clean(session[c])

(***************************************************************************)
(* What a call was told is true: the work of transactions that resolved is *)
(* durable, but for a callback that went on in a lost transaction, and the *)
(* work of transactions that were rejected, nested ones included, is not   *)
(* and never becomes so through a later user of the connection, unless the *)
(* outcome of a COMMIT is unknown or the callback went on after a nested   *)
(* transaction() that did not start had rolled back more than its own work.*)
(***************************************************************************)
OutcomesAreTrue ==
    tainted \/ /\ kept \subseteq durable
               /\ \A w \in undone \cap durable : w[1] \in astray

(***************************************************************************)
(* "Wraps given function execution (and all operations made there) in a    *)
(* transaction" (EntityManager.ts:114): what a rejected transaction() did  *)
(* is not durable.  The code does not keep this: a nested transaction()    *)
(* whose SAVEPOINT is refused rolls the outer one back, and a callback     *)
(* that handles that error goes on without a transaction.                  *)
(***************************************************************************)
RejectedIsUndone == tainted \/ undone \cap durable = {}

(***************************************************************************)
(* Every connection is in one place: a runner that was not released holds  *)
(* it alone, it is idle, or it is closed; no call ends with one            *)
(* (releaseEntityManager in the finally blocks of ExecuteBase).            *)
(***************************************************************************)
LeasesAreExclusive ==
    /\ \A c \in Conns : slot[c] = "leased" <=> \E k \in Calls : holds[k] = c
    /\ \A j, k \in Calls : holds[j] = holds[k] /\ j # k => holds[j] = None
    /\ \A k \in Calls : holds[k] # None =>
         ~runner[k].released /\ at[k] \notin {"new", "connecting", "done"}

\* Every call that asked for a connection ends, also when the pool is closed
\* or its connection breaks under it.
CallsEnd == \A k \in Calls : at[k] = "connecting" ~> at[k] = "done"

=============================================================================
