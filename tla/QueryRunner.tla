----------------------------- MODULE QueryRunner -----------------------------
(***************************************************************************)
(* The transaction protocol of PostgresQueryRunner and OracleQueryRunner   *)
(* (src/src/typeorm/driver/postgres/PostgresQueryRunner.ts,                *)
(* src/src/typeorm/driver/oracle/OracleQueryRunner.ts).                    *)
(*                                                                         *)
(* A runner keeps its own idea of the transaction: isTransactionActive and *)
(* transactionDepth.  Each method is an operator from a runner and the     *)
(* session of its connection to the set of its possible outcomes: the one  *)
(* that is due, those in which a subscriber throws before or after the     *)
(* statement, and those in which the statement fails or its connection is  *)
(* lost.                                                                   *)
(***************************************************************************)
EXTENDS DatabaseSession

(***************************************************************************)
(* released is isReleased: every query of the runner throws from then on.  *)
(***************************************************************************)
Runners == [active : BOOLEAN, depth : Int, released : BOOLEAN]

NewRunner == [active |-> FALSE, depth |-> 0, released |-> FALSE]

Outcome(ok, q, reply, cause) ==
    [ok |-> ok, runner |-> q, session |-> reply.session,
     durable |-> reply.durable, cause |-> cause]

\* An error thrown before anything was sent.
Thrown(q, s, cause) == Outcome(FALSE, q, Reply(FALSE, s, {}), cause)

\* The replies to a statement sent by query().
Query(q, s, due, failing) ==
    IF q.released THEN {Reply(FALSE, s, {})} ELSE Replies(s, due, failing)

(***************************************************************************)
(* The outcomes of a method that sends one statement: failed is the runner *)
(* when the statement fails, done the runner afterwards.                   *)
(***************************************************************************)
Outcomes(replies, failed, done) ==
    {Outcome(FALSE, failed, r, r.cause) : r \in {x \in replies : ~x.ok}}
    \cup {Outcome(TRUE, done, r, r.cause) : r \in {x \in replies : x.ok}}
    \cup {Outcome(FALSE, done, r, "after") : r \in {x \in replies : x.ok}}

(***************************************************************************)
(* startTransaction: isTransactionActive is set before the subscribers are *)
(* asked, and reset if one of them throws, at any depth.  An isolation     *)
(* level is one more statement, after START TRANSACTION of PostgreSQL.     *)
(***************************************************************************)
StartTransaction(v, q, s) ==
    LET begun == [q EXCEPT !.active = TRUE]
        due   == IF q.depth = 0 THEN Begin(v, s) ELSE Savepoint(v, s, q.depth)
        sent  == Query(q, s, due, Refuse(v, s))
    IN  IF v = "oracle" /\ q.released THEN {Thrown(q, s, "none")}
        ELSE {Thrown([q EXCEPT !.active = FALSE], s, "before")}
             \cup Outcomes(sent, begun, [begun EXCEPT !.depth = q.depth + 1])
             \cup {Outcome(FALSE, begun, Fault(Refuse(v, r.session)), "database") :
                     r \in {x \in sent : x.ok /\ q.depth = 0 /\ v = "postgres"}}

\* Mutant of CommitTransaction: COMMIT is sent at every depth.
CommitEveryDepth(v, q, s) ==
    LET inner == [q EXCEPT !.depth = q.depth - 1, !.active = q.depth > 1]
    IN  IF ~q.active THEN {Thrown(q, s, "none")}
        ELSE {Thrown(q, s, "before")} \cup
             Outcomes(Query(q, s, Commit(v, s), RefusedCommit(v, s)), q, inner)

(***************************************************************************)
(* commitTransaction: a nested transaction of PostgreSQL releases its      *)
(* savepoint, one of Oracle sends nothing.                                 *)
(***************************************************************************)
CommitTransaction(v, q, s) ==
    LET outer == [q EXCEPT !.depth = q.depth - 1, !.active = FALSE]
        inner == [q EXCEPT !.depth = q.depth - 1]
        whole == IF v = "postgres" THEN q.depth <= 1 ELSE q.depth = 1
    IN  IF ~q.active THEN {Thrown(q, s, "none")}
        ELSE {Thrown(q, s, "before")} \cup
             IF whole
             THEN Outcomes(Query(q, s, Commit(v, s), RefusedCommit(v, s)), q, outer)
             ELSE IF v = "postgres"
               THEN Outcomes(Query(q, s, Release(v, s, q.depth - 1), Refuse(v, s)),
                             q, inner)
             ELSE Outcomes({Reply(TRUE, s, {})}, q, inner)

(***************************************************************************)
(* rollbackTransaction: to the savepoint of a nested transaction, else the *)
(* whole of it.                                                            *)
(***************************************************************************)
RollbackTransaction(v, q, s) ==
    LET outer == [q EXCEPT !.depth = q.depth - 1, !.active = FALSE]
        inner == [q EXCEPT !.depth = q.depth - 1]
        due   == IF q.depth > 1 THEN RollbackTo(v, s, q.depth - 1)
                 ELSE Rollback(v, s)
    IN  IF ~q.active THEN {Thrown(q, s, "none")}
        ELSE {Thrown(q, s, "before")} \cup
             Outcomes(Query(q, s, due, AnsweredLate(due)), q,
                      IF q.depth > 1 THEN inner ELSE outer)

\* A statement of the application; Oracle commits it at once unless the
\* runner believes that a transaction is in progress.
Execute(v, q, s, w) == Query(q, s, Do(v, s, w, ~q.active), Refuse(v, s))

=============================================================================
