--------------------------- MODULE DatabaseSession ---------------------------
(***************************************************************************)
(* One session of the database server, as far as the query runners of      *)
(* src/src/typeorm/driver rely on it: what a statement that begins, ends   *)
(* or structures a transaction does, for PostgreSQL and for Oracle.        *)
(*                                                                         *)
(* The server is not part of the repository.  The operators say what the   *)
(* runners assume of it: they are pure, from a session to a reply, and the *)
(* modules that execute statements decide when a reply is lost.            *)
(***************************************************************************)
EXTENDS Integers, Sequences

CONSTANTS Work       \* units of work that a statement may do

Vendors == {"postgres", "oracle"}

(***************************************************************************)
(* A transaction is a sequence of frames: the first holds the work done    *)
(* since it began, each further one the work done since a savepoint.  The  *)
(* mark is the number in the savepoint's name, typeorm_<mark>.             *)
(***************************************************************************)
Frame(mark) == [mark |-> mark, work |-> {}]

Frames == [mark : Int, work : SUBSET Work]

(***************************************************************************)
(* failed: PostgreSQL refuses everything but a rollback.  changed: a       *)
(* session option differs from what the pool set up.  alive: the           *)
(* connection exists.                                                      *)
(***************************************************************************)
Sessions == [frames : Seq(Frames), failed : BOOLEAN, changed : BOOLEAN,
             alive : BOOLEAN]

FreshSession == [frames |-> <<>>, failed |-> FALSE, changed |-> FALSE,
                 alive |-> TRUE]

DeadSession == [frames |-> <<>>, failed |-> FALSE, changed |-> FALSE,
                alive |-> FALSE]

InTransaction(s) == s.frames # <<>>

\* A session that may be given to anybody.
Clean(s) == ~InTransaction(s) /\ ~s.changed

WorkOf(s) == UNION {s.frames[i].work : i \in DOMAIN s.frames}

\* The answer to a statement: whether it succeeded, the session afterwards,
\* the work that became durable, and what went wrong on the way, if anything.
Reply(ok, s, durable) ==
    [ok |-> ok, session |-> s, durable |-> durable, cause |-> "none"]

\* An answer that is not the one the server owed.
Fault(reply) == [reply EXCEPT !.cause = "database"]

(***************************************************************************)
(* A refused statement.  PostgreSQL gives the transaction up; Oracle undoes *)
(* the statement alone.                                                    *)
(***************************************************************************)
Refuse(v, s) ==
    Reply(FALSE,
          [s EXCEPT !.failed = s.failed \/ (v = "postgres" /\ InTransaction(s))],
          {})

\* The transaction ends; SET LOCAL options end with it.
Ended(v, s) == [s EXCEPT !.frames = <<>>, !.failed = FALSE,
                         !.changed = s.changed /\ v = "oracle"]

(***************************************************************************)
(* START TRANSACTION, of which PostgreSQL only warns inside a transaction, *)
(* and SET TRANSACTION, which Oracle refuses there.                        *)
(***************************************************************************)
Begin(v, s) ==
    IF s.failed \/ (v = "oracle" /\ InTransaction(s)) THEN Refuse(v, s)
    ELSE IF InTransaction(s) THEN Reply(TRUE, s, {})
    ELSE Reply(TRUE, [s EXCEPT !.frames = <<Frame(0)>>], {})

\* The frames that a savepoint of this mark opens, the latest last.
Marked(s, mark) == {i \in DOMAIN s.frames : i > 1 /\ s.frames[i].mark = mark}

LatestMark(s, mark) ==
    CHOOSE i \in Marked(s, mark) : \A j \in Marked(s, mark) : j <= i

\* The work of frame i and of all later ones becomes work of frame i - 1.
Merge(s, i) ==
    [k \in 1..(i - 1) |->
        IF k < i - 1 THEN s.frames[k]
        ELSE [s.frames[k] EXCEPT
                 !.work = UNION {s.frames[j].work : j \in k..Len(s.frames)}]]

\* Oracle begins a transaction with the first statement that needs one.
FramesOf(s) == IF InTransaction(s) THEN s.frames ELSE <<Frame(0)>>

\* SAVEPOINT typeorm_<mark>; a negative number does not make a name.
Savepoint(v, s, mark) ==
    IF s.failed \/ mark <= 0 \/ (v = "postgres" /\ ~InTransaction(s))
    THEN Refuse(v, s)
    ELSE Reply(TRUE, [s EXCEPT !.frames = Append(FramesOf(s), Frame(mark))], {})

\* RELEASE SAVEPOINT typeorm_<mark>
Release(v, s, mark) ==
    IF s.failed \/ Marked(s, mark) = {} THEN Refuse(v, s)
    ELSE Reply(TRUE, [s EXCEPT !.frames = Merge(s, LatestMark(s, mark))], {})

\* ROLLBACK TO SAVEPOINT typeorm_<mark>: the savepoint itself remains.
RollbackTo(v, s, mark) ==
    IF Marked(s, mark) = {} THEN Refuse(v, s)
    ELSE LET i == LatestMark(s, mark)
         IN  Reply(TRUE,
                   [s EXCEPT !.frames = Append(SubSeq(s.frames, 1, i - 1),
                                               Frame(mark)),
                             !.failed = FALSE],
                   {})

\* COMMIT: PostgreSQL answers that of a failed transaction by rolling back.
Commit(v, s) ==
    Reply(TRUE, Ended(v, s), IF s.failed THEN {} ELSE WorkOf(s))

\* ROLLBACK
Rollback(v, s) == Reply(TRUE, Ended(v, s), {})

(***************************************************************************)
(* A statement that does w.  Outside a transaction of PostgreSQL, or with  *)
(* the autoCommit of the Oracle driver, it is durable at once; the latter  *)
(* commits a transaction that happens to be open as well.                  *)
(***************************************************************************)
Do(v, s, w, autoCommit) ==
    IF s.failed THEN Refuse(v, s)
    ELSE IF v = "postgres" /\ ~InTransaction(s) THEN Reply(TRUE, s, {w})
    ELSE IF v = "oracle" /\ autoCommit
      THEN Reply(TRUE, Ended(v, s), WorkOf(s) \cup {w})
    ELSE LET last == Len(FramesOf(s))
         IN  Reply(TRUE,
                   [s EXCEPT !.frames = [FramesOf(s) EXCEPT
                       ![last].work = @ \cup {w}]],
                   {})

\* SET LOCAL or ALTER SESSION, with the value wanted or the one captured.
SetOption(v, s, changed) ==
    IF s.failed THEN Refuse(v, s)
    ELSE Reply(TRUE, [s EXCEPT !.changed = changed], {})

(***************************************************************************)
(* How a statement fails on a connection that lives.  A COMMIT that fails, *)
(* on a deferred constraint say, has rolled back; a rollback is never      *)
(* refused, only answered too late for a client that stopped waiting.      *)
(***************************************************************************)
RefusedCommit(v, s) == Reply(FALSE, Ended(v, s), {})

AnsweredLate(due) == [due EXCEPT !.ok = FALSE]

(***************************************************************************)
(* What may become of a statement: the reply that is due, the failing one, *)
(* or a connection that is lost before or after the server executed it.  A *)
(* dead connection only fails.                                             *)
(***************************************************************************)
Replies(s, due, failing) ==
    IF ~s.alive THEN {Reply(FALSE, s, {})}
    ELSE {due, Fault(failing), Fault(Reply(FALSE, DeadSession, {})),
          Fault(Reply(FALSE, DeadSession, due.durable))}

=============================================================================
