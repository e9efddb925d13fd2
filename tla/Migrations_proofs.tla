-------------------------- MODULE Migrations_proofs --------------------------
(***************************************************************************)
(* The safety of the migrations, for every number of migrations, runs and  *)
(* faults.                                                                 *)
(*                                                                         *)
(* The invariant says of each place of the executor how far it has come:   *)
(* which of the pending migrations have their row, which of the rows are   *)
(* work of the open transaction, and that a migration and its row are      *)
(* always on the same side of the next COMMIT.                             *)
(***************************************************************************)
EXTENDS Migrations, FiniteSetTheorems, WellFoundedInduction, TLAPS

-----------------------------------------------------------------------------
(* The inductive invariant.                                                *)

\* The generated ids are bounded, and neither they nor migrations repeat.
IsTable(rs) ==
    /\ rs \subseteq Rows
    /\ \E n \in Nat : \A r \in rs : r.id <= n
    /\ \A r, q \in rs : r.id = q.id \/ r.migration = q.migration => r = q

\* No savepoints: an open transaction is a single frame.
IsShallow(s) ==
    /\ s \in Sessions
    /\ s.frames = <<>> \/ \E ws \in SUBSET Work : s.frames = <<[mark |-> 0, work |-> ws]>>

\* The runner knows whether a transaction is open; one of Oracle opens with
\* the first statement that needs it.
IsSound(v, q, s) ==
    /\ s.alive /\ ~s.failed
    /\ q.depth = IF q.active THEN 1 ELSE 0
    /\ ~q.active => s.frames = <<>>
    /\ v = "postgres" /\ q.active => s.frames # <<>>

\* The rows that the positions A of the list p get after the rows b.
RowsOf(b, p, A) == {[id |-> HighestId(b) + i, migration |-> p[i]] : i \in A}

\* The positions of pending that have their row, and those whose row is work
\* of the open transaction.
Added == {i \in DOMAIN pending : NewRow(i) \in records}

Inserted(ws) == {i \in DOMAIN pending : <<"record", pending[i]>> \in ws}

\* pending is what the executor found to do when it loaded the rows.
PendingFacts ==
    pending # <<>> =>
        IF task = "run"
        THEN /\ ToSet(pending) = known \ Executed(base)
             /\ \A i, j \in DOMAIN pending : i < j => pending[i] < pending[j]
        ELSE base # {} /\ pending = <<LastRow(base).migration>>

\* The rows that have come, or gone, since then.
RecordFacts ==
    pending # <<>> =>
        IF task = "run"
        THEN /\ records = base \cup RowsOf(base, pending, Added)
             /\ \A i \in Added, j \in DOMAIN pending : j < i => j \in Added
        ELSE records \in {base, base \ {LastRow(base)}}

\* What holds of the database, wherever the execution is.
DataFacts ==
    /\ IsTable(base) /\ IsTable(records)
    /\ PendingFacts /\ RecordFacts
    /\ InStep

LastingFacts == TypeOK /\ IsShallow(session) /\ ~runner.released /\ DataFacts

-----------------------------------------------------------------------------
(* What holds at the places of an execution.                               *)

\* up and the row of a migration are work of the same transaction, but for
\* the migrations S.
Paired(ws, S) ==
    \A m \in Migrations \ (loose \cup S) : <<"up", m>> \in ws <=> <<"record", m>> \in ws

\* The first n migrations are dealt with.
Dealt(n) ==
    LET ws == WorkOf(session)
    IN  /\ task = "run" /\ pending # <<>>
        /\ IsSound(vendor, runner, session)
        /\ runner.active => started
        /\ mode = "all" => \A i \in DOMAIN pending : override[pending[i]] = "default"
        /\ ws \subseteq {"up", "record"} \X ToSet(pending)
        /\ Added \cup Inserted(ws) = 1..n
        /\ vendor = "postgres" /\ mode = "all" => Added = {}
        /\ \A m \in Migrations \ doubtful :
             <<"record", m>> \in ws => m \in schema \/ <<"up", m>> \in ws

AtLoop ==
    /\ Dealt(next - 1) /\ Paired(WorkOf(session), {})
    /\ runner.active <=> mode = "all"

AtUp ==
    /\ next <= Len(pending) /\ ~fake
    /\ Dealt(next - 1) /\ Paired(WorkOf(session), {})
    /\ runner.active <=> mode = "all" \/ OwnTransaction(Current)

AtRecord ==
    LET ws == WorkOf(session)
    IN  /\ next <= Len(pending)
        /\ Dealt(next - 1) /\ Paired(ws, {Current})
        /\ runner.active <=> mode = "all" \/ (~fake /\ OwnTransaction(Current))
        /\ ~fake => /\ Current \in schema \/ <<"up", Current>> \in ws \/ Current \in doubtful
                    /\ <<"up", Current>> \in ws \/ Current \in loose

AtCommit ==
    /\ next <= Len(pending) /\ mode # "all"
    /\ Dealt(next) /\ Paired(WorkOf(session), {})
    /\ runner.active

AtCommitAll ==
    /\ next = Len(pending) + 1 /\ mode = "all"
    /\ Dealt(next - 1) /\ Paired(WorkOf(session), {})
    /\ runner.active

\* The last migration is being undone.
Undoing ==
    /\ task = "undo" /\ pending # <<>> /\ next = 1 /\ records = base
    /\ IsSound(vendor, runner, session)
    /\ runner.active <=> started

AtDown == Undoing /\ WorkOf(session) = {}

AtErase ==
    /\ Undoing /\ WorkOf(session) \subseteq {<<"down", Current>>}
    /\ ~fake => <<"down", Current>> \in WorkOf(session) \/ Current \in doubtful

AtUndoCommit ==
    /\ Undoing /\ runner.active
    /\ WorkOf(session) \subseteq {"down", "erase"} \X {Current}
    /\ <<"erase", Current>> \in WorkOf(session)
    /\ <<"down", Current>> \in WorkOf(session) \/ Current \in doubtful

AtBegin ==
    /\ pending # <<>> /\ next = 1 /\ records = base /\ ~started
    /\ mode = "all" /\ task = "run" =>
         \A i \in DOMAIN pending : override[pending[i]] = "default"
    /\ runner = NewRunner /\ session = FreshSession

AtPrepare ==
    pending = <<>> /\ next = 1 /\ ~started /\ runner = NewRunner /\ session = FreshSession

\* All is done.
AtEnd ==
    pending # <<>> =>
        IF task = "run" THEN Added = DOMAIN pending
        ELSE records = base \ {LastRow(base)}

PlaceFacts ==
    /\ pc = "prepare" => AtPrepare
    /\ pc = "begin" => AtBegin
    /\ pc = "loop" => AtLoop
    /\ pc = "up" => AtUp
    /\ pc = "record" => AtRecord
    /\ pc = "commit" => AtCommit
    /\ pc = "commitAll" => AtCommitAll
    /\ pc = "down" => AtDown
    /\ pc = "erase" => AtErase
    /\ pc = "undoCommit" => AtUndoCommit
    /\ pc = "catch" => runner.depth \in {0, 1}
    /\ pc \in {"release", "resolved"} => AtEnd

MigrationInv == LastingFacts /\ PlaceFacts

-----------------------------------------------------------------------------
(* Numbers, rows and lists.                                                *)

\* A bounded set of numbers has a greatest one.
LEMMA MaxOfBounded ==
    ASSUME NEW S \in SUBSET Nat, S # {}, NEW n \in Nat, \A x \in S : x <= n
    PROVE  Max(S) \in S /\ \A x \in S : x <= Max(S)
<1> DEFINE R == OpToRel(<, Nat)
           T == {n - x : x \in S}
<1>1. IsWellFoundedOn(R, Nat)
  BY NatLessThanWellFounded
<1>2. \A x, y \in Nat : y < x => <<y, x>> \in R
  BY DEF OpToRel
<1> HIDE DEF R
<1>3. T \subseteq Nat /\ T # {}
  <2>1. \A x \in S : n - x \in Nat
    OBVIOUS
  <2> QED BY <2>1
<1> HIDE DEF T
<1>4. PICK t \in T : \A u \in T : ~ (<<u, t>> \in R)
  BY <1>1, <1>3, WFMin
<1>5. PICK x \in S : t = n - x
  BY <1>4 DEF T
<1>6. ASSUME NEW y \in S PROVE y <= x
  <2>1. n - y \in T
    BY DEF T
  <2>2. ~ (n - y < t)
    BY <1>2, <1>3, <1>4, <2>1
  <2> QED BY <1>5, <2>2
<1>7. \E z \in S : \A y \in S : z >= y
  BY <1>6
<1> QED BY <1>7 DEF Max

\* Rows have higher ids than HighestId says only when they come later.
LEMMA HighestIdOfTable ==
    ASSUME NEW rs, IsTable(rs)
    PROVE  HighestId(rs) \in Nat /\ \A r \in rs : r.id <= HighestId(rs)
<1> DEFINE S == {0} \cup {r.id : r \in rs}
<1>1. \A r \in rs : r.id \in Nat
  BY DEF IsTable, Rows
<1>2. PICK n \in Nat : \A r \in rs : r.id <= n
  BY DEF IsTable
<1>3. S \in SUBSET Nat /\ S # {} /\ \A x \in S : x <= n
  BY <1>1, <1>2
<1>4. \A r \in rs : r.id \in S
  OBVIOUS
<1>5. HighestId(rs) = Max(S)
  BY DEF HighestId
<1> HIDE DEF S
<1>6. Max(S) \in S /\ \A x \in S : x <= Max(S)
  BY <1>3, MaxOfBounded
<1> QED BY <1>3, <1>4, <1>5, <1>6

\* A table that is not empty has a last row.
LEMMA LastRowOfTable ==
    ASSUME NEW rs, IsTable(rs), rs # {}
    PROVE  LastRow(rs) \in rs /\ \A q \in rs : q.id <= LastRow(rs).id
<1> DEFINE S == {r.id : r \in rs}
<1>1. S \in SUBSET Nat /\ S # {}
  BY DEF IsTable, Rows
<1>2. PICK n \in Nat : \A r \in rs : r.id <= n
  BY DEF IsTable
<1>3. \A x \in S : x <= n
  BY <1>2
<1>4. Max(S) \in S /\ \A x \in S : x <= Max(S)
  <2> HIDE DEF S
  <2> QED BY <1>1, <1>2, <1>3, MaxOfBounded
<1>5. PICK r \in rs : r.id = Max(S)
  BY <1>4
<1>6. \A q \in rs : q.id <= r.id
  BY <1>4, <1>5
<1> QED BY <1>6 DEF LastRow

\* The rows without some of them are a table, too.
LEMMA PartOfTable ==
    ASSUME NEW rs, IsTable(rs), NEW part \in SUBSET rs
    PROVE  IsTable(part)
BY DEF IsTable

\* A list in ascending order of timestamps.
IsAscending(p) == \A i, j \in DOMAIN p : i < j => p[i] < p[j]

\* Rows that are added in the order of an ascending list make a table of one.
LEMMA RowsAdded ==
    ASSUME NEW b, IsTable(b), NEW p \in Seq(Migrations), IsAscending(p),
           ToSet(p) \cap Executed(b) = {}, NEW A \in SUBSET DOMAIN p
    PROVE  /\ IsTable(b \cup RowsOf(b, p, A))
           /\ Executed(b \cup RowsOf(b, p, A)) = Executed(b) \cup {p[i] : i \in A}
           /\ \A i \in DOMAIN p :
                [id |-> HighestId(b) + i, migration |-> p[i]] \in b \cup RowsOf(b, p, A)
                <=> i \in A
<1> DEFINE H == HighestId(b)
           row(i) == [id |-> H + i, migration |-> p[i]]
           R == RowsOf(b, p, A)
<1>1. H \in Nat /\ \A r \in b : r.id <= H
  BY HighestIdOfTable
<1>2. DOMAIN p = 1..Len(p) /\ Len(p) \in Nat /\ \A i \in DOMAIN p : p[i] \in Migrations
  OBVIOUS
<1>3. R = {row(i) : i \in A}
  BY DEF RowsOf
<1> HIDE DEF H, R
<1>4. \A i \in DOMAIN p : row(i) \in Rows /\ row(i).id = H + i /\ row(i).migration = p[i]
  BY <1>1, <1>2 DEF Rows
<1> HIDE DEF row
<1>5. \A i \in DOMAIN p : p[i] \in ToSet(p)
  BY DEF ToSet
<1>6. \A r \in b : \A i \in DOMAIN p : r.id # H + i /\ r.migration # p[i]
  <2>1. \A r \in b : r.id \in Nat
    BY DEF IsTable, Rows
  <2>2. \A r \in b : r.migration \in Executed(b)
    BY DEF Executed
  <2> QED BY <1>1, <1>2, <1>5, <2>1, <2>2
<1>7. \A i, j \in DOMAIN p : i # j => p[i] # p[j]
  BY <1>2 DEF IsAscending, Migrations
<1>8. IsTable(b \cup R)
  <2>1. b \cup R \subseteq Rows
    BY <1>3, <1>4 DEF IsTable
  <2>2. \A r \in b \cup R : r.id <= H + Len(p)
    <3>1. \A r \in b : r.id \in Nat
      BY DEF IsTable, Rows
    <3>2. \A r \in R : r.id <= H + Len(p)
      BY <1>1, <1>2, <1>3, <1>4
    <3> QED BY <1>1, <1>2, <3>1, <3>2
  <2>3. \A r, q \in b : r.id = q.id \/ r.migration = q.migration => r = q
    BY DEF IsTable
  <2>4. \A i, j \in A : row(i).id = row(j).id \/ row(i).migration = row(j).migration => i = j
    BY <1>1, <1>2, <1>4, <1>7
  <2>5. \A r, q \in R : r.id = q.id \/ r.migration = q.migration => r = q
    BY <1>3, <2>4
  <2>6. \A r \in b, q \in R : r.id # q.id /\ r.migration # q.migration
    BY <1>3, <1>4, <1>6
  <2>7. \A r, q \in b \cup R : r.id = q.id \/ r.migration = q.migration => r = q
    BY <2>3, <2>5, <2>6
  <2>8. H + Len(p) \in Nat
    BY <1>1, <1>2
  <2> QED BY <2>1, <2>2, <2>7, <2>8 DEF IsTable
<1>9. Executed(b \cup R) = Executed(b) \cup {p[i] : i \in A}
  <2>1. \A r \in R : \E i \in A : r.migration = p[i]
    BY <1>3, <1>4
  <2>2. \A i \in A : \E r \in R : r.migration = p[i]
    BY <1>3, <1>4
  <2> QED BY <2>1, <2>2 DEF Executed
<1>10. \A i \in DOMAIN p : row(i) \in b \cup R <=> i \in A
  <2>1. \A i \in DOMAIN p : row(i) \notin b
    BY <1>4, <1>6
  <2>2. \A i \in DOMAIN p : row(i) \in R => i \in A
    BY <1>1, <1>2, <1>3, <1>4
  <2> QED BY <1>3, <2>1, <2>2
<1> QED BY <1>8, <1>9, <1>10 DEF R, row, H

\* f lists the members of S in ascending order.
Lists(f, n, S) ==
    /\ f \in [1..n -> S] /\ S = ToSet(f)
    /\ \A i, j \in DOMAIN f : i < j => f[i] < f[j]

\* Every set of numbers up to k can be listed.
LEMMA ListExists ==
    ASSUME NEW k \in Nat, NEW S \in SUBSET (1..k)
    PROVE  IsFiniteSet(S) /\ \E f : Lists(f, Cardinality(S), S)
<1> DEFINE P(n) == IsFiniteSet(S \cap (1..n))
                   /\ \E f : Lists(f, Cardinality(S \cap (1..n)), S \cap (1..n))
           R == OpToRel(<, Nat)
           Bad == {n \in Nat : ~P(n)}
<1>1. P(0)
  <2>1. S \cap (1..0) = {}
    OBVIOUS
  <2>2. IsFiniteSet({}) /\ Cardinality({}) = 0
    BY FS_EmptySet
  <2>3. Lists(<<>>, 0, {})
    BY DEF Lists, ToSet
  <2> QED BY <2>1, <2>2, <2>3
<1>2. ASSUME NEW n \in Nat, P(n) PROVE P(n + 1)
  <2> DEFINE A == S \cap (1..n)
             B == S \cap (1..(n + 1))
             c == Cardinality(A)
  <2>1. IsFiniteSet(A) /\ c \in Nat
    BY <1>2, FS_CardinalityType
  <2>2. PICK f : Lists(f, c, A)
    BY <1>2
  <2>3. CASE n + 1 \notin S
    <3>1. B = A
      BY <2>3
    <3> QED BY <1>2, <3>1
  <2>4. CASE n + 1 \in S
    <3>1. B = A \cup {n + 1} /\ n + 1 \notin A
      BY <2>4
    <3>2. IsFiniteSet(B) /\ Cardinality(B) = c + 1
      BY <2>1, <3>1, FS_AddElement
    <3>3. A \subseteq 1..n
      OBVIOUS
    <3> DEFINE g == [i \in 1..(c + 1) |-> IF i = c + 1 THEN n + 1 ELSE f[i]]
    <3> HIDE DEF A, B, c
    <3>4. DOMAIN f = 1..c /\ \A i \in 1..c : f[i] \in A
      BY <2>2 DEF Lists
    <3>5. \A x \in A : \E i \in 1..c : f[i] = x
      BY <2>2, <3>4 DEF Lists, ToSet
    <3>6. DOMAIN g = 1..(c + 1) /\ g[c + 1] = n + 1 /\ \A i \in 1..c : g[i] = f[i]
      BY <2>1
    <3>7. \A i \in 1..(c + 1) : i = c + 1 \/ i \in 1..c
      BY <2>1
    <3>8. g \in [1..(c + 1) -> B]
      BY <3>1, <3>4, <3>7
    <3> HIDE DEF g
    <3>9. \A x \in B : \E i \in DOMAIN g : g[i] = x
      <4>1. c + 1 \in 1..(c + 1) /\ \A i \in 1..c : i \in 1..(c + 1)
        BY <2>1
      <4> QED BY <3>1, <3>5, <3>6, <4>1
    <3>10. ToSet(g) = B
      BY <3>8, <3>9 DEF ToSet
    <3>11. ASSUME NEW i \in DOMAIN g, NEW j \in DOMAIN g, i < j
           PROVE  g[i] < g[j]
      <4>1. i \in 1..c
        BY <2>1, <3>6, <3>11
      <4>2. CASE j = c + 1
        <5>1. g[j] = n + 1
          BY <3>6, <4>2
        <5>2. g[i] \in 1..n
          <6>1. g[i] = f[i] /\ f[i] \in A
            BY <3>4, <3>6, <4>1
          <6> QED BY <3>3, <6>1
        <5>3. g[i] < n + 1
          BY <5>2
        <5> QED BY <5>1, <5>3
      <4>3. CASE j \in 1..c
        BY <2>2, <3>4, <3>6, <3>11, <4>1, <4>3 DEF Lists
      <4> QED BY <3>6, <3>7, <4>2, <4>3
    <3>12. Lists(g, c + 1, B)
      BY <3>8, <3>10, <3>11 DEF Lists
    <3> QED BY <3>2, <3>12 DEF B
  <2> QED BY <2>3, <2>4
<1>3. IsWellFoundedOn(R, Nat)
  BY NatLessThanWellFounded
<1>4. \A x, y \in Nat : y < x => <<y, x>> \in R
  BY DEF OpToRel
<1>5. P(k)
  <2> HIDE DEF P, R
  <2>1. SUFFICES ASSUME Bad # {} PROVE FALSE
    OBVIOUS
  <2>2. Bad \subseteq Nat
    OBVIOUS
  <2>3. PICK n \in Bad : \A m \in Bad : ~ (<<m, n>> \in R)
    <3> HIDE DEF Bad
    <3> QED BY <1>3, <2>1, <2>2, WFMin
  <2>4. n # 0
    BY <1>1
  <2>5. n - 1 \in Nat /\ n - 1 < n /\ (n - 1) + 1 = n
    BY <2>4
  <2>6. n - 1 \notin Bad
    BY <1>4, <2>2, <2>3, <2>5
  <2>7. P(n - 1)
    BY <2>5, <2>6
  <2>8. P((n - 1) + 1)
    BY <1>2, <2>5, <2>7
  <2> QED BY <2>5, <2>8
<1>6. S \cap (1..k) = S
  OBVIOUS
<1> QED BY <1>5, <1>6

\* What PendingMigrations computes.
LEMMA PendingIsSorted ==
    ASSUME LastMigration \in Nat, known \subseteq Migrations
    PROVE  /\ PendingMigrations \in Seq(Migrations)
           /\ ToSet(PendingMigrations) = known \ Executed(records)
           /\ IsAscending(PendingMigrations)
<1> DEFINE S == known \ Executed(records)
           n == Cardinality(S)
           Q(f) == f \in [1..n -> S] /\ S = ToSet(f)
                   /\ \A i, j \in DOMAIN f : i < j => f[i] < f[j]
<1>1. S \in SUBSET (1..LastMigration)
  BY DEF Migrations
<1>2. PendingMigrations = CHOOSE f \in [1..n -> S] :
          S = ToSet(f) /\ \A i, j \in DOMAIN f : i < j => f[i] < f[j]
  BY DEF PendingMigrations, Sorted
<1> HIDE DEF S
<1>3. n \in Nat /\ \E f : Lists(f, n, S)
  BY <1>1, ListExists, FS_CardinalityType
<1> HIDE DEF n
<1>4. \E f \in [1..n -> S] : S = ToSet(f) /\ \A i, j \in DOMAIN f : i < j => f[i] < f[j]
  BY <1>3 DEF Lists
<1>5. /\ PendingMigrations \in [1..n -> S] /\ S = ToSet(PendingMigrations)
      /\ IsAscending(PendingMigrations)
  BY <1>2, <1>4 DEF IsAscending
<1>6. PendingMigrations \in Seq(Migrations)
  BY <1>1, <1>3, <1>5 DEF Migrations
<1> QED BY <1>5, <1>6 DEF S

-----------------------------------------------------------------------------
(* What the server answers.                                                *)

\* A transaction of one frame, with the work ws.
Single(ws) == <<[mark |-> 0, work |-> ws]>>

LEMMA SingleIsFrames ==
    ASSUME NEW ws \in SUBSET Work
    PROVE  /\ Single(ws) \in Seq(Frames) /\ Single(ws) # <<>>
           /\ Len(Single(ws)) = 1 /\ DOMAIN Single(ws) = {1}
           /\ Single(ws)[1] = [mark |-> 0, work |-> ws]
BY DEF Single, Frames

\* The work of a session that has no savepoints.
LEMMA WorkOfShallow ==
    ASSUME NEW s
    PROVE  /\ s.frames = <<>> => WorkOf(s) = {}
           /\ \A ws \in SUBSET Work : s.frames = Single(ws) => WorkOf(s) = ws
<1>1. ASSUME s.frames = <<>> PROVE WorkOf(s) = {}
  BY <1>1 DEF WorkOf
<1>2. ASSUME NEW ws \in SUBSET Work, s.frames = Single(ws) PROVE WorkOf(s) = ws
  <2>1. WorkOf(s) = UNION {Single(ws)[i].work : i \in DOMAIN Single(ws)}
    BY <1>2 DEF WorkOf
  <2>2. DOMAIN Single(ws) = {1} /\ Single(ws)[1].work = ws
    <3>1. DOMAIN Single(ws) = {1} /\ Single(ws)[1] = [mark |-> 0, work |-> ws]
      BY SingleIsFrames, Zenon
    <3> QED BY <3>1
  <2>3. {Single(ws)[i].work : i \in DOMAIN Single(ws)} = {ws}
    BY <2>2
  <2> QED BY <2>1, <2>3
<1> QED BY <1>1, <1>2

\* The shape of a session: two cases.
LEMMA ShallowCases ==
    ASSUME NEW s, IsShallow(s)
    PROVE  /\ s \in Sessions
           /\ s.frames = <<>> \/ \E ws \in SUBSET Work : s.frames = Single(ws)
BY DEF IsShallow, Single

LEMMA ShallowOf ==
    ASSUME NEW s \in Sessions,
           s.frames = <<>> \/ \E ws \in SUBSET Work : s.frames = Single(ws)
    PROVE  IsShallow(s)
BY DEF IsShallow, Single

\* The sessions that statements leave behind.
LEMMA ShallowSessions ==
    /\ IsShallow(DeadSession) /\ IsShallow(FreshSession)
    /\ \A v \in Vendors : \A s : IsShallow(s) =>
         /\ IsShallow(Ended(v, s)) /\ Ended(v, s).frames = <<>>
         /\ Ended(v, s).alive = s.alive /\ ~Ended(v, s).failed
         /\ IsShallow(Refuse(v, s).session)
    /\ \A s : \A ws \in SUBSET Work : IsShallow(s) =>
         /\ IsShallow([s EXCEPT !.frames = Single(ws)])
         /\ [s EXCEPT !.frames = Single(ws)].frames = Single(ws)
<1>1. IsShallow(DeadSession) /\ IsShallow(FreshSession)
  BY DEF IsShallow, DeadSession, FreshSession, Sessions
<1>2. ASSUME NEW v \in Vendors, NEW s, IsShallow(s)
      PROVE  /\ IsShallow(Ended(v, s)) /\ Ended(v, s).frames = <<>>
             /\ Ended(v, s).alive = s.alive /\ ~Ended(v, s).failed
             /\ IsShallow(Refuse(v, s).session)
  <2>1. s \in Sessions
    BY <1>2 DEF IsShallow
  <2>2. /\ Ended(v, s) \in Sessions /\ Ended(v, s).frames = <<>>
        /\ Ended(v, s).alive = s.alive /\ ~Ended(v, s).failed
    <3> DEFINE t == Ended(v, s)
    <3>1. <<>> \in Seq(Frames) /\ (s.changed /\ v = "oracle") \in BOOLEAN
      OBVIOUS
    <3>2. t = [s EXCEPT !.frames = <<>>, !.failed = FALSE,
                        !.changed = s.changed /\ v = "oracle"]
      BY DEF Ended
    <3> HIDE DEF t
    <3>3. t \in Sessions
      BY <2>1, <3>1, <3>2 DEF Sessions
    <3>4. t.frames = <<>> /\ t.alive = s.alive /\ t.failed = FALSE
      BY <2>1, <3>2 DEF Sessions
    <3> QED BY <3>3, <3>4 DEF t
  <2>3. Refuse(v, s).session \in Sessions /\ Refuse(v, s).session.frames = s.frames
    BY <2>1 DEF Refuse, Reply, Sessions, InTransaction
  <2> QED BY <1>2, <2>2, <2>3, ShallowCases, ShallowOf
<1>3. ASSUME NEW s, NEW ws \in SUBSET Work, IsShallow(s)
      PROVE  /\ IsShallow([s EXCEPT !.frames = Single(ws)])
             /\ [s EXCEPT !.frames = Single(ws)].frames = Single(ws)
  <2> DEFINE t == [s EXCEPT !.frames = Single(ws)]
  <2>1. s \in Sessions
    BY <1>3 DEF IsShallow
  <2>2. Single(ws) \in Seq(Frames)
    BY SingleIsFrames
  <2>3. t \in Sessions /\ t.frames = Single(ws)
    BY <2>1, <2>2 DEF Sessions
  <2> QED BY <2>3, ShallowOf
<1> QED BY <1>1, <1>2, <1>3

\* The answers to a statement.
LEMMA AnswersOf ==
    ASSUME NEW q, ~q.released, NEW s, NEW t, NEW ws, NEW u, NEW vs,
           NEW a \in Query(q, s, Reply(TRUE, t, ws), Reply(FALSE, u, vs))
    PROVE  \/ a.ok = TRUE /\ a.session = t /\ a.durable = ws
           \/ ~a.ok /\ a.session = u /\ a.durable = vs
           \/ ~a.ok /\ a.session = DeadSession /\ a.durable \in {{}, ws}
           \/ ~a.ok /\ a.session = s /\ a.durable = {}
<1>1. \/ a = Reply(FALSE, s, {}) \/ a = Reply(TRUE, t, ws) \/ a = Fault(Reply(FALSE, u, vs))
      \/ a = Fault(Reply(FALSE, DeadSession, {}))
      \/ a = Fault(Reply(FALSE, DeadSession, Reply(TRUE, t, ws).durable))
  BY DEF Query, Replies
<1>2. Reply(TRUE, t, ws).durable = ws
  BY DEF Reply
<1> QED BY <1>1, <1>2 DEF Reply, Fault

\* One more unit of work in the only frame of a transaction.
LEMMA SingleExtended ==
    ASSUME NEW ws \in SUBSET Work, NEW w \in Work
    PROVE  /\ [Single(ws) EXCEPT ![Len(Single(ws))].work = @ \cup {w}] = Single(ws \cup {w})
           /\ <<Frame(0)>> = Single({})
<1>1. Len(Single(ws)) = 1
  BY SingleIsFrames
<1>2. [Single(ws) EXCEPT ![1].work = @ \cup {w}] = Single(ws \cup {w})
  BY DEF Single
<1>3. <<Frame(0)>> = Single({})
  BY DEF Frame, Single
<1> QED BY <1>1, <1>2, <1>3

\* With the reply r, w has become work of the transaction of s.
Adds(v, q, s, w, r) ==
    \E t : /\ r = Reply(TRUE, t, {})
           /\ IsShallow(t) /\ IsSound(v, q, t) /\ WorkOf(t) = WorkOf(s) \cup {w}

\* A statement in an open transaction: its work is added to the frame.
LEMMA DoInTransaction ==
    ASSUME NEW v \in Vendors, NEW q \in Runners, NEW s, IsShallow(s), IsSound(v, q, s),
           NEW w \in Work, q.active
    PROVE  Adds(v, q, s, w, Do(v, s, w, FALSE))
<1>1. PICK ws \in SUBSET Work :
        /\ FramesOf(s) = Single(ws)
        /\ WorkOf(s) = ws
  <2>1. CASE s.frames = <<>>
    <3>1. FramesOf(s) = Single({})
      BY <2>1, SingleExtended DEF FramesOf, InTransaction
    <3>2. WorkOf(s) = {}
      BY <2>1, WorkOfShallow
    <3> QED BY <3>1, <3>2
  <2>2. CASE s.frames # <<>>
    <3>1. PICK ws \in SUBSET Work : s.frames = Single(ws)
      BY <2>2, ShallowCases
    <3>2. FramesOf(s) = Single(ws)
      BY <2>2, <3>1 DEF FramesOf, InTransaction
    <3>3. WorkOf(s) = ws
      BY <3>1, WorkOfShallow
    <3> QED BY <3>2, <3>3
  <2> QED BY <2>1, <2>2
<1> DEFINE f == Single(ws \cup {w})
           t == [s EXCEPT !.frames = f]
<1>2. ws \cup {w} \in SUBSET Work
  OBVIOUS
<1>3. [FramesOf(s) EXCEPT ![Len(FramesOf(s))].work = @ \cup {w}] = f
  BY <1>1, SingleExtended
<1>4. ~s.failed /\ ~(v = "postgres" /\ ~InTransaction(s))
  BY DEF IsSound, InTransaction
<1>5. Do(v, s, w, FALSE) = Reply(TRUE, t, {})
  BY <1>3, <1>4 DEF Do
<1>6. IsShallow(t) /\ t.frames = f
  BY <1>2, ShallowSessions
<1>7. WorkOf(t) = ws \cup {w}
  BY <1>2, <1>6, WorkOfShallow
<1>8. t.alive = s.alive /\ t.failed = s.failed
  BY ShallowCases DEF Sessions
<1>9. f # <<>>
  BY <1>2, SingleIsFrames
<1>10. IsSound(v, q, t)
  <2> HIDE DEF t, f
  <2> QED BY <1>6, <1>8, <1>9 DEF IsSound
<1> QED BY <1>1, <1>5, <1>6, <1>7, <1>10 DEF Adds

\* A statement without a transaction: its work is durable at once.
LEMMA DoAlone ==
    ASSUME NEW v \in Vendors, NEW q \in Runners, NEW s, IsShallow(s), IsSound(v, q, s),
           NEW w \in Work, ~q.active
    PROVE  \E t : /\ Do(v, s, w, TRUE) = Reply(TRUE, t, {w})
                  /\ IsShallow(t) /\ IsSound(v, q, t) /\ WorkOf(t) = {}
<1>1. s.frames = <<>> /\ s.alive /\ ~s.failed
  BY DEF IsSound
<1>2. WorkOf(s) = {}
  BY <1>1, WorkOfShallow
<1>3. CASE v = "postgres"
  <2>1. Do(v, s, w, TRUE) = Reply(TRUE, s, {w})
    BY <1>1, <1>3 DEF Do, InTransaction
  <2> QED BY <1>2, <2>1
<1>4. CASE v = "oracle"
  <2>1. Do(v, s, w, TRUE) = Reply(TRUE, Ended(v, s), {} \cup {w})
    BY <1>1, <1>2, <1>4 DEF Do
  <2>2. {} \cup {w} = {w}
    OBVIOUS
  <2>3. IsShallow(Ended(v, s)) /\ Ended(v, s).frames = <<>>
        /\ Ended(v, s).alive = s.alive /\ ~Ended(v, s).failed
    BY ShallowSessions
  <2>4. IsSound(v, q, Ended(v, s))
    BY <1>1, <2>3 DEF IsSound
  <2>5. WorkOf(Ended(v, s)) = {}
    BY <2>3, WorkOfShallow
  <2> QED BY <2>1, <2>2, <2>3, <2>4, <2>5
<1> QED BY <1>3, <1>4 DEF Vendors

\* What Execute answers in a transaction, and what without one.
LEMMA ExecuteAnswers ==
    ASSUME NEW v \in Vendors, NEW q \in Runners, ~q.released, NEW s,
           IsShallow(s), IsSound(v, q, s), NEW w \in Work, NEW a \in Execute(v, q, s, w)
    PROVE  /\ IsShallow(a.session)
           /\ a.ok => IsSound(v, q, a.session)
           /\ q.active => /\ a.durable = {}
                          /\ a.ok => WorkOf(a.session) = WorkOf(s) \cup {w}
           /\ ~q.active => /\ IF a.ok THEN a.durable = {w} ELSE a.durable \in {{}, {w}}
                           /\ a.ok => WorkOf(a.session) = {}
<1>1. PICK u : /\ Refuse(v, s) = Reply(FALSE, u, {}) /\ u = Refuse(v, s).session
  BY DEF Refuse, Reply
<1>2. a \in Query(q, s, Do(v, s, w, ~q.active), Refuse(v, s))
  BY DEF Execute
<1>3. IsShallow(u) /\ IsShallow(DeadSession)
  BY <1>1, ShallowSessions
<1>4. CASE q.active
  <2>1. PICK t : /\ Do(v, s, w, FALSE) = Reply(TRUE, t, {})
                 /\ IsShallow(t) /\ IsSound(v, q, t)
                 /\ WorkOf(t) = WorkOf(s) \cup {w}
    <3>1. Adds(v, q, s, w, Do(v, s, w, FALSE))
      BY <1>4, DoInTransaction
    <3> QED BY <3>1 DEF Adds
  <2>2. a \in Query(q, s, Reply(TRUE, t, {}), Reply(FALSE, u, {}))
    BY <1>1, <1>2, <1>4, <2>1
  <2>3. \/ a.ok = TRUE /\ a.session = t /\ a.durable = {}
        \/ ~a.ok /\ a.session = u /\ a.durable = {}
        \/ ~a.ok /\ a.session = DeadSession /\ a.durable \in {{}, {}}
        \/ ~a.ok /\ a.session = s /\ a.durable = {}
    BY <2>2, AnswersOf
  <2> QED BY <1>3, <1>4, <2>1, <2>3
<1>5. CASE ~q.active
  <2>1. PICK t : /\ Do(v, s, w, TRUE) = Reply(TRUE, t, {w})
                 /\ IsShallow(t) /\ IsSound(v, q, t) /\ WorkOf(t) = {}
    BY <1>5, DoAlone
  <2>2. a \in Query(q, s, Reply(TRUE, t, {w}), Reply(FALSE, u, {}))
    BY <1>1, <1>2, <1>5, <2>1
  <2>3. \/ a.ok = TRUE /\ a.session = t /\ a.durable = {w}
        \/ ~a.ok /\ a.session = u /\ a.durable = {}
        \/ ~a.ok /\ a.session = DeadSession /\ a.durable \in {{}, {w}}
        \/ ~a.ok /\ a.session = s /\ a.durable = {}
    BY <2>2, AnswersOf
  <2> QED BY <1>3, <1>5, <2>1, <2>3
<1> QED BY <1>4, <1>5

\* What the statement of up or down w answers: work of the transaction of
\* PostgreSQL, or durable together with all that was open.
LEMMA ChangeSchemaAnswers ==
    ASSUME vendor \in Vendors, runner \in Runners, ~runner.released, IsShallow(session),
           IsSound(vendor, runner, session), NEW w \in Work, NEW a \in ChangeSchema(w)
    PROVE  /\ IsShallow(a.session)
           /\ a.ok => IsSound(vendor, runner, a.session)
           /\ vendor = "postgres" /\ runner.active =>
                /\ a.durable = {}
                /\ a.ok => WorkOf(a.session) = WorkOf(session) \cup {w}
           /\ ~(vendor = "postgres" /\ runner.active) =>
                /\ a.durable \in {{}, WorkOf(session), WorkOf(session) \cup {w}}
                /\ a.ok => a.durable = WorkOf(session) \cup {w} /\ WorkOf(a.session) = {}
<1>1. CASE vendor = "postgres" /\ runner.active
  <2>1. InTransaction(session)
    BY <1>1 DEF IsSound, InTransaction
  <2>2. a \in Execute(vendor, runner, session, w)
    BY <1>1, <2>1 DEF ChangeSchema
  <2> QED BY <1>1, <2>2, ExecuteAnswers
<1>2. CASE ~(vendor = "postgres" /\ runner.active)
  <2> DEFINE t == Ended(vendor, session)
             ws == WorkOf(session)
  <2>1. ~(vendor = "postgres" /\ InTransaction(session))
    BY <1>2 DEF IsSound, InTransaction
  <2>2. PICK done \in {{}, {w}} :
          a \in Query(runner, session, Reply(TRUE, t, ws \cup {w}), Reply(FALSE, t, ws \cup done))
    BY <2>1 DEF ChangeSchema
  <2>3. IsShallow(t) /\ t.frames = <<>> /\ t.alive = session.alive /\ ~t.failed
    BY ShallowSessions
  <2>4. WorkOf(t) = {}
    BY <2>3, WorkOfShallow
  <2>5. IsSound(vendor, runner, t)
    BY <1>2, <2>3 DEF IsSound
  <2> HIDE DEF t, ws
  <2>6. \/ a.ok = TRUE /\ a.session = t /\ a.durable = ws \cup {w}
        \/ ~a.ok /\ a.session = t /\ a.durable = ws \cup done
        \/ ~a.ok /\ a.session = DeadSession /\ a.durable \in {{}, ws \cup {w}}
        \/ ~a.ok /\ a.session = session /\ a.durable = {}
    BY <2>2, AnswersOf
  <2>7. ws \cup done \in {ws, ws \cup {w}}
    <3>1. done = {} \/ done = {w}
      BY <2>2
    <3>2. ws \cup {} = ws
      OBVIOUS
    <3> QED BY <3>1, <3>2
  <2>8. IsShallow(DeadSession)
    BY ShallowSessions
  <2>9. /\ IsShallow(a.session)
        /\ a.ok => IsSound(vendor, runner, a.session)
        /\ a.ok => WorkOf(a.session) = {}
    BY <2>3, <2>4, <2>5, <2>6, <2>8
  <2>10. /\ a.durable \in {{}, ws, ws \cup {w}}
         /\ a.ok => a.durable = ws \cup {w}
    BY <2>6, <2>7
  <2> QED BY <1>2, <2>9, <2>10 DEF ws
<1> QED BY <1>1, <1>2

\* The outcomes of a method that sends a statement, by its reply.
LEMMA OutcomesOf ==
    ASSUME NEW rs, NEW failed, NEW done, NEW o \in Outcomes(rs, failed, done),
           o.cause # "after"
    PROVE  \E r \in rs : /\ o.session = r.session /\ o.durable = r.durable
                         /\ \/ r.ok /\ o.ok /\ o.runner = done
                            \/ ~r.ok /\ ~o.ok /\ o.runner = failed
<1>1. CASE \E r \in rs : ~r.ok /\ o = Outcome(FALSE, failed, r, r.cause)
  BY <1>1 DEF Outcome
<1>2. CASE \E r \in rs : r.ok /\ o = Outcome(TRUE, done, r, r.cause)
  BY <1>2 DEF Outcome
<1>3. CASE \E r \in rs : o = Outcome(FALSE, done, r, "after")
  BY <1>3 DEF Outcome
<1> QED BY <1>1, <1>2, <1>3 DEF Outcomes

\* START TRANSACTION by a runner that has none.
LEMMA StartAnswers ==
    ASSUME NEW v \in Vendors, NEW q \in Runners, ~q.released, ~q.active,
           NEW s, IsShallow(s), IsSound(v, q, s),
           NEW o \in Undisturbed(StartTransaction(v, q, s))
    PROVE  /\ IsShallow(o.session) /\ o.durable = {}
           /\ o.runner \in Runners /\ ~o.runner.released /\ o.runner.depth \in {0, 1}
           /\ o.ok => /\ IsSound(v, o.runner, o.session) /\ o.runner.active
                      /\ WorkOf(o.session) = {}
<1> DEFINE begun == [q EXCEPT !.active = TRUE]
           done == [begun EXCEPT !.depth = q.depth + 1]
           t == [s EXCEPT !.frames = Single({})]
           sent == Query(q, s, Begin(v, s), Refuse(v, s))
<1>1. s.frames = <<>> /\ s.alive /\ ~s.failed /\ q.depth = 0
  BY DEF IsSound
<1>2. Begin(v, s) = Reply(TRUE, t, {})
  <2>1. <<Frame(0)>> = Single({})
    BY DEF Frame, Single
  <2> QED BY <1>1, <2>1 DEF Begin, InTransaction
<1>3. Refuse(v, s) = Reply(FALSE, Refuse(v, s).session, {})
  BY DEF Refuse, Reply
<1>4. IsShallow(t) /\ t.frames = Single({})
  BY ShallowSessions
<1>5. t.alive /\ ~t.failed
  <2>1. t.alive = s.alive /\ t.failed = s.failed
    BY ShallowCases DEF Sessions
  <2> QED BY <1>1, <2>1
<1>6. WorkOf(t) = {}
  <2>1. {} \in SUBSET Work
    OBVIOUS
  <2> HIDE DEF t
  <2> QED BY <1>4, <2>1, WorkOfShallow
<1>7. Single({}) # <<>>
  BY SingleIsFrames
<1>8. \A r \in sent :
        /\ IsShallow(r.session) /\ r.durable = {}
        /\ r.ok => r.session = t
  <2>1. TAKE r \in sent
  <2>2. r \in Query(q, s, Reply(TRUE, t, {}), Reply(FALSE, Refuse(v, s).session, {}))
    BY <1>2, <1>3
  <2> HIDE DEF t, sent
  <2>3. \/ r.ok = TRUE /\ r.session = t /\ r.durable = {}
        \/ ~r.ok /\ r.session = Refuse(v, s).session /\ r.durable = {}
        \/ ~r.ok /\ r.session = DeadSession /\ r.durable \in {{}, {}}
        \/ ~r.ok /\ r.session = s /\ r.durable = {}
    BY <2>2, AnswersOf
  <2>4. IsShallow(DeadSession) /\ IsShallow(Refuse(v, s).session)
    BY ShallowSessions
  <2> QED BY <1>4, <2>3, <2>4
<1>9. /\ begun \in Runners /\ ~begun.released /\ begun.depth = 0
      /\ done \in Runners /\ ~done.released /\ done.depth = 1 /\ done.active
  <2>1. begun \in Runners /\ ~begun.released /\ begun.depth = 0 /\ begun.active
    BY <1>1 DEF Runners
  <2>2. q.depth + 1 = 1
    BY <1>1
  <2> HIDE DEF begun
  <2>3. done = [begun EXCEPT !.depth = 1]
    BY <2>2
  <2> HIDE DEF done
  <2>4. done \in Runners
    BY <2>1, <2>3 DEF Runners
  <2>5. done.released = begun.released /\ done.depth = 1 /\ done.active = begun.active
    BY <2>1, <2>3 DEF Runners
  <2> QED BY <2>1, <2>4, <2>5
<1>10. o.cause \notin {"before", "after"}
  BY DEF Undisturbed
<1>11. \/ o \in Outcomes(sent, begun, done)
       \/ \E r \in sent : r.ok /\ o = Outcome(FALSE, begun, Fault(Refuse(v, r.session)), "database")
  <2>1. Thrown([q EXCEPT !.active = FALSE], s, "before").cause = "before"
    BY DEF Thrown, Outcome
  <2>2. o \in StartTransaction(v, q, s)
    BY DEF Undisturbed
  <2>3. \/ o = Thrown([q EXCEPT !.active = FALSE], s, "before")
        \/ o \in Outcomes(sent, begun, done)
        \/ \E r \in sent : r.ok /\ o = Outcome(FALSE, begun, Fault(Refuse(v, r.session)), "database")
    BY <1>1, <2>2 DEF StartTransaction
  <2> QED BY <1>10, <2>1, <2>3
<1> HIDE DEF begun, done, t, sent
<1>12. CASE o \in Outcomes(sent, begun, done)
  <2>1. PICK r \in sent : /\ o.session = r.session /\ o.durable = r.durable
                          /\ \/ r.ok /\ o.ok /\ o.runner = done
                             \/ ~r.ok /\ ~o.ok /\ o.runner = begun
    BY <1>10, <1>12, OutcomesOf
  <2>2. IsShallow(o.session) /\ o.durable = {}
    BY <1>8, <2>1
  <2>3. o.ok => o.session = t /\ o.runner = done
    BY <1>8, <2>1
  <2>4. IsSound(v, done, t)
    BY <1>4, <1>5, <1>7, <1>9 DEF IsSound
  <2>5. o.runner \in {begun, done}
    BY <2>1
  <2> QED BY <1>6, <1>9, <2>2, <2>3, <2>4, <2>5
<1>13. CASE \E r \in sent : r.ok /\ o = Outcome(FALSE, begun, Fault(Refuse(v, r.session)), "database")
  <2>1. PICK r \in sent : r.ok /\ o = Outcome(FALSE, begun, Fault(Refuse(v, r.session)), "database")
    BY <1>13
  <2>2. IsShallow(Refuse(v, r.session).session)
    BY <1>8, ShallowSessions
  <2>3. /\ Fault(Refuse(v, r.session)).session = Refuse(v, r.session).session
        /\ Fault(Refuse(v, r.session)).durable = {}
    BY DEF Refuse, Reply, Fault
  <2>4. /\ ~o.ok /\ o.runner = begun
        /\ o.session = Fault(Refuse(v, r.session)).session
        /\ o.durable = Fault(Refuse(v, r.session)).durable
    BY <2>1 DEF Outcome
  <2> QED BY <1>9, <2>2, <2>3, <2>4
<1> QED BY <1>11, <1>12, <1>13

\* The runner after the end of its transaction.
LEMMA RunnerEnded ==
    ASSUME NEW q \in Runners, ~q.released, NEW d \in Int
    PROVE  LET outer == [q EXCEPT !.depth = d, !.active = FALSE]
           IN  outer \in Runners /\ ~outer.released /\ outer.depth = d /\ ~outer.active
<1> DEFINE outer == [q EXCEPT !.depth = d, !.active = FALSE]
<1>1. outer \in Runners
  BY DEF Runners
<1>2. outer.released = q.released
  BY DEF Runners
<1>3. outer.depth = d /\ outer.active = FALSE
  BY DEF Runners
<1> HIDE DEF outer
<1>4. outer \in Runners /\ ~outer.released /\ outer.depth = d /\ ~outer.active
  BY <1>1, <1>2, <1>3
<1> QED BY <1>4 DEF outer

\* The answers to COMMIT and ROLLBACK.
LEMMA EndAnswers ==
    ASSUME NEW q, ~q.released, NEW s, IsShallow(s), NEW t, IsShallow(t), NEW ws,
           NEW a \in Query(q, s, Reply(TRUE, t, ws), Reply(FALSE, t, {}))
    PROVE  /\ IsShallow(a.session)
           /\ a.ok => a.session = t
           /\ IF a.ok THEN a.durable = ws ELSE a.durable \in {{}, ws}
<1>1. \/ a.ok = TRUE /\ a.session = t /\ a.durable = ws
      \/ ~a.ok /\ a.session = t /\ a.durable = {}
      \/ ~a.ok /\ a.session = DeadSession /\ a.durable \in {{}, ws}
      \/ ~a.ok /\ a.session = s /\ a.durable = {}
  BY AnswersOf
<1>2. IsShallow(DeadSession)
  BY ShallowSessions
<1> QED BY <1>1, <1>2

\* COMMIT of a runner whose transaction does not nest.
LEMMA CommitAnswers ==
    ASSUME NEW v \in Vendors, NEW q \in Runners, ~q.released, q.active,
           NEW s, IsShallow(s), IsSound(v, q, s),
           NEW o \in Undisturbed(CommitTransaction(v, q, s))
    PROVE  /\ IsShallow(o.session)
           /\ o.runner \in Runners /\ ~o.runner.released /\ o.runner.depth \in {0, 1}
           /\ IF o.ok THEN o.durable = WorkOf(s) ELSE o.durable \in {{}, WorkOf(s)}
           /\ o.ok => /\ IsSound(v, o.runner, o.session) /\ ~o.runner.active
                      /\ WorkOf(o.session) = {}
<1> DEFINE outer == [q EXCEPT !.depth = q.depth - 1, !.active = FALSE]
           t == Ended(v, s)
           ws == WorkOf(s)
           sent == Query(q, s, Commit(v, s), RefusedCommit(v, s))
<1>1. s.alive /\ ~s.failed /\ q.depth = 1
  BY DEF IsSound
<1>2. Commit(v, s) = Reply(TRUE, t, ws) /\ RefusedCommit(v, s) = Reply(FALSE, t, {})
  BY <1>1 DEF Commit, RefusedCommit
<1>3. IsShallow(t) /\ t.frames = <<>> /\ t.alive /\ ~t.failed
  BY <1>1, ShallowSessions
<1>4. WorkOf(t) = {}
  BY <1>3, WorkOfShallow
<1>5. outer \in Runners /\ ~outer.released /\ outer.depth = 0 /\ ~outer.active
  <2>1. outer = [q EXCEPT !.depth = 0, !.active = FALSE]
    BY <1>1
  <2> DEFINE e == [q EXCEPT !.depth = 0, !.active = FALSE]
  <2>2. 0 \in Int
    OBVIOUS
  <2>3. e \in Runners /\ ~e.released /\ e.depth = 0 /\ ~e.active
    BY <2>2, RunnerEnded
  <2> HIDE DEF e, outer
  <2>4. outer = e
    BY <2>1 DEF e
  <2> QED BY <2>3, <2>4
<1>6. o \in CommitTransaction(v, q, s) /\ o.cause \notin {"before", "after"}
  BY DEF Undisturbed
<1>7. Thrown(q, s, "before").cause = "before"
  BY DEF Thrown, Outcome
<1>8. o \in Outcomes(sent, q, outer)
  BY <1>1, <1>6, <1>7 DEF CommitTransaction
<1> HIDE DEF outer, t, ws, sent
<1>9. PICK r \in sent : /\ o.session = r.session /\ o.durable = r.durable
                        /\ \/ r.ok /\ o.ok /\ o.runner = outer
                           \/ ~r.ok /\ ~o.ok /\ o.runner = q
  BY <1>6, <1>8, OutcomesOf
<1>10. r \in Query(q, s, Reply(TRUE, t, ws), Reply(FALSE, t, {}))
  BY <1>2, <1>9 DEF sent
<1>11. /\ IsShallow(r.session)
       /\ r.ok => r.session = t
       /\ IF r.ok THEN r.durable = ws ELSE r.durable \in {{}, ws}
  BY <1>3, <1>10, EndAnswers
<1>12. IsShallow(o.session) /\ (IF o.ok THEN o.durable = ws ELSE o.durable \in {{}, ws})
  BY <1>9, <1>11
<1>13. /\ o.runner \in {q, outer}
       /\ o.ok => o.runner = outer /\ o.session = t
  BY <1>9, <1>11
<1>14. IsSound(v, outer, t)
  BY <1>3, <1>5 DEF IsSound
<1> QED BY <1>1, <1>4, <1>5, <1>12, <1>13, <1>14 DEF ws

LEMMA LateReply ==
    ASSUME NEW s
    PROVE  AnsweredLate(Reply(TRUE, s, {})) = Reply(FALSE, s, {})
<1> DEFINE r == AnsweredLate(Reply(TRUE, s, {}))
<1>1. r = [i \in {"ok", "session", "durable", "cause"} |-> r[i]]
  BY DEF AnsweredLate, Reply
<1>2. r.ok = FALSE /\ r.session = s /\ r.durable = {} /\ r.cause = "none"
  BY DEF AnsweredLate, Reply
<1> HIDE DEF r
<1>3. r = [ok |-> FALSE, session |-> s, durable |-> {}, cause |-> "none"]
  BY <1>1, <1>2
<1> QED BY <1>3 DEF r, Reply

\* The rollback of the catch block makes nothing durable.
LEMMA RollbackAnswers ==
    ASSUME NEW v \in Vendors, NEW q \in Runners, ~q.released, q.depth \in {0, 1},
           NEW s, IsShallow(s), NEW o \in Undisturbed(RollbackTransaction(v, q, s))
    PROVE  IsShallow(o.session) /\ o.durable = {} /\ o.runner \in Runners /\ ~o.runner.released
<1> DEFINE outer == [q EXCEPT !.depth = q.depth - 1, !.active = FALSE]
           t == Ended(v, s)
           sent == Query(q, s, Reply(TRUE, t, {}), Reply(FALSE, t, {}))
<1>1. o \in RollbackTransaction(v, q, s) /\ o.cause \notin {"before", "after"}
  BY DEF Undisturbed
<1>2. Thrown(q, s, "before").cause = "before"
  BY DEF Thrown, Outcome
<1>3. ~(q.depth > 1)
  OBVIOUS
<1>4. Rollback(v, s) = Reply(TRUE, t, {})
  BY DEF Rollback
<1>5. AnsweredLate(Rollback(v, s)) = Reply(FALSE, t, {})
  <2>1. AnsweredLate(Reply(TRUE, t, {})) = Reply(FALSE, t, {})
    BY LateReply
  <2> QED BY <1>4, <2>1
<1>6. outer \in Runners /\ ~outer.released
  <2>1. q.depth - 1 \in Int
    OBVIOUS
  <2> QED BY <2>1, RunnerEnded
<1>7. IsShallow(t)
  BY ShallowSessions
<1>8. CASE ~q.active
  <2>1. o = Thrown(q, s, "none")
    BY <1>1, <1>8 DEF RollbackTransaction
  <2>2. o.session = s /\ o.durable = {} /\ o.runner = q
    BY <2>1 DEF Thrown, Outcome, Reply
  <2> QED BY <2>2
<1>9. CASE q.active
  <2>1. o \in Outcomes(sent, q, outer)
    BY <1>1, <1>2, <1>3, <1>4, <1>5, <1>9 DEF RollbackTransaction
  <2> HIDE DEF outer, t, sent
  <2>2. PICK r \in sent : /\ o.session = r.session /\ o.durable = r.durable
                          /\ \/ r.ok /\ o.ok /\ o.runner = outer
                             \/ ~r.ok /\ ~o.ok /\ o.runner = q
    BY <1>1, <2>1, OutcomesOf
  <2>3. r \in Query(q, s, Reply(TRUE, t, {}), Reply(FALSE, t, {}))
    BY <2>2 DEF sent
  <2>4. IsShallow(r.session) /\ r.durable = {}
    <3>1. IsShallow(r.session) /\ (IF r.ok THEN r.durable = {} ELSE r.durable \in {{}, {}})
      BY <1>7, <2>3, EndAnswers
    <3> QED BY <3>1
  <2> QED BY <1>6, <2>2, <2>4
<1> QED BY <1>8, <1>9

-----------------------------------------------------------------------------
(* What becomes durable.                                                   *)

\* Nothing does.
LEMMA NothingDurable ==
    ASSUME Durable({})
    PROVE  schema' = schema /\ records' = records
<1>1. \A way : Concerned(way, {}) = {}
  BY DEF Concerned
<1>2. schema' = schema
  BY <1>1 DEF Durable
<1>3. records' = {r \in records \cup {NewRow(i) : i \in {j \in DOMAIN pending :
                                             <<"record", pending[j]>> \in {}}} :
                    r.migration \notin {}}
  BY <1>1 DEF Durable
<1> QED BY <1>2, <1>3

\* The work of up and of insertExecutedMigration does.
LEMMA DoneDurable ==
    ASSUME NEW ws, ws \subseteq {"up", "record"} \X Migrations, Durable(ws)
    PROVE  /\ schema' = schema \cup Concerned("up", ws)
           /\ records' = records \cup RowsOf(base, pending, Inserted(ws))
<1>1. Concerned("down", ws) = {} /\ Concerned("erase", ws) = {}
  BY DEF Concerned
<1>2. schema' = schema \cup Concerned("up", ws)
  BY <1>1 DEF Durable
<1>3. records' = records \cup {NewRow(i) : i \in Inserted(ws)}
  BY <1>1 DEF Durable, Inserted
<1>4. {NewRow(i) : i \in Inserted(ws)} = RowsOf(base, pending, Inserted(ws))
  BY DEF NewRow, RowsOf
<1> QED BY <1>2, <1>3, <1>4

\* The work of down and of deleteExecutedMigration does.
LEMMA UndoneDurable ==
    ASSUME NEW m, NEW ws, ws \subseteq {"down", "erase"} \X {m}, m \in Migrations, Durable(ws)
    PROVE  /\ schema' = IF <<"down", m>> \in ws THEN schema \ {m} ELSE schema
           /\ records' = IF <<"erase", m>> \in ws
                         THEN {r \in records : r.migration # m} ELSE records
<1>1. Concerned("up", ws) = {} /\ Inserted(ws) = {}
  BY DEF Concerned, Inserted
<1>2. Concerned("down", ws) = IF <<"down", m>> \in ws THEN {m} ELSE {}
  BY DEF Concerned
<1>3. Concerned("erase", ws) = IF <<"erase", m>> \in ws THEN {m} ELSE {}
  BY DEF Concerned
<1>4. schema' = (schema \cup {}) \ Concerned("down", ws)
  BY <1>1 DEF Durable
<1>5. records' = {r \in records \cup {NewRow(i) : i \in {}} : r.migration \notin Concerned("erase", ws)}
  BY <1>1 DEF Durable, Inserted
<1> QED BY <1>2, <1>3, <1>4, <1>5

-----------------------------------------------------------------------------
(* What a step does to the rows and the schema.                            *)

\* The migrations whose row is work of ws, in terms of pending.
LEMMA PendingIs ==
    ASSUME TypeOK, PendingFacts, pending # <<>>, task = "run"
    PROVE  /\ pending \in Seq(Migrations) /\ DOMAIN pending = 1..Len(pending)
           /\ Len(pending) \in Nat
           /\ \A i \in DOMAIN pending : pending[i] \in Migrations
           /\ IsAscending(pending) /\ ToSet(pending) \cap Executed(base) = {}
           /\ \A i, j \in DOMAIN pending : pending[i] = pending[j] => i = j
<1>1. /\ pending \in Seq(Migrations) /\ DOMAIN pending = 1..Len(pending)
      /\ Len(pending) \in Nat
      /\ \A i \in DOMAIN pending : pending[i] \in Migrations
  BY DEF TypeOK
<1>2. IsAscending(pending)
  BY DEF PendingFacts, IsAscending
<1>3. ToSet(pending) \cap Executed(base) = {}
  BY DEF PendingFacts
<1>4. \A i, j \in DOMAIN pending : pending[i] = pending[j] => i = j
  BY <1>1, <1>2 DEF IsAscending, Migrations
<1> QED BY <1>1, <1>2, <1>3, <1>4

\* The rows of a table whose migrations are not m are all but that of m.
LEMMA RowOfTable ==
    ASSUME NEW rs, IsTable(rs), NEW row \in rs
    PROVE  {r \in rs : r.migration # row.migration} = rs \ {row}
BY DEF IsTable

\* Nothing becomes durable: what held of the database holds.
LEMMA DataKept ==
    ASSUME DataFacts, UNCHANGED <<known, task, base, pending, schema, records>>,
           loose \subseteq loose', doubtful \subseteq doubtful'
    PROVE  DataFacts' /\ Added' = Added
<1>1. IsTable(base)' /\ IsTable(records)'
  BY DEF DataFacts
<1>2. PendingFacts'
  BY DEF DataFacts, PendingFacts, Executed, LastRow
<1>3. Added' = Added
  BY DEF Added, NewRow
<1>4. RecordFacts'
  BY <1>3 DEF DataFacts, RecordFacts, RowsOf, LastRow, HighestId
<1>5. InStep'
  BY DEF DataFacts, InStep, Executed
<1> QED BY <1>1, <1>2, <1>3, <1>4, <1>5 DEF DataFacts

\* Work of up and of insertExecutedMigration becomes durable.
LEMMA DataDone ==
    ASSUME TypeOK, DataFacts, task = "run", pending # <<>>,
           UNCHANGED <<known, task, base, pending>>,
           loose \subseteq loose', doubtful \subseteq doubtful',
           NEW ws, ws \subseteq {"up", "record"} \X ToSet(pending), Durable(ws),
           \A m \in Migrations \ loose' : <<"up", m>> \in ws <=> <<"record", m>> \in ws,
           \A m \in Migrations \ doubtful' :
              <<"record", m>> \in ws => m \in schema \/ <<"up", m>> \in ws,
           \A i \in Added \cup Inserted(ws), j \in DOMAIN pending :
              j < i => j \in Added \cup Inserted(ws)
    PROVE  /\ DataFacts'
           /\ Added' = Added \cup Inserted(ws)
           /\ schema' = schema \cup Concerned("up", ws) /\ schema' \subseteq Migrations
           /\ records \subseteq records'
<1> DEFINE A == Added \cup Inserted(ws)
<1>1. /\ pending \in Seq(Migrations) /\ IsAscending(pending)
      /\ ToSet(pending) \cap Executed(base) = {}
      /\ \A i \in DOMAIN pending : pending[i] \in Migrations
  BY PendingIs DEF DataFacts
<1>2. IsTable(base) /\ records = base \cup RowsOf(base, pending, Added)
  BY DEF DataFacts, RecordFacts
<1>3. A \subseteq DOMAIN pending /\ Added \subseteq DOMAIN pending
      /\ Inserted(ws) \subseteq DOMAIN pending
  BY DEF Added, Inserted
<1>4. ws \subseteq {"up", "record"} \X Migrations
  BY <1>1 DEF ToSet
<1>5. /\ schema' = schema \cup Concerned("up", ws)
      /\ records' = records \cup RowsOf(base, pending, Inserted(ws))
  BY <1>4, DoneDurable
<1>6. records' = base \cup RowsOf(base, pending, A)
  BY <1>2, <1>5 DEF RowsOf
<1> HIDE DEF A
<1>a. ASSUME NEW B \in SUBSET DOMAIN pending
      PROVE  /\ IsTable(base \cup RowsOf(base, pending, B))
             /\ Executed(base \cup RowsOf(base, pending, B))
                  = Executed(base) \cup {pending[i] : i \in B}
             /\ \A i \in DOMAIN pending :
                  [id |-> HighestId(base) + i, migration |-> pending[i]]
                    \in base \cup RowsOf(base, pending, B) <=> i \in B
  BY <1>1, <1>2, RowsAdded
<1>7. /\ IsTable(base \cup RowsOf(base, pending, A))
      /\ Executed(base \cup RowsOf(base, pending, A)) = Executed(base) \cup {pending[i] : i \in A}
      /\ \A i \in DOMAIN pending :
           [id |-> HighestId(base) + i, migration |-> pending[i]]
             \in base \cup RowsOf(base, pending, A) <=> i \in A
  BY <1>3, <1>a
<1>8. Executed(base \cup RowsOf(base, pending, Added))
        = Executed(base) \cup {pending[i] : i \in Added}
  BY <1>3, <1>a
<1>9. Added' = A
  <2>1. Added' = {i \in DOMAIN pending :
                    [id |-> HighestId(base) + i, migration |-> pending[i]] \in records'}
    BY DEF Added, NewRow
  <2> QED BY <1>3, <1>6, <1>7, <2>1
<1>10. Executed(records') = Executed(records) \cup {pending[i] : i \in Inserted(ws)}
  <2>1. {pending[i] : i \in A} = {pending[i] : i \in Added} \cup {pending[i] : i \in Inserted(ws)}
    BY DEF A
  <2>2. Executed(records') = Executed(base) \cup {pending[i] : i \in A}
    BY <1>6, <1>7
  <2>3. Executed(records) = Executed(base) \cup {pending[i] : i \in Added}
    BY <1>2, <1>8
  <2> QED BY <2>1, <2>2, <2>3
<1>11. \A m \in Migrations :
         m \in Executed(records') <=> m \in Executed(records) \/ <<"record", m>> \in ws
  <2>1. \A m : <<"record", m>> \in ws => \E i \in DOMAIN pending : m = pending[i]
    BY DEF ToSet
  <2>2. \A m : <<"record", m>> \in ws <=> m \in {pending[i] : i \in Inserted(ws)}
    BY <2>1 DEF Inserted
  <2> QED BY <1>10, <2>2
<1>12. \A m \in Migrations : m \in schema' <=> m \in schema \/ <<"up", m>> \in ws
  BY <1>5 DEF Concerned
<1>13. InStep'
  <2>1. \A m \in Migrations :
          /\ m \notin loose => (m \in schema <=> m \in Executed(records))
          /\ m \notin doubtful /\ m \in Executed(records) => m \in schema
    BY DEF DataFacts, InStep
  <2>2. \A m \in Migrations :
          /\ m \notin loose' => (m \in schema' <=> m \in Executed(records'))
          /\ m \notin doubtful' /\ m \in Executed(records') => m \in schema'
    BY <1>11, <1>12, <2>1
  <2>3. Executed(records)' = Executed(records')
    BY DEF Executed
  <2> QED BY <2>2, <2>3 DEF InStep
<1>14. RecordFacts'
  <2>1. records' = base' \cup RowsOf(base', pending', Added')
    BY <1>6, <1>9
  <2>2. \A i \in Added', j \in DOMAIN pending' : j < i => j \in Added'
    BY <1>9 DEF A
  <2>3. RowsOf(base, pending, Added)' = RowsOf(base', pending', Added')
    BY DEF RowsOf, HighestId
  <2> QED BY <2>1, <2>2, <2>3 DEF RecordFacts
<1>15. PendingFacts'
  BY DEF DataFacts, PendingFacts, Executed
<1>16. IsTable(base)' /\ IsTable(records)'
  <2>1. IsTable(records')
    BY <1>6, <1>7
  <2> QED BY <1>2, <2>1 DEF IsTable
<1>17. schema' \subseteq Migrations
  <2>1. schema \subseteq Migrations
    BY DEF TypeOK
  <2> QED BY <1>5, <2>1 DEF Concerned
<1> QED BY <1>5, <1>9, <1>13, <1>14, <1>15, <1>16, <1>17 DEF DataFacts, A

\* Work of down and of deleteExecutedMigration becomes durable.
LEMMA DataUndone ==
    ASSUME DataFacts, task = "undo", pending # <<>>, records = base,
           UNCHANGED <<known, task, base, pending>>,
           loose \subseteq loose', doubtful \subseteq doubtful',
           NEW m \in Migrations, pending = <<m>>,
           NEW ws, ws \subseteq {"down", "erase"} \X {m}, Durable(ws),
           m \in doubtful' \/ (<<"down", m>> \in ws <=> <<"erase", m>> \in ws),
           doubtful' \subseteq loose'
    PROVE  /\ DataFacts'
           /\ records' = IF <<"erase", m>> \in ws THEN base \ {LastRow(base)} ELSE base
           /\ schema' \subseteq schema
           /\ LastRow(base) \in base /\ \A q \in base : q.id <= LastRow(base).id
<1> DEFINE last == LastRow(base)
<1>1. base # {} /\ pending = <<last.migration>>
  BY DEF DataFacts, PendingFacts
<1>2. last.migration = m
  <2>1. pending[1] = m /\ pending[1] = last.migration
    BY <1>1
  <2> QED BY <2>1
<1>3. IsTable(base) /\ last \in base /\ \A q \in base : q.id <= last.id
  BY <1>1, LastRowOfTable DEF DataFacts
<1> HIDE DEF last
<1>4. {r \in base : r.migration # m} = base \ {last}
  BY <1>2, <1>3, RowOfTable
<1>5. /\ schema' = IF <<"down", m>> \in ws THEN schema \ {m} ELSE schema
      /\ records' = IF <<"erase", m>> \in ws
                    THEN {r \in records : r.migration # m} ELSE records
  BY UndoneDurable
<1>6. records' = IF <<"erase", m>> \in ws THEN base \ {last} ELSE base
  BY <1>4, <1>5
<1>7. IsTable(base)' /\ IsTable(records)'
  <2>1. IsTable(base \ {last})
    BY <1>3, PartOfTable
  <2>2. IsTable(records')
    BY <1>3, <1>6, <2>1
  <2> QED BY <1>3, <2>2 DEF IsTable
<1>8. PendingFacts'
  BY DEF DataFacts, PendingFacts, Executed, LastRow
<1>9. RecordFacts'
  <2>1. records' \in {base, base \ {LastRow(base)}}
    BY <1>6 DEF last
  <2>2. LastRow(base)' = LastRow(base)
    BY DEF LastRow
  <2> QED BY <2>1, <2>2 DEF RecordFacts
<1>10. \A n \in Migrations \ {m} : n \in Executed(records') <=> n \in Executed(records)
  <2>1. \A n : n \in Executed(base \ {last}) => n \in Executed(base)
    BY DEF Executed
  <2>2. \A n : n # m /\ n \in Executed(base) => n \in Executed(base \ {last})
    BY <1>2 DEF Executed
  <2> QED BY <1>6, <2>1, <2>2
<1>11. <<"erase", m>> \in ws => m \notin Executed(records')
  BY <1>4, <1>6 DEF Executed
<1>12. InStep'
  <2>1. \A n \in Migrations :
          /\ n \notin loose => (n \in schema <=> n \in Executed(records))
          /\ n \notin doubtful /\ n \in Executed(records) => n \in schema
    BY DEF DataFacts, InStep
  <2>2. \A n \in Migrations \ {m} : n \in schema' <=> n \in schema
    BY <1>5
  <2>3. \A n \in Migrations \ {m} :
          /\ n \notin loose' => (n \in schema' <=> n \in Executed(records'))
          /\ n \notin doubtful' /\ n \in Executed(records') => n \in schema'
    BY <1>10, <2>1, <2>2
  <2>4. CASE <<"erase", m>> \in ws
    <3>1. m \notin doubtful' => m \notin schema'
      BY <1>5, <2>4
    <3>2. m \notin Executed(records')
      BY <1>11, <2>4
    <3>3. /\ m \notin loose' => (m \in schema' <=> m \in Executed(records'))
          /\ m \notin doubtful' /\ m \in Executed(records') => m \in schema'
      BY <3>1, <3>2
    <3>4. \A n \in Migrations :
            /\ n \notin loose' => (n \in schema' <=> n \in Executed(records'))
            /\ n \notin doubtful' /\ n \in Executed(records') => n \in schema'
      BY <2>3, <3>3
    <3> QED BY <3>4 DEF InStep, Executed
  <2>5. CASE <<"erase", m>> \notin ws
    <3>1. records' = records
      BY <1>6, <2>5
    <3>2. m \notin doubtful' => schema' = schema
      BY <1>5, <2>5
    <3>3. m \in loose' \/ m \notin doubtful'
      OBVIOUS
    <3>4. /\ m \notin loose' => (m \in schema' <=> m \in Executed(records'))
          /\ m \notin doubtful' /\ m \in Executed(records') => m \in schema'
      BY <2>1, <3>1, <3>2
    <3>5. \A n \in Migrations :
            /\ n \notin loose' => (n \in schema' <=> n \in Executed(records'))
            /\ n \notin doubtful' /\ n \in Executed(records') => n \in schema'
      BY <2>3, <3>4
    <3> QED BY <3>5 DEF InStep, Executed
  <2> QED BY <2>4, <2>5
<1>13. schema' \subseteq schema
  BY <1>5
<1> QED BY <1>3, <1>6, <1>7, <1>8, <1>9, <1>12, <1>13 DEF DataFacts, last

\* The types, of which a step within an execution changes these.
LEMMA TypeKept ==
    ASSUME TypeOK, UNCHANGED <<codeVars, base, pending, runs>>,
           pc' \in Places, next' \in 1..(Len(pending) + 1),
           runner' \in Runners, IsShallow(session'), started' \in BOOLEAN,
           schema' \subseteq Migrations, DataFacts',
           loose' \subseteq Migrations, doubtful' \subseteq loose',
           faults' \in 0..MaxFaults
    PROVE  TypeOK'
<1>1. session' \in Sessions
  BY DEF IsShallow
<1>2. records' \subseteq Rows
  BY DEF DataFacts, IsTable
<1>3. /\ vendor' \in Vendors
      /\ override' \in [Migrations -> {"default", "in", "out"}]
      /\ known' \subseteq Migrations
      /\ task' \in {"run", "undo"}
      /\ mode' \in {"all", "each", "none"}
      /\ fake' \in BOOLEAN
      /\ base' \subseteq Rows
      /\ pending' \in Seq(Migrations)
      /\ runs' \in 0..MaxRuns
  BY DEF TypeOK, codeVars
<1>4. next' \in 1..(Len(pending') + 1)
  OBVIOUS
<1> QED BY <1>1, <1>2, <1>3, <1>4 DEF TypeOK

\* An answer that is a fault is counted.
LEMMA AnswerCounted ==
    ASSUME TypeOK, NEW a, Answered(a)
    PROVE  faults' \in 0..MaxFaults /\ session' = a.session /\ Durable(a.durable)
<1>1. MaxFaults \in Nat /\ faults \in 0..MaxFaults
  BY ConstantsAssumption DEF TypeOK
<1> QED BY <1>1 DEF Answered

\* The migration that the execution deals with.
LEMMA CurrentIs ==
    ASSUME TypeOK, next <= Len(pending)
    PROVE  /\ next \in DOMAIN pending /\ Current \in Migrations
           /\ Current \in ToSet(pending)
           /\ \A way \in {"up", "record", "down", "erase"} : <<way, Current>> \in Work
<1>1. pending \in Seq(Migrations) /\ next \in 1..(Len(pending) + 1)
  BY DEF TypeOK
<1>2. next \in DOMAIN pending
  BY <1>1
<1>3. Current \in Migrations
  BY <1>1, <1>2 DEF Current
<1>4. Current \in ToSet(pending)
  BY <1>2 DEF Current, ToSet
<1>5. Work = {"up", "record", "down", "erase"} \X Migrations
  BY ConstantsAssumption
<1> QED BY <1>2, <1>3, <1>4, <1>5

-----------------------------------------------------------------------------
(* The invariant holds at first and is kept by each action.                *)

LEMMA InitHolds ==
    ASSUME Init
    PROVE  MigrationInv
<1>1. TypeOK
  <2>1. <<>> \in Seq(Migrations) /\ Len(<<>>) = 0 /\ 1 \in 1..(0 + 1)
    OBVIOUS
  <2>2. IsShallow(session)
    BY ShallowSessions DEF Init
  <2>3. session \in Sessions
    BY <2>2 DEF IsShallow
  <2>4. NewRunner \in Runners
    BY DEF NewRunner, Runners
  <2>5. 0 \in 0..MaxRuns /\ 0 \in 0..MaxFaults
    BY ConstantsAssumption
  <2> QED BY <2>1, <2>3, <2>4, <2>5 DEF Init, TypeOK, Places
<1>2. IsShallow(session) /\ ~runner.released
  BY ShallowSessions DEF Init, NewRunner
<1>3. IsTable(base) /\ IsTable(records)
  BY DEF Init, IsTable
<1>4. PendingFacts /\ RecordFacts
  BY DEF Init, PendingFacts, RecordFacts
<1>5. InStep
  BY DEF Init, InStep, Executed
<1>6. PlaceFacts
  BY DEF Init, PlaceFacts
<1> QED BY <1>1, <1>2, <1>3, <1>4, <1>5, <1>6 DEF MigrationInv, LastingFacts, DataFacts

\* A process starts: nothing is known of an execution yet.
LEMMA BeginKeeps ==
    ASSUME MigrationInv, BeginExecution
    PROVE  MigrationInv'
<1>1. TypeOK /\ DataFacts
  BY DEF MigrationInv, LastingFacts
<1>2. /\ runs' \in 0..MaxRuns
      /\ known' \subseteq Migrations /\ task' \in {"run", "undo"}
      /\ mode' \in {"all", "each", "none"} /\ fake' \in BOOLEAN
      /\ pc' = "prepare" /\ base' = {} /\ pending' = <<>> /\ next' = 1
      /\ runner' = NewRunner /\ session' = FreshSession /\ started' = FALSE
      /\ UNCHANGED <<vendor, override, schema, records, loose, doubtful, faults>>
  BY <1>1, ConstantsAssumption DEF BeginExecution, TypeOK, dbVars
<1>3. IsShallow(session') /\ ~runner'.released /\ runner' \in Runners
  <2>1. IsShallow(FreshSession)
    BY ShallowSessions
  <2>2. NewRunner \in Runners /\ ~NewRunner.released
    BY DEF NewRunner, Runners
  <2> QED BY <1>2, <2>1, <2>2
<1>4. TypeOK'
  <2>1. <<>> \in Seq(Migrations) /\ 1 \in 1..(Len(<<>>) + 1) /\ {} \subseteq Rows
    OBVIOUS
  <2>2. session' \in Sessions
    BY <1>3 DEF IsShallow
  <2> QED BY <1>1, <1>2, <1>3, <2>1, <2>2 DEF TypeOK, Places
<1>5. IsTable(base)' /\ IsTable(records)'
  BY <1>1, <1>2 DEF DataFacts, IsTable
<1>6. PendingFacts' /\ RecordFacts'
  BY <1>2 DEF PendingFacts, RecordFacts
<1>7. InStep'
  BY <1>1, <1>2 DEF DataFacts, InStep, Executed
<1>8. AtPrepare'
  BY <1>2 DEF AtPrepare
<1>9. PlaceFacts'
  BY <1>2, <1>8 DEF PlaceFacts
<1> QED BY <1>3, <1>4, <1>5, <1>6, <1>7, <1>9 DEF MigrationInv, LastingFacts, DataFacts

\* The rows are loaded, or the execution ends at once.
LEMMA LoadKeeps ==
    ASSUME MigrationInv, Load
    PROVE  MigrationInv' /\ records' = records
<1> DEFINE todo == IF task = "run" THEN PendingMigrations ELSE MigrationToRevert
<1>1. TypeOK /\ DataFacts /\ AtPrepare /\ pc = "prepare"
  BY DEF MigrationInv, LastingFacts, PlaceFacts, Load
<1>2. PICK a \in Query(runner, session, Reply(TRUE, session, {}), Refuse(vendor, session)) :
        /\ Answered(a)
        /\ IF ~a.ok THEN pc' = "idle" /\ UNCHANGED <<base, pending>>
           ELSE /\ base' = records /\ pending' = todo
                /\ pc' = IF todo = <<>> THEN "release"
                         ELSE IF (task = "run" /\ Conflict(todo))
                                 \/ (task = "undo" /\ todo[1] \notin known)
                         THEN "idle" ELSE "begin"
  BY DEF Load
<1>3. UNCHANGED <<vendor, override, known, task, mode, fake, next, runner, started,
                  loose, doubtful, runs>>
  BY DEF Load, codeVars
<1>4. IsShallow(a.session) /\ a.durable = {} /\ (a.ok => a.session = session)
  <2>1. ~runner.released /\ IsShallow(session) /\ vendor \in Vendors
    BY <1>1 DEF MigrationInv, LastingFacts, TypeOK
  <2>2. PICK u : Refuse(vendor, session) = Reply(FALSE, u, {})
                 /\ u = Refuse(vendor, session).session
    BY DEF Refuse, Reply
  <2>3. a \in Query(runner, session, Reply(TRUE, session, {}), Reply(FALSE, u, {}))
    BY <1>2, <2>2
  <2>4. \/ a.ok = TRUE /\ a.session = session /\ a.durable = {}
        \/ ~a.ok /\ a.session = u /\ a.durable = {}
        \/ ~a.ok /\ a.session = DeadSession /\ a.durable \in {{}, {}}
        \/ ~a.ok /\ a.session = session /\ a.durable = {}
    BY <2>1, <2>3, AnswersOf
  <2>5. IsShallow(u) /\ IsShallow(DeadSession)
    BY <2>1, <2>2, ShallowSessions
  <2> QED BY <2>1, <2>4, <2>5
<1>5. faults' \in 0..MaxFaults /\ session' = a.session /\ Durable(a.durable)
  BY <1>1, <1>2, AnswerCounted
<1>6. schema' = schema /\ records' = records
  BY <1>4, <1>5, NothingDurable
<1>7. /\ IsTable(base) /\ IsTable(records) /\ known \subseteq Migrations
      /\ LastMigration \in Nat
  BY <1>1, ConstantsAssumption DEF DataFacts, TypeOK
<1>8. \/ ~a.ok /\ pending' = <<>> /\ base' = base /\ pc' = "idle"
      \/ a.ok /\ pending' = todo /\ base' = records
  BY <1>1, <1>2 DEF AtPrepare
<1>9. task = "run" \/ task = "undo"
  BY <1>1 DEF TypeOK
<1>10. task = "run" => /\ todo \in Seq(Migrations) /\ IsAscending(todo)
                       /\ ToSet(todo) = known \ Executed(records)
  BY <1>7, PendingIsSorted
<1>11. task = "undo" /\ todo # <<>> =>
         /\ todo = <<LastRow(records).migration>> /\ records # {}
         /\ LastRow(records).migration \in Migrations
  <2>1. records # {} => LastRow(records) \in Rows
    BY <1>7, LastRowOfTable DEF IsTable
  <2> QED BY <2>1 DEF MigrationToRevert, Rows
<1>12. task = "undo" => todo \in Seq(Migrations)
  <2>1. CASE task = "undo" /\ todo # <<>>
    <3>1. \A m \in Migrations : <<m>> \in Seq(Migrations)
      OBVIOUS
    <3> QED BY <1>11, <2>1, <3>1
  <2>2. CASE todo = <<>>
    BY <2>2
  <2> QED BY <2>1, <2>2
<1> HIDE DEF todo
<1>13. pending' \in Seq(Migrations) /\ base' \subseteq Rows
  <2>1. <<>> \in Seq(Migrations)
    OBVIOUS
  <2>2. base \subseteq Rows /\ records \subseteq Rows
    BY <1>7 DEF IsTable
  <2> QED BY <1>8, <1>9, <1>10, <1>12, <2>1, <2>2
<1>14. PendingFacts'
  <2>1. CASE ~a.ok
    BY <1>8, <2>1 DEF PendingFacts
  <2>2. CASE a.ok /\ task = "run"
    <3>1. ToSet(pending') = known' \ Executed(base')
      BY <1>3, <1>8, <1>10, <2>2
    <3>2. \A i, j \in DOMAIN pending' : i < j => pending'[i] < pending'[j]
      BY <1>8, <1>10, <2>2 DEF IsAscending
    <3>3. (ToSet(pending) = known \ Executed(base))' = (ToSet(pending') = known' \ Executed(base'))
      BY DEF Executed
    <3> QED BY <1>3, <2>2, <3>1, <3>2, <3>3 DEF PendingFacts
  <2>3. CASE a.ok /\ task = "undo"
    <3>1. pending' # <<>> => base' # {} /\ pending' = <<LastRow(base').migration>>
      BY <1>8, <1>11, <2>3
    <3> QED BY <1>3, <2>3, <3>1 DEF PendingFacts
  <2> QED BY <1>9, <2>1, <2>2, <2>3
<1>15. RecordFacts'
  <2>1. CASE ~a.ok
    BY <1>8, <2>1 DEF RecordFacts
  <2>2. CASE a.ok /\ task = "run"
    <3>1. ToSet(todo) \cap Executed(records) = {} /\ {} \subseteq DOMAIN todo
      BY <1>10, <2>2
    <3>2. \A i \in DOMAIN todo :
            [id |-> HighestId(records) + i, migration |-> todo[i]]
              \in records \cup RowsOf(records, todo, {}) <=> i \in {}
      BY <1>7, <1>10, <2>2, <3>1, RowsAdded
    <3>3. RowsOf(records, todo, {}) = {}
      BY DEF RowsOf
    <3>4. Added' = {}
      <4>1. Added' = {i \in DOMAIN pending' :
                        [id |-> HighestId(base') + i, migration |-> pending'[i]] \in records'}
        BY DEF Added, NewRow, HighestId
      <4>2. Added' = {i \in DOMAIN todo :
                        [id |-> HighestId(records) + i, migration |-> todo[i]] \in records}
        BY <1>6, <1>8, <2>2, <4>1
      <4> QED BY <3>2, <3>3, <4>2
    <3>5. RowsOf(base, pending, Added)' = {}
      BY <3>4 DEF RowsOf
    <3> QED BY <1>3, <1>6, <1>8, <2>2, <3>4, <3>5 DEF RecordFacts
  <2>3. CASE a.ok /\ task = "undo"
    BY <1>3, <1>6, <1>8, <2>3 DEF RecordFacts
  <2> QED BY <1>9, <2>1, <2>2, <2>3
<1>16. DataFacts'
  <2>1. IsTable(base)' /\ IsTable(records)'
    BY <1>6, <1>7, <1>8 DEF IsTable
  <2>2. InStep'
    BY <1>1, <1>3, <1>6 DEF DataFacts, InStep, Executed
  <2> QED BY <1>14, <1>15, <2>1, <2>2 DEF DataFacts
<1>17. IsShallow(session') /\ ~runner'.released
  BY <1>3, <1>4, <1>5 DEF MigrationInv, LastingFacts
<1>18. pc' \in {"idle", "release", "begin"}
  BY <1>2
<1>19. TypeOK'
  <2>1. next' \in 1..(Len(pending') + 1)
    BY <1>1, <1>3, <1>13 DEF AtPrepare
  <2>2. session' \in Sessions /\ records' \subseteq Rows
    BY <1>6, <1>7, <1>17 DEF IsShallow, IsTable
  <2>3. pc' \in Places
    BY <1>18 DEF Places
  <2> QED BY <1>1, <1>3, <1>5, <1>6, <1>13, <2>1, <2>2, <2>3 DEF TypeOK
<1>20. pc' = "begin" => AtBegin'
  <2>1. SUFFICES ASSUME pc' = "begin" PROVE AtBegin'
    OBVIOUS
  <2>2. a.ok /\ pending' = todo /\ base' = records /\ todo # <<>>
        /\ ~(task = "run" /\ Conflict(todo))
    BY <1>2, <1>8, <2>1
  <2>3. mode = "all" /\ task = "run" => \A i \in DOMAIN todo : override[todo[i]] = "default"
    BY <2>2 DEF Conflict
  <2>4. session' = FreshSession
    BY <1>1, <1>4, <1>5, <2>2 DEF AtPrepare
  <2> QED BY <1>1, <1>3, <1>6, <2>2, <2>3, <2>4 DEF AtBegin, AtPrepare
<1>21. pc' = "release" => AtEnd'
  <2>1. pc' = "release" => pending' = <<>>
    BY <1>2, <1>8
  <2> QED BY <2>1 DEF AtEnd
<1>22. PlaceFacts'
  BY <1>18, <1>20, <1>21 DEF PlaceFacts
<1> QED BY <1>6, <1>16, <1>17, <1>19, <1>22 DEF MigrationInv, LastingFacts

\* An outcome says whether the method resolved.
LEMMA StartResolves ==
    ASSUME NEW v, NEW q, NEW s, NEW o \in Undisturbed(StartTransaction(v, q, s))
    PROVE  o.ok \in BOOLEAN
<1> DEFINE begun == [q EXCEPT !.active = TRUE]
           sent == Query(q, s, IF q.depth = 0 THEN Begin(v, s) ELSE Savepoint(v, s, q.depth),
                         Refuse(v, s))
           done == [begun EXCEPT !.depth = q.depth + 1]
<1>1. o \in StartTransaction(v, q, s)
  BY DEF Undisturbed
<1>2. \A p, t, c : o = Thrown(p, t, c) => o.ok \in BOOLEAN
  BY DEF Thrown, Outcome
<1>3. ASSUME NEW p, NEW t, NEW c,
             o = Outcome(TRUE, p, t, c) \/ o = Outcome(FALSE, p, t, c)
      PROVE  o.ok \in BOOLEAN
  <2>1. Outcome(TRUE, p, t, c).ok = TRUE /\ Outcome(FALSE, p, t, c).ok = FALSE
    BY DEF Outcome
  <2> QED BY <1>3, <2>1
<1>4. \/ \E p, t, c : o = Thrown(p, t, c)
      \/ \E p, t, c : o = Outcome(TRUE, p, t, c)
      \/ \E p, t, c : o = Outcome(FALSE, p, t, c)
  <2>1. \/ \E p, t, c : o = Thrown(p, t, c)
        \/ o \in Outcomes(sent, begun, done)
        \/ \E p, t, c : o = Outcome(FALSE, p, t, c)
    BY <1>1 DEF StartTransaction
  <2> HIDE DEF sent, begun, done
  <2>2. o \in Outcomes(sent, begun, done) =>
          \/ \E p, t, c : o = Outcome(TRUE, p, t, c)
          \/ \E p, t, c : o = Outcome(FALSE, p, t, c)
    BY DEF Outcomes
  <2> QED BY <2>1, <2>2
<1> QED BY <1>2, <1>3, <1>4

\* No row has been added yet.
LEMMA NothingAdded ==
    ASSUME TypeOK, DataFacts, task = "run", pending # <<>>, records = base
    PROVE  Added = {}
<1>1. /\ pending \in Seq(Migrations) /\ IsAscending(pending)
      /\ ToSet(pending) \cap Executed(base) = {} /\ {} \subseteq DOMAIN pending
  BY PendingIs DEF DataFacts
<1>2. IsTable(base)
  BY DEF DataFacts
<1>3. \A i \in DOMAIN pending :
        [id |-> HighestId(base) + i, migration |-> pending[i]]
          \in base \cup RowsOf(base, pending, {}) <=> i \in {}
  BY <1>1, <1>2, RowsAdded
<1>4. RowsOf(base, pending, {}) = {}
  BY DEF RowsOf
<1> QED BY <1>3, <1>4 DEF Added, NewRow

\* START TRANSACTION before the first migration, or none.
LEMMA StartOneKeeps ==
    ASSUME MigrationInv, StartOne
    PROVE  MigrationInv' /\ records' = records
<1> DEFINE first == IF task = "run" THEN "loop" ELSE "down"
           own == mode = "all" \/ (mode = "each" /\ task = "undo")
<1>1. TypeOK /\ DataFacts /\ AtBegin /\ pc = "begin"
  BY DEF MigrationInv, LastingFacts, PlaceFacts, StartOne
<1>2. UNCHANGED <<codeVars, base, pending, next, loose, doubtful, runs>>
  BY DEF StartOne
<1>3. UNCHANGED <<vendor, override, known, task, mode, fake>>
  BY <1>2 DEF codeVars
<1>4. /\ runner = NewRunner /\ session = FreshSession /\ ~started /\ next = 1
      /\ pending # <<>> /\ records = base
  BY <1>1 DEF AtBegin
<1>5. /\ ~runner.released /\ ~runner.active /\ runner.depth = 0 /\ runner \in Runners
      /\ IsShallow(session) /\ IsSound(vendor, runner, session) /\ WorkOf(session) = {}
  <2>1. ~NewRunner.released /\ ~NewRunner.active /\ NewRunner.depth = 0 /\ NewRunner \in Runners
    BY DEF NewRunner, Runners
  <2>2. FreshSession.frames = <<>> /\ FreshSession.alive /\ ~FreshSession.failed
    BY DEF FreshSession
  <2>3. IsShallow(FreshSession) /\ WorkOf(FreshSession) = {}
    BY <2>2, ShallowSessions, WorkOfShallow
  <2>4. IsSound(vendor, NewRunner, FreshSession)
    BY <2>1, <2>2 DEF IsSound
  <2> QED BY <1>4, <2>1, <2>3, <2>4
<1>6. /\ schema' = schema /\ records' = records
      /\ IsShallow(session') /\ ~runner'.released /\ runner' \in Runners
      /\ started' \in BOOLEAN /\ faults' \in 0..MaxFaults
      /\ pc' \in {first, "idle"}
      /\ pc' = first => /\ IsSound(vendor, runner', session') /\ WorkOf(session') = {}
                        /\ (runner'.active <=> own) /\ (started' <=> own)
  <2>1. CASE /\ own
             /\ \E o \in Undisturbed(StartTransaction(vendor, runner, session)) :
                  /\ Answered(o)
                  /\ runner' = o.runner
                  /\ started' = o.ok
                  /\ pc' = IF o.ok THEN first ELSE "idle"
    <3>1. PICK o \in Undisturbed(StartTransaction(vendor, runner, session)) :
            /\ Answered(o)
            /\ runner' = o.runner
            /\ started' = o.ok
            /\ pc' = IF o.ok THEN first ELSE "idle"
      BY <2>1
    <3>2. /\ IsShallow(o.session) /\ o.durable = {}
          /\ o.runner \in Runners /\ ~o.runner.released /\ o.runner.depth \in {0, 1}
          /\ o.ok => /\ IsSound(vendor, o.runner, o.session) /\ o.runner.active
                     /\ WorkOf(o.session) = {}
      <4>1. vendor \in Vendors
        BY <1>1 DEF TypeOK
      <4> QED BY <1>5, <4>1, StartAnswers
    <3>3. faults' \in 0..MaxFaults /\ session' = o.session /\ Durable(o.durable)
      BY <1>1, <3>1, AnswerCounted
    <3>4. schema' = schema /\ records' = records
      BY <3>2, <3>3, NothingDurable
    <3>5. o.ok \in BOOLEAN
      BY StartResolves
    <3>6. pc' = first => o.ok
      BY <3>1
    <3>7. pc' \in {first, "idle"}
      BY <3>1
    <3> HIDE DEF first, own
    <3> QED BY <2>1, <3>1, <3>2, <3>3, <3>4, <3>5, <3>6, <3>7
  <2>2. CASE /\ ~own /\ pc' = first
             /\ UNCHANGED <<runner, session, started, dbVars, faults>>
    <3>1. UNCHANGED <<runner, session, started, schema, records, faults>>
      BY <2>2 DEF dbVars
    <3>2. started' \in BOOLEAN /\ faults' \in 0..MaxFaults
      BY <1>1, <3>1 DEF TypeOK
    <3> HIDE DEF first, own
    <3> QED BY <1>4, <1>5, <2>2, <3>1, <3>2
  <2> QED BY <1>1, <2>1, <2>2 DEF StartOne, TypeOK
<1>7. DataFacts' /\ Added' = Added
  BY <1>1, <1>2, <1>3, <1>6, DataKept
<1>8. TypeOK'
  <2>1. schema' \subseteq Migrations /\ loose' \subseteq Migrations /\ doubtful' \subseteq loose'
        /\ next' \in 1..(Len(pending) + 1)
    BY <1>1, <1>2, <1>6 DEF TypeOK
  <2>2. pc' \in Places
    BY <1>6 DEF Places
  <2> QED BY <1>1, <1>2, <1>6, <1>7, <2>1, <2>2, TypeKept
<1>9. pc' = "loop" => AtLoop'
  <2>1. SUFFICES ASSUME pc' = "loop" PROVE AtLoop'
    OBVIOUS
  <2>2. task = "run" /\ pc' = first
    BY <1>1, <1>6, <2>1 DEF TypeOK
  <2>3. Added' = {}
    BY <1>1, <1>4, <1>7, <2>2, NothingAdded
  <2>4. Inserted({})' = {} /\ 1..(next - 1) = {}
    BY <1>4 DEF Inserted
  <2>5. WorkOf(session)' = {}
    BY <1>6, <2>2 DEF WorkOf
  <2>6. IsSound(vendor, runner, session)'
    BY <1>3, <1>6, <2>2 DEF IsSound
  <2>7. mode = "all" => \A i \in DOMAIN pending : override[pending[i]] = "default"
    BY <1>1, <2>2 DEF AtBegin
  <2>8. Dealt(next - 1)'
    BY <1>2, <1>3, <1>4, <1>6, <2>2, <2>3, <2>4, <2>5, <2>6, <2>7 DEF Dealt, Inserted
  <2>9. Paired(WorkOf(session), {})'
    BY <2>5 DEF Paired
  <2>10. runner'.active <=> mode' = "all"
    BY <1>3, <1>6, <2>2
  <2> QED BY <2>8, <2>9, <2>10 DEF AtLoop
<1>10. pc' = "down" => AtDown'
  <2>1. SUFFICES ASSUME pc' = "down" PROVE AtDown'
    OBVIOUS
  <2>2. task = "undo" /\ pc' = first
    BY <1>1, <1>6, <2>1 DEF TypeOK
  <2>3. WorkOf(session)' = {}
    BY <1>6, <2>2 DEF WorkOf
  <2>4. IsSound(vendor, runner, session)'
    BY <1>3, <1>6, <2>2 DEF IsSound
  <2>5. Undoing'
    BY <1>2, <1>3, <1>4, <1>6, <2>2, <2>4 DEF Undoing
  <2> QED BY <2>3, <2>5 DEF AtDown
<1>11. pc' \in {"loop", "down", "idle"}
  BY <1>6
<1>12. PlaceFacts'
  BY <1>9, <1>10, <1>11 DEF PlaceFacts
<1> QED BY <1>6, <1>7, <1>8, <1>12 DEF MigrationInv, LastingFacts

\* The loop over the pending migrations.
LEMMA LoopKeeps ==
    ASSUME MigrationInv, Loop
    PROVE  MigrationInv' /\ records' = records
<1>1. TypeOK /\ DataFacts /\ AtLoop /\ pc = "loop" /\ IsShallow(session) /\ ~runner.released
  BY DEF MigrationInv, LastingFacts, PlaceFacts, Loop
<1>2. UNCHANGED <<codeVars, base, pending, next, loose, doubtful, runs>>
  BY DEF Loop
<1>3. UNCHANGED <<vendor, override, known, task, mode, fake>>
  BY <1>2 DEF codeVars
<1>4. /\ vendor \in Vendors /\ runner \in Runners /\ started \in BOOLEAN
      /\ faults \in 0..MaxFaults
      /\ schema \subseteq Migrations /\ loose \subseteq Migrations
      /\ doubtful \subseteq loose /\ next \in 1..(Len(pending) + 1)
      /\ Len(pending) \in Nat
  BY <1>1 DEF TypeOK
<1>5. /\ Dealt(next - 1) /\ Paired(WorkOf(session), {})
      /\ runner.active <=> mode = "all"
  BY <1>1 DEF AtLoop
<1>6. /\ task = "run" /\ pending # <<>> /\ IsSound(vendor, runner, session)
      /\ runner.active => started
      /\ Added \cup Inserted(WorkOf(session)) = 1..(next - 1)
      /\ mode = "all" => \A i \in DOMAIN pending : override[pending[i]] = "default"
  BY <1>5 DEF Dealt
<1>7. ASSUME schema' = schema, records' = records, IsShallow(session'),
             runner' \in Runners, ~runner'.released, started' \in BOOLEAN,
             faults' \in 0..MaxFaults, pc' \in Places, PlaceFacts'
      PROVE  MigrationInv'
  <2>1. DataFacts'
    BY <1>1, <1>2, <1>3, <1>7, DataKept
  <2>2. schema' \subseteq Migrations /\ loose' \subseteq Migrations
        /\ doubtful' \subseteq loose' /\ next' \in 1..(Len(pending) + 1)
    BY <1>2, <1>4, <1>7
  <2>3. TypeOK'
    BY <1>1, <1>2, <1>7, <2>1, <2>2, TypeKept
  <2> QED BY <1>7, <2>1, <2>3 DEF MigrationInv, LastingFacts
<1>8. ASSUME UNCHANGED <<runner, session, started, dbVars, faults>>
      PROVE  /\ Added' = Added /\ IsSound(vendor, runner, session)'
             /\ WorkOf(session)' = WorkOf(session)
             /\ Dealt(next - 1)' /\ Paired(WorkOf(session), {})'
             /\ UNCHANGED <<schema, records>>
  <2>1. UNCHANGED <<schema, records>>
    BY <1>8 DEF dbVars
  <2>2. Added' = Added
    BY <1>1, <1>2, <1>3, <2>1, DataKept
  <2>3. WorkOf(session)' = WorkOf(session)
    BY <1>8 DEF WorkOf
  <2>4. IsSound(vendor, runner, session)'
    BY <1>3, <1>6, <1>8 DEF IsSound
  <2>5. Inserted(WorkOf(session))' = Inserted(WorkOf(session))
    BY <1>2, <2>3 DEF Inserted
  <2>6. Dealt(next - 1)'
    BY <1>2, <1>3, <1>5, <1>8, <2>1, <2>2, <2>3, <2>4, <2>5 DEF Dealt
  <2>7. Paired(WorkOf(session), {})'
    BY <1>2, <1>5, <2>3 DEF Paired
  <2> QED BY <2>1, <2>2, <2>3, <2>4, <2>6, <2>7
<1>9. CASE /\ next > Len(pending)
           /\ pc' = IF mode = "all" /\ started THEN "commitAll" ELSE "release"
           /\ UNCHANGED <<runner, session, started, dbVars, faults>>
  <2>1. next = Len(pending) + 1
    BY <1>4, <1>9
  <2>2. pc' = "commitAll" => AtCommitAll'
    <3>1. SUFFICES ASSUME pc' = "commitAll" PROVE AtCommitAll'
      OBVIOUS
    <3>2. mode = "all" /\ started
      BY <1>9, <3>1
    <3>3. runner'.active
      BY <1>5, <1>9, <3>2
    <3> QED BY <1>2, <1>3, <1>8, <1>9, <2>1, <3>2, <3>3 DEF AtCommitAll
  <2>3. pc' = "release" => AtEnd'
    <3>1. SUFFICES ASSUME pc' = "release" PROVE AtEnd'
      OBVIOUS
    <3>2. mode # "all"
      BY <1>5, <1>6, <1>9, <3>1
    <3>3. session.frames = <<>>
      BY <1>5, <1>6, <3>2 DEF IsSound
    <3>4. WorkOf(session) = {}
      BY <3>3, WorkOfShallow
    <3>5. Inserted(WorkOf(session)) = {}
      BY <3>4 DEF Inserted
    <3>6. DOMAIN pending = 1..Len(pending)
      BY <1>1 DEF TypeOK
    <3>7. next - 1 = Len(pending)
      BY <1>4, <2>1
    <3>8. Added = DOMAIN pending
      BY <1>6, <3>5, <3>6, <3>7
    <3>9. Added' = DOMAIN pending'
      BY <1>2, <1>8, <1>9, <3>8
    <3> QED BY <1>3, <1>6, <3>9 DEF AtEnd
  <2>4. pc' \in {"commitAll", "release"}
    BY <1>9
  <2>5. PlaceFacts' /\ pc' \in Places
    BY <2>2, <2>3, <2>4 DEF PlaceFacts, Places
  <2> QED BY <1>1, <1>4, <1>7, <1>8, <1>9, <2>5
<1>10. CASE /\ next <= Len(pending) /\ fake
            /\ pc' = "record"
            /\ UNCHANGED <<runner, session, started, dbVars, faults>>
  <2>1. Paired(WorkOf(session), {Current})'
    BY <1>8, <1>10 DEF Paired
  <2>2. AtRecord'
    <3>1. runner'.active <=> mode' = "all"
      BY <1>3, <1>5, <1>10
    <3>2. fake' /\ next' <= Len(pending')
      BY <1>2, <1>3, <1>10
    <3>3. Dealt(next - 1)'
      BY <1>8, <1>10
    <3> QED BY <2>1, <3>1, <3>2, <3>3 DEF AtRecord
  <2>3. PlaceFacts' /\ pc' \in Places
    BY <1>10, <2>2 DEF PlaceFacts, Places
  <2> QED BY <1>1, <1>4, <1>7, <1>8, <1>10, <2>3
<1>11. CASE /\ next <= Len(pending) /\ ~fake
            /\ ~OwnTransaction(Current) \/ runner.active
            /\ pc' = "up"
            /\ UNCHANGED <<runner, session, started, dbVars, faults>>
  <2>1. (OwnTransaction(Current) <=> OwnTransaction(Current)')
    BY <1>2, <1>3 DEF OwnTransaction, Current
  <2>2. runner'.active <=> mode' = "all" \/ OwnTransaction(Current)'
    BY <1>3, <1>5, <1>11, <2>1
  <2>3. ~fake' /\ next' <= Len(pending')
    BY <1>2, <1>3, <1>11
  <2>4. AtUp'
    BY <1>8, <1>11, <2>2, <2>3 DEF AtUp
  <2>5. PlaceFacts' /\ pc' \in Places
    BY <1>11, <2>4 DEF PlaceFacts, Places
  <2> QED BY <1>1, <1>4, <1>7, <1>8, <1>11, <2>5
<1>12. CASE /\ next <= Len(pending) /\ ~fake
            /\ OwnTransaction(Current) /\ ~runner.active
            /\ \E o \in Undisturbed(StartTransaction(vendor, runner, session)) :
                 /\ Answered(o)
                 /\ runner' = o.runner
                 /\ started' = (started \/ o.ok)
                 /\ pc' = IF o.ok THEN "up" ELSE "catch"
  <2>1. PICK o \in Undisturbed(StartTransaction(vendor, runner, session)) :
          /\ Answered(o)
          /\ runner' = o.runner
          /\ started' = (started \/ o.ok)
          /\ pc' = IF o.ok THEN "up" ELSE "catch"
    BY <1>12
  <2>2. /\ IsShallow(o.session) /\ o.durable = {}
        /\ o.runner \in Runners /\ ~o.runner.released /\ o.runner.depth \in {0, 1}
        /\ o.ok => /\ IsSound(vendor, o.runner, o.session) /\ o.runner.active
                   /\ WorkOf(o.session) = {}
    BY <1>1, <1>4, <1>6, <1>12, StartAnswers
  <2>3. faults' \in 0..MaxFaults /\ session' = o.session /\ Durable(o.durable)
    BY <1>1, <2>1, AnswerCounted
  <2>4. schema' = schema /\ records' = records
    BY <2>2, <2>3, NothingDurable
  <2>5. Added' = Added
    BY <1>1, <1>2, <1>3, <2>4, DataKept
  <2>6. WorkOf(session) = {}
    BY <1>6, <1>12, WorkOfShallow DEF IsSound
  <2>7. pc' = "up" => AtUp'
    <3>1. SUFFICES ASSUME pc' = "up" PROVE AtUp'
      OBVIOUS
    <3>2. o.ok
      BY <2>1, <3>1
    <3>3. WorkOf(session)' = {}
      <4>1. WorkOf(session)' = WorkOf(session')
        BY DEF WorkOf
      <4> QED BY <2>2, <2>3, <3>2, <4>1
    <3>4. Inserted({}) = {} /\ Inserted({})' = {}
      BY DEF Inserted
    <3>5. Added' \cup Inserted({})' = 1..(next' - 1)
      BY <1>2, <1>6, <2>5, <2>6, <3>4
    <3>6. IsSound(vendor, runner, session)' /\ runner'.active /\ started'
      BY <1>3, <2>1, <2>2, <2>3, <3>2 DEF IsSound
    <3>7. vendor' = "postgres" /\ mode' = "all" => Added' = {}
      BY <1>3, <1>5, <2>5 DEF Dealt
    <3>8. (Added \cup Inserted(WorkOf(session)) = 1..(next - 1))'
      BY <3>3, <3>5 DEF Inserted
    <3>9. Dealt(next - 1)'
      BY <1>2, <1>3, <1>6, <3>3, <3>6, <3>7, <3>8 DEF Dealt
    <3>10. Paired(WorkOf(session), {})'
      BY <3>3 DEF Paired
    <3>11. OwnTransaction(Current)'
      BY <1>2, <1>3, <1>12 DEF OwnTransaction, Current
    <3> QED BY <1>2, <1>3, <1>12, <3>6, <3>9, <3>10, <3>11 DEF AtUp
  <2>8. pc' = "catch" => runner'.depth \in {0, 1}
    BY <2>1, <2>2
  <2>9. pc' \in {"up", "catch"}
    BY <2>1
  <2>10. PlaceFacts' /\ pc' \in Places
    BY <2>7, <2>8, <2>9 DEF PlaceFacts, Places
  <2> QED BY <1>7, <2>1, <2>2, <2>3, <2>4, <2>10
<1> QED BY <1>9, <1>10, <1>11, <1>12 DEF Loop

\* What is left to show of a step within an execution.
LEMMA StepKeeps ==
    ASSUME MigrationInv, UNCHANGED <<codeVars, base, pending, runs>>,
           pc' \in Places, next' \in 1..(Len(pending) + 1),
           runner' \in Runners, ~runner'.released, IsShallow(session'),
           started' \in BOOLEAN, schema' \subseteq Migrations, DataFacts',
           loose' \subseteq Migrations, doubtful' \subseteq loose',
           faults' \in 0..MaxFaults, PlaceFacts'
    PROVE  MigrationInv'
<1>1. TypeOK
  BY DEF MigrationInv, LastingFacts
<1>2. TypeOK'
  BY <1>1, TypeKept
<1> QED BY <1>2 DEF MigrationInv, LastingFacts

\* up: its work is that of the transaction, or durable with all before it.
LEMMA UpKeeps ==
    ASSUME MigrationInv, Up
    PROVE  /\ MigrationInv' /\ records \subseteq records'
           /\ vendor = "postgres" /\ mode = "all" => records' = records
<1> DEFINE m == Current
           W == WorkOf(session)
           U == W \cup {<<"up", m>>}
<1>1. TypeOK /\ DataFacts /\ AtUp /\ pc = "up" /\ IsShallow(session) /\ ~runner.released
  BY DEF MigrationInv, LastingFacts, PlaceFacts, Up
<1>2. UNCHANGED <<codeVars, base, pending, next, runner, started, doubtful, runs>>
      /\ loose' = Loosely(m)
  BY DEF Up
<1>3. UNCHANGED <<vendor, override, known, task, mode, fake>>
  BY <1>2 DEF codeVars
<1>4. PICK a \in ChangeSchema(<<"up", m>>) :
        Answered(a) /\ pc' = IF a.ok THEN "record" ELSE "catch"
  BY DEF Up
<1>5. /\ vendor \in Vendors /\ runner \in Runners /\ started \in BOOLEAN
      /\ schema \subseteq Migrations /\ loose \subseteq Migrations
      /\ doubtful \subseteq loose /\ next \in 1..(Len(pending) + 1)
  BY <1>1 DEF TypeOK
<1>6. /\ Dealt(next - 1) /\ Paired(W, {}) /\ ~fake /\ next <= Len(pending)
      /\ runner.active <=> mode = "all" \/ OwnTransaction(m)
  BY <1>1 DEF AtUp
<1>7. /\ task = "run" /\ pending # <<>> /\ IsSound(vendor, runner, session)
      /\ runner.active => started
      /\ Added \cup Inserted(W) = 1..(next - 1)
      /\ W \subseteq {"up", "record"} \X ToSet(pending)
      /\ mode = "all" => \A i \in DOMAIN pending : override[pending[i]] = "default"
      /\ vendor = "postgres" /\ mode = "all" => Added = {}
      /\ \A n \in Migrations \ doubtful :
           <<"record", n>> \in W => n \in schema \/ <<"up", n>> \in W
  BY <1>6 DEF Dealt
<1>8. next \in DOMAIN pending /\ m \in Migrations /\ m \in ToSet(pending)
      /\ <<"up", m>> \in Work
  BY <1>1, <1>6, CurrentIs
<1>9. m' = m /\ (OwnTransaction(Current)' <=> OwnTransaction(m))
  BY <1>2, <1>3 DEF OwnTransaction, Current
<1>10. faults' \in 0..MaxFaults /\ session' = a.session /\ Durable(a.durable)
  BY <1>1, <1>4, AnswerCounted
<1>11. /\ IsShallow(a.session)
       /\ a.ok => IsSound(vendor, runner, a.session)
       /\ vendor = "postgres" /\ runner.active =>
            /\ a.durable = {}
            /\ a.ok => WorkOf(a.session) = U
       /\ ~(vendor = "postgres" /\ runner.active) =>
            /\ a.durable \in {{}, W, U}
            /\ a.ok => a.durable = U /\ WorkOf(a.session) = {}
  BY <1>1, <1>4, <1>5, <1>7, <1>8, ChangeSchemaAnswers
<1>12. DOMAIN pending = 1..Len(pending) /\ Len(pending) \in Nat
       /\ Added \subseteq DOMAIN pending
  BY <1>1 DEF TypeOK, Added
<1>13. Inserted(U) = Inserted(W) /\ Inserted({}) = {}
       /\ U \subseteq {"up", "record"} \X ToSet(pending)
  BY <1>7, <1>8 DEF Inserted
<1>14. WorkOf(session)' = WorkOf(a.session)
  BY <1>10 DEF WorkOf
<1> HIDE DEF m, W, U
<1>15. \A i \in 1..(next - 1), j \in DOMAIN pending : j < i => j \in 1..(next - 1)
  BY <1>5, <1>12
<1>16. \A i \in Added, j \in DOMAIN pending : j < i => j \in Added
  BY <1>1, <1>7 DEF DataFacts, RecordFacts
<1>17. ASSUME vendor = "postgres", runner.active
       PROVE  /\ DataFacts' /\ schema' \subseteq Migrations /\ records' = records
              /\ loose' \subseteq Migrations /\ doubtful' \subseteq loose'
              /\ a.ok => AtRecord'
  <2>1. schema' = schema /\ records' = records
    BY <1>10, <1>11, <1>17, NothingDurable
  <2>2. loose' = loose
    BY <1>2, <1>5, <1>17 DEF Loosely, Vendors
  <2>3. DataFacts' /\ Added' = Added
    BY <1>1, <1>2, <1>3, <2>1, <2>2, DataKept
  <2>4. a.ok => AtRecord'
    <3>1. SUFFICES ASSUME a.ok PROVE AtRecord'
      OBVIOUS
    <3>2. WorkOf(session)' = U
      BY <1>11, <1>14, <1>17, <3>1
    <3>3. Inserted(WorkOf(session))' = Inserted(U)
      BY <1>2, <3>2 DEF Inserted
    <3>4. (Added \cup Inserted(WorkOf(session)) = 1..(next - 1))'
      BY <1>2, <1>7, <1>13, <2>3, <3>3
    <3>5. IsSound(vendor, runner, session)'
      BY <1>2, <1>3, <1>10, <1>11, <3>1 DEF IsSound
    <3>6. \A n \in Migrations \ doubtful' :
             <<"record", n>> \in U => n \in schema' \/ <<"up", n>> \in U
      BY <1>2, <1>7, <2>1 DEF U
    <3>7. WorkOf(session)' \subseteq {"up", "record"} \X ToSet(pending)'
      BY <1>2, <1>13, <3>2 DEF ToSet
    <3>8. Dealt(next - 1)'
      BY <1>2, <1>3, <1>7, <2>3, <3>2, <3>4, <3>5, <3>6, <3>7 DEF Dealt
    <3>9. Paired(WorkOf(session), {Current})'
      BY <1>2, <1>6, <1>9, <2>2, <3>2 DEF Paired, U, m
    <3>10. next' <= Len(pending') /\ ~fake'
           /\ (runner'.active <=> mode' = "all" \/ OwnTransaction(Current)')
      BY <1>2, <1>3, <1>6, <1>9
    <3>11. <<"up", Current'>> \in WorkOf(session)'
      BY <1>9, <3>2 DEF U, m
    <3> QED BY <3>8, <3>9, <3>10, <3>11 DEF AtRecord
  <2> QED BY <1>2, <1>5, <2>1, <2>2, <2>3, <2>4
<1>18. ASSUME ~(vendor = "postgres" /\ runner.active)
       PROVE  /\ DataFacts' /\ schema' \subseteq Migrations /\ records \subseteq records'
              /\ loose' \subseteq Migrations /\ doubtful' \subseteq loose'
              /\ a.ok => AtRecord'
  <2> DEFINE ws == a.durable
  <2>1. loose' = loose \cup {m}
    BY <1>2, <1>5, <1>18 DEF Loosely, Vendors
  <2>2. ws \in {{}, W, U} /\ (a.ok => ws = U /\ WorkOf(session)' = {})
    BY <1>11, <1>14, <1>18
  <2>3. Durable(ws)
    BY <1>10
  <2> HIDE DEF ws
  <2>4. ws \subseteq {"up", "record"} \X ToSet(pending)
    BY <1>7, <1>13, <2>2
  <2>5. \A n \in Migrations \ loose' : <<"up", n>> \in ws <=> <<"record", n>> \in ws
    <3>1. \A n \in Migrations \ loose' :
            n # m /\ (<<"up", n>> \in W <=> <<"record", n>> \in W)
      BY <1>6, <2>1 DEF Paired
    <3>2. \A n : n # m => /\ <<"up", n>> \in U <=> <<"up", n>> \in W
                          /\ <<"record", n>> \in U <=> <<"record", n>> \in W
      BY DEF U
    <3> QED BY <2>2, <3>1, <3>2
  <2>6. \A n \in Migrations \ doubtful' :
           <<"record", n>> \in ws => n \in schema \/ <<"up", n>> \in ws
    <3>1. \A n : <<"record", n>> \in U => <<"record", n>> \in W
      BY DEF U
    <3>2. W \subseteq U
      BY DEF U
    <3> QED BY <1>2, <1>7, <2>2, <3>1, <3>2
  <2>7. Inserted(ws) = {} \/ Added \cup Inserted(ws) = 1..(next - 1)
    BY <1>7, <1>13, <2>2
  <2>8. \A i \in Added \cup Inserted(ws), j \in DOMAIN pending :
           j < i => j \in Added \cup Inserted(ws)
    BY <1>15, <1>16, <2>7
  <2>9. loose \subseteq loose' /\ doubtful \subseteq doubtful'
    BY <1>2, <2>1
  <2>10. /\ DataFacts' /\ Added' = Added \cup Inserted(ws)
         /\ schema' = schema \cup Concerned("up", ws) /\ schema' \subseteq Migrations
         /\ records \subseteq records'
    BY <1>1, <1>2, <1>3, <1>7, <2>3, <2>4, <2>5, <2>6, <2>8, <2>9, DataDone
  <2>11. a.ok => AtRecord'
    <3>1. SUFFICES ASSUME a.ok PROVE AtRecord'
      OBVIOUS
    <3>2. WorkOf(session)' = {} /\ ws = U
      BY <2>2, <3>1
    <3>3. Inserted(WorkOf(session))' = {}
      BY <3>2 DEF Inserted
    <3>4. (Added \cup Inserted(WorkOf(session)) = 1..(next - 1))'
      BY <1>2, <1>7, <1>13, <2>10, <3>2, <3>3
    <3>5. IsSound(vendor, runner, session)'
      BY <1>2, <1>3, <1>10, <1>11, <3>1 DEF IsSound
    <3>6. ~(vendor = "postgres" /\ mode = "all")
      BY <1>6, <1>18
    <3>7. Dealt(next - 1)'
      BY <1>2, <1>3, <1>7, <3>2, <3>4, <3>5, <3>6 DEF Dealt
    <3>8. Paired(WorkOf(session), {Current})'
      BY <3>2 DEF Paired
    <3>9. next' <= Len(pending') /\ ~fake'
           /\ (runner'.active <=> mode' = "all" \/ OwnTransaction(Current)')
      BY <1>2, <1>3, <1>6, <1>9
    <3>10. Current' \in schema' /\ Current' \in loose'
      BY <1>8, <1>9, <2>1, <2>10, <3>2 DEF U, m, Concerned
    <3> QED BY <3>7, <3>8, <3>9, <3>10 DEF AtRecord
  <2>12. loose' \subseteq Migrations /\ doubtful' \subseteq loose'
    BY <1>2, <1>5, <1>8, <2>1
  <2> QED BY <2>10, <2>11, <2>12
<1>19. vendor = "postgres" /\ mode = "all" => records' = records
  BY <1>6, <1>17
<1>20. /\ DataFacts' /\ schema' \subseteq Migrations /\ records \subseteq records'
       /\ loose' \subseteq Migrations /\ doubtful' \subseteq loose'
       /\ a.ok => AtRecord'
  BY <1>17, <1>18
<1>21. pc' = "catch" => runner'.depth \in {0, 1}
  BY <1>2, <1>7 DEF IsSound
<1>22. pc' \in {"record", "catch"} /\ (pc' = "record" => AtRecord')
  BY <1>4, <1>20
<1>23. PlaceFacts' /\ pc' \in Places
  BY <1>21, <1>22 DEF PlaceFacts, Places
<1>24. /\ next' \in 1..(Len(pending) + 1) /\ runner' \in Runners /\ ~runner'.released
       /\ IsShallow(session') /\ started' \in BOOLEAN
  BY <1>1, <1>2, <1>5, <1>10, <1>11
<1>25. MigrationInv'
  BY <1>2, <1>10, <1>20, <1>23, <1>24, StepKeeps
<1> QED BY <1>20, <1>25, <1>19

\* The row of the current migration is inserted, or the executor gives up.
LEMMA RecordKeeps ==
    ASSUME MigrationInv, Record
    PROVE  /\ MigrationInv' /\ records \subseteq records'
           /\ vendor = "postgres" /\ mode = "all" => records' = records
<1> DEFINE m == Current
           w == <<"record", m>>
           W == WorkOf(session)
           U == W \cup {w}
<1>1. TypeOK /\ DataFacts /\ AtRecord /\ pc = "record" /\ IsShallow(session) /\ ~runner.released
  BY DEF MigrationInv, LastingFacts, PlaceFacts, Record
<1>2. UNCHANGED <<codeVars, base, pending, runner, started, runs>>
      /\ loose' = (IF fake THEN loose \cup {m} ELSE loose)
      /\ doubtful' = (IF fake THEN doubtful \cup {m} ELSE doubtful)
  BY DEF Record
<1>3. UNCHANGED <<vendor, override, known, task, mode, fake>>
  BY <1>2 DEF codeVars
<1>4. PICK a \in InsertExecutedMigration(m) :
        /\ Answered(a)
        /\ IF ~a.ok THEN pc' = "catch" /\ UNCHANGED next
           ELSE IF ~fake /\ CommitsEach(m) THEN pc' = "commit" /\ UNCHANGED next
           ELSE pc' = "loop" /\ next' = next + 1
  BY DEF Record
<1>5. /\ vendor \in Vendors /\ runner \in Runners /\ started \in BOOLEAN
      /\ schema \subseteq Migrations /\ loose \subseteq Migrations
      /\ doubtful \subseteq loose /\ next \in 1..(Len(pending) + 1)
  BY <1>1 DEF TypeOK
<1>6. /\ Dealt(next - 1) /\ Paired(W, {m}) /\ next <= Len(pending)
      /\ runner.active <=> mode = "all" \/ (~fake /\ OwnTransaction(m))
      /\ ~fake => /\ m \in schema \/ <<"up", m>> \in W \/ m \in doubtful
                  /\ <<"up", m>> \in W \/ m \in loose
  BY <1>1 DEF AtRecord
<1>7. /\ task = "run" /\ pending # <<>> /\ IsSound(vendor, runner, session)
      /\ runner.active => started
      /\ Added \cup Inserted(W) = 1..(next - 1)
      /\ W \subseteq {"up", "record"} \X ToSet(pending)
      /\ mode = "all" => \A i \in DOMAIN pending : override[pending[i]] = "default"
      /\ vendor = "postgres" /\ mode = "all" => Added = {}
      /\ \A n \in Migrations \ doubtful :
           <<"record", n>> \in W => n \in schema \/ <<"up", n>> \in W
  BY <1>6 DEF Dealt
<1>8. next \in DOMAIN pending /\ m \in Migrations /\ m \in ToSet(pending) /\ w \in Work
      /\ m = pending[next]
  BY <1>1, <1>6, CurrentIs DEF Current
<1>9. faults' \in 0..MaxFaults /\ session' = a.session /\ Durable(a.durable)
  BY <1>1, <1>4, AnswerCounted
<1>10. /\ IsShallow(a.session)
       /\ a.ok => IsSound(vendor, runner, a.session)
       /\ runner.active => /\ a.durable = {}
                           /\ a.ok => WorkOf(a.session) = U
       /\ ~runner.active => /\ IF a.ok THEN a.durable = {w} ELSE a.durable \in {{}, {w}}
                            /\ a.ok => WorkOf(a.session) = {}
  BY <1>1, <1>4, <1>5, <1>7, <1>8, ExecuteAnswers DEF InsertExecutedMigration
<1>11. DOMAIN pending = 1..Len(pending) /\ Len(pending) \in Nat
       /\ Added \subseteq DOMAIN pending
       /\ \A i, j \in DOMAIN pending : pending[i] = pending[j] => i = j
  BY <1>1, <1>7, PendingIs DEF DataFacts, Added
<1>12. /\ Inserted(U) = Inserted(W) \cup {next} /\ Inserted({}) = {}
       /\ Inserted({w}) = {next}
       /\ U \subseteq {"up", "record"} \X ToSet(pending)
  <2>1. \A i \in DOMAIN pending : <<"record", pending[i]>> = w <=> i = next
    BY <1>8, <1>11
  <2>2. Inserted({w}) = {next}
    BY <1>8, <2>1 DEF Inserted
  <2>3. Inserted(U) = Inserted(W) \cup Inserted({w})
    BY DEF Inserted
  <2>4. Inserted({}) = {}
    BY DEF Inserted
  <2>5. U \subseteq {"up", "record"} \X ToSet(pending)
    BY <1>7, <1>8
  <2> QED BY <2>2, <2>3, <2>4, <2>5
<1>13. WorkOf(session)' = WorkOf(a.session)
  BY <1>9 DEF WorkOf
<1>14. mode = "all" => ~OwnTransaction(m)
  BY <1>7, <1>8 DEF OwnTransaction
<1>15. /\ loose \subseteq loose' /\ doubtful \subseteq doubtful'
       /\ loose' \subseteq Migrations /\ doubtful' \subseteq loose'
  BY <1>2, <1>5, <1>8
<1>16. /\ 1..(next - 1) \cup {next} = 1..next
       /\ (next + 1) - 1 = next
       /\ \A i \in 1..next, j \in DOMAIN pending : j < i => j \in 1..next
       /\ next + 1 \in 1..(Len(pending) + 1)
  BY <1>5, <1>6, <1>11
<1>17. \A i \in Added, j \in DOMAIN pending : j < i => j \in Added
  BY <1>1, <1>7 DEF DataFacts, RecordFacts
<1> HIDE DEF m, w, W, U
<1>18. pc' \in {"catch", "commit", "loop"} /\ (pc' = "catch" <=> ~a.ok)
  BY <1>4
<1>19. pc' = "commit" => next' = next /\ runner.active /\ mode # "all" /\ ~fake
  BY <1>4, <1>6, <1>14, <1>18 DEF CommitsEach
<1>20. pc' = "loop" => next' = next + 1 /\ (runner.active <=> mode = "all")
  <2>1. SUFFICES ASSUME pc' = "loop" PROVE next' = next + 1 /\ (runner.active <=> mode = "all")
    OBVIOUS
  <2>2. next' = next + 1 /\ ~(~fake /\ CommitsEach(m))
    BY <1>4, <2>1
  <2>3. ~fake /\ OwnTransaction(m) => ~started
    BY <2>2 DEF CommitsEach
  <2> QED BY <1>6, <1>7, <2>2, <2>3
\* What is to be shown of either case.
<1> DEFINE Done == /\ DataFacts' /\ schema' \subseteq Migrations /\ records \subseteq records'
                   /\ a.ok => (Added \cup Inserted(WorkOf(session)))' = 1..next
                   /\ a.ok => Paired(WorkOf(session), {})'
                   /\ a.ok => WorkOf(session)' \subseteq {"up", "record"} \X ToSet(pending)
                   /\ vendor = "postgres" /\ mode = "all" =>
                        records' = records /\ Added' = Added
                   /\ a.ok => \A n \in Migrations \ doubtful' :
                        <<"record", n>> \in WorkOf(session)' =>
                          n \in schema' \/ <<"up", n>> \in WorkOf(session)'
<1>21. ASSUME runner.active PROVE Done
  <2>1. schema' = schema /\ records' = records
    BY <1>9, <1>10, <1>21, NothingDurable
  <2>2. DataFacts' /\ Added' = Added
    BY <1>1, <1>2, <1>3, <1>15, <2>1, DataKept
  <2>3. ASSUME a.ok PROVE WorkOf(session)' = U
    BY <1>10, <1>13, <1>21, <2>3
  <2>4. ASSUME a.ok PROVE (Added \cup Inserted(WorkOf(session)))' = 1..next
    <3>1. Inserted(WorkOf(session))' = Inserted(U)
      BY <1>2, <2>3, <2>4 DEF Inserted
    <3>2. Added \cup (Inserted(W) \cup {next}) = 1..next
      BY <1>7, <1>16
    <3> QED BY <1>12, <2>2, <3>1, <3>2
  <2>5. ASSUME a.ok PROVE Paired(WorkOf(session), {})'
    <3>1. \A n \in Migrations \ loose' : <<"up", n>> \in U <=> <<"record", n>> \in U
      <4>1. TAKE n \in Migrations \ loose'
      <4>2. CASE n = m
        <5>1. ~fake /\ m \notin loose
          BY <1>2, <4>2
        <5>2. <<"up", m>> \in W
          BY <1>6, <5>1
        <5> QED BY <4>2, <5>2 DEF U, w
      <4>3. CASE n # m
        <5>1. <<"up", n>> \in W <=> <<"record", n>> \in W
          BY <1>6, <1>15, <4>3 DEF Paired
        <5>2. /\ <<"up", n>> \in U <=> <<"up", n>> \in W
              /\ <<"record", n>> \in U <=> <<"record", n>> \in W
          BY <4>3 DEF U, w
        <5> QED BY <5>1, <5>2
      <4> QED BY <4>2, <4>3
    <3> QED BY <2>3, <2>5, <3>1 DEF Paired
  <2>6. \A n \in Migrations \ doubtful' :
          <<"record", n>> \in U => n \in schema' \/ <<"up", n>> \in U
    <3>1. TAKE n \in Migrations \ doubtful'
    <3>2. CASE n = m
      <4>1. ~fake /\ m \notin doubtful
        BY <1>2, <3>2
      <4> QED BY <1>6, <2>1, <3>2, <4>1 DEF U
    <3>3. CASE n # m
      <4>1. <<"record", n>> \in U => <<"record", n>> \in W
        BY <3>3 DEF U, w
      <4>2. n \in Migrations \ doubtful
        BY <1>15
      <4> QED BY <1>7, <2>1, <4>1, <4>2 DEF U
    <3> QED BY <3>2, <3>3
  <2>7. a.ok => \A n \in Migrations \ doubtful' :
          <<"record", n>> \in WorkOf(session)' => n \in schema' \/ <<"up", n>> \in WorkOf(session)'
    BY <2>3, <2>6
  <2>8. a.ok => WorkOf(session)' \subseteq {"up", "record"} \X ToSet(pending)
    BY <1>12, <2>3
  <2> QED BY <1>5, <2>1, <2>2, <2>4, <2>5, <2>7, <2>8
<1>22. ASSUME ~runner.active PROVE Done
  <2> DEFINE ws == a.durable
  <2>1. W = {}
    BY <1>7, <1>22, WorkOfShallow DEF IsSound, W
  <2>2. mode # "all" /\ (fake \/ ~OwnTransaction(m))
    BY <1>6, <1>22
  <2>3. Durable(ws) /\ ws \in {{}, {w}} /\ (a.ok => ws = {w} /\ WorkOf(session)' = {})
    BY <1>9, <1>10, <1>13, <1>22
  <2> HIDE DEF ws
  <2>4. ws \subseteq {"up", "record"} \X ToSet(pending)
    BY <1>8, <2>3 DEF w
  <2>5. m \in loose'
    BY <1>2, <1>6, <2>1
  <2>6. \A n \in Migrations \ loose' : <<"up", n>> \in ws <=> <<"record", n>> \in ws
    <3>1. \A n : n # m => <<"up", n>> \notin ws /\ <<"record", n>> \notin ws
      BY <2>3 DEF w
    <3> QED BY <2>5, <3>1
  <2>7. \A n \in Migrations \ doubtful' :
          <<"record", n>> \in ws => n \in schema \/ <<"up", n>> \in ws
    <3>1. \A n : <<"record", n>> \in ws => n = m
      BY <2>3 DEF w
    <3>2. m \notin doubtful' => m \in schema
      BY <1>2, <1>6, <2>1
    <3> QED BY <3>1, <3>2
  <2>8. Added = 1..(next - 1)
    BY <1>7, <1>12, <2>1
  <2>9. Added \cup Inserted(ws) = IF ws = {w} THEN 1..next ELSE Added
    BY <1>12, <1>16, <2>3, <2>8
  <2>10. \A i \in Added \cup Inserted(ws), j \in DOMAIN pending :
            j < i => j \in Added \cup Inserted(ws)
    BY <1>16, <1>17, <2>9
  <2>11. /\ DataFacts' /\ Added' = Added \cup Inserted(ws)
         /\ schema' \subseteq Migrations /\ records \subseteq records'
    BY <1>1, <1>2, <1>3, <1>7, <1>15, <2>3, <2>4, <2>6, <2>7, <2>10, DataDone
  <2>12. ASSUME a.ok PROVE (Added \cup Inserted(WorkOf(session)))' = 1..next
    <3>1. Inserted(WorkOf(session))' = {}
      BY <2>3, <2>12 DEF Inserted
    <3> QED BY <2>3, <2>9, <2>11, <2>12, <3>1
  <2>13. a.ok => Paired(WorkOf(session), {})'
    BY <2>3 DEF Paired
  <2> QED BY <2>2, <2>3, <2>11, <2>12, <2>13
<1>23. Done
  BY <1>21, <1>22
<1> HIDE DEF Done
<1>24. pc' = "catch" => runner'.depth \in {0, 1}
  BY <1>2, <1>7 DEF IsSound
<1>25. a.ok => IsSound(vendor, runner, session)'
  BY <1>2, <1>3, <1>9, <1>10 DEF IsSound
<1>26. pc' = "commit" => AtCommit'
  <2>1. SUFFICES ASSUME pc' = "commit" PROVE AtCommit'
    OBVIOUS
  <2>2. a.ok
    BY <1>18, <2>1
  <2>3. Dealt(next)'
    BY <1>2, <1>3, <1>7, <1>19, <1>23, <1>25, <2>1, <2>2 DEF Dealt, Done, ToSet
  <2> QED BY <1>2, <1>3, <1>6, <1>19, <1>23, <2>1, <2>2, <2>3 DEF AtCommit, Done
<1>27. pc' = "loop" => AtLoop'
  <2>1. SUFFICES ASSUME pc' = "loop" PROVE AtLoop'
    OBVIOUS
  <2>2. a.ok
    BY <1>18, <2>1
  <2>3. next' - 1 = next
    BY <1>16, <1>20, <2>1
  <2>4. Dealt(next - 1)'
    BY <1>2, <1>3, <1>7, <1>23, <1>25, <2>2, <2>3 DEF Dealt, Done, ToSet
  <2> QED BY <1>2, <1>3, <1>20, <1>23, <2>1, <2>2, <2>4 DEF AtLoop, Done
<1>28. PlaceFacts' /\ pc' \in Places
  BY <1>18, <1>24, <1>26, <1>27 DEF PlaceFacts, Places
<1>29. /\ next' \in 1..(Len(pending) + 1) /\ runner' \in Runners /\ ~runner'.released
       /\ IsShallow(session') /\ started' \in BOOLEAN
  BY <1>1, <1>2, <1>4, <1>5, <1>9, <1>10, <1>16
<1>30. MigrationInv'
  BY <1>2, <1>9, <1>15, <1>23, <1>28, <1>29, StepKeeps DEF Done
<1> QED BY <1>23, <1>30 DEF Done

\* COMMIT of a migration, or of all of them: their work is durable at once.
LEMMA CommitRunKeeps ==
    ASSUME MigrationInv, CommitMigrations, pc # "undoCommit"
    PROVE  /\ MigrationInv' /\ task = "run" /\ records \subseteq records'
           /\ vendor = "postgres" /\ mode = "all" /\ records' # records =>
                pending # <<>> /\ Added = {} /\ Added' = DOMAIN pending
<1> DEFINE W == WorkOf(session)
           n == IF pc = "commit" THEN next ELSE next - 1
<1>1. /\ TypeOK /\ DataFacts /\ IsShallow(session) /\ ~runner.released
      /\ \/ pc = "commit" /\ AtCommit
         \/ pc = "commitAll" /\ AtCommitAll
  BY DEF MigrationInv, LastingFacts, PlaceFacts, CommitMigrations
<1>2. UNCHANGED <<codeVars, base, pending, started, loose, doubtful, runs>>
  BY DEF CommitMigrations
<1>3. UNCHANGED <<vendor, override, known, task, mode, fake>>
  BY <1>2 DEF codeVars
<1>4. PICK o \in Undisturbed(CommitTransaction(vendor, runner, session)) :
        /\ Answered(o)
        /\ runner' = o.runner
        /\ pc' = IF ~o.ok THEN "catch" ELSE IF pc = "commit" THEN "loop" ELSE "release"
        /\ next' = IF o.ok /\ pc = "commit" THEN next + 1 ELSE next
  BY DEF CommitMigrations
<1>5. /\ vendor \in Vendors /\ runner \in Runners /\ started \in BOOLEAN
      /\ schema \subseteq Migrations /\ loose \subseteq Migrations
      /\ doubtful \subseteq loose /\ next \in 1..(Len(pending) + 1)
      /\ DOMAIN pending = 1..Len(pending) /\ Len(pending) \in Nat
  BY <1>1 DEF TypeOK
<1>6. /\ Dealt(n) /\ Paired(W, {}) /\ runner.active
      /\ pc = "commit" => next <= Len(pending) /\ mode # "all"
      /\ pc = "commitAll" => next = Len(pending) + 1 /\ mode = "all"
  BY <1>1 DEF AtCommit, AtCommitAll
<1>7. /\ n \in 0..Len(pending) /\ n \in Nat
      /\ pc = "commitAll" => n = Len(pending)
      /\ o.ok => next' - 1 = n
      /\ next' \in 1..(Len(pending) + 1)
  <2>1. pc = "commit" \/ pc = "commitAll"
    BY <1>1
  <2>2. CASE pc = "commit"
    <3>1. n = next /\ next <= Len(pending) /\ next \in Nat /\ next >= 1
      BY <1>5, <1>6, <2>2
    <3>2. next' = IF o.ok THEN next + 1 ELSE next
      BY <1>4, <2>2
    <3> HIDE DEF n
    <3> QED BY <1>5, <2>2, <3>1, <3>2
  <2>3. CASE pc = "commitAll"
    <3>1. n = next - 1 /\ next = Len(pending) + 1
      BY <1>6, <2>3
    <3>2. next' = next
      BY <1>4, <2>3
    <3> HIDE DEF n
    <3> QED BY <1>5, <3>1, <3>2
  <2> QED BY <2>1, <2>2, <2>3
<1> HIDE DEF n
<1>8. n \in Nat
  BY <1>7
<1>9. /\ task = "run" /\ pending # <<>> /\ IsSound(vendor, runner, session)
      /\ Added \cup Inserted(W) = 1..n
      /\ W \subseteq {"up", "record"} \X ToSet(pending)
      /\ mode = "all" => \A i \in DOMAIN pending : override[pending[i]] = "default"
      /\ vendor = "postgres" /\ mode = "all" => Added = {}
      /\ \A m \in Migrations \ doubtful :
           <<"record", m>> \in W => m \in schema \/ <<"up", m>> \in W
  BY <1>6 DEF Dealt
<1>10. faults' \in 0..MaxFaults /\ session' = o.session /\ Durable(o.durable)
  BY <1>1, <1>4, AnswerCounted
<1>11. /\ IsShallow(o.session)
       /\ o.runner \in Runners /\ ~o.runner.released /\ o.runner.depth \in {0, 1}
       /\ IF o.ok THEN o.durable = W ELSE o.durable \in {{}, W}
       /\ o.ok => /\ IsSound(vendor, o.runner, o.session) /\ ~o.runner.active
                  /\ WorkOf(o.session) = {}
  BY <1>1, <1>5, <1>6, <1>9, CommitAnswers
<1>12. WorkOf(session)' = WorkOf(o.session)
  BY <1>10 DEF WorkOf
<1>13. Inserted({}) = {}
  BY DEF Inserted
<1> DEFINE ws == o.durable
<1>14. ws \in {{}, W} /\ Durable(ws) /\ (o.ok => ws = W)
  BY <1>10, <1>11
<1> HIDE DEF W, ws
<1>15. /\ ws \subseteq {"up", "record"} \X ToSet(pending)
       /\ \A m \in Migrations \ loose' : <<"up", m>> \in ws <=> <<"record", m>> \in ws
       /\ \A m \in Migrations \ doubtful' :
            <<"record", m>> \in ws => m \in schema \/ <<"up", m>> \in ws
  <2>1. \A m \in Migrations \ loose' : <<"up", m>> \in W <=> <<"record", m>> \in W
    BY <1>2, <1>6 DEF Paired
  <2> QED BY <1>2, <1>9, <1>14, <2>1
<1>16. Added \cup Inserted(ws) = IF ws = W THEN 1..n ELSE Added
  BY <1>9, <1>13, <1>14
<1>17. \A i \in Added \cup Inserted(ws), j \in DOMAIN pending :
         j < i => j \in Added \cup Inserted(ws)
  <2>1. \A i \in Added, j \in DOMAIN pending : j < i => j \in Added
    BY <1>1, <1>9 DEF DataFacts, RecordFacts
  <2>2. \A i \in 1..n, j \in DOMAIN pending : j < i => j \in 1..n
    BY <1>5, <1>8
  <2> QED BY <1>16, <2>1, <2>2
<1>18. /\ DataFacts' /\ Added' = Added \cup Inserted(ws)
       /\ schema' \subseteq Migrations /\ records \subseteq records'
  <2>1. loose \subseteq loose' /\ doubtful \subseteq doubtful'
    BY <1>2
  <2> QED BY <1>1, <1>2, <1>3, <1>9, <1>14, <1>15, <1>17, <2>1, DataDone
<1>19. ASSUME o.ok
       PROVE  /\ WorkOf(session)' = {} /\ Added' = 1..n
              /\ Inserted(WorkOf(session))' = {}
              /\ IsSound(vendor, runner, session)' /\ ~runner'.active
  <2>1. WorkOf(session)' = {}
    BY <1>11, <1>12, <1>19
  <2>2. Inserted(WorkOf(session))' = {}
    BY <2>1 DEF Inserted
  <2>3. IsSound(vendor, runner, session)' /\ ~runner'.active
    BY <1>3, <1>4, <1>10, <1>11, <1>19 DEF IsSound
  <2> QED BY <1>14, <1>16, <1>18, <1>19, <2>1, <2>2, <2>3
<1>20. pc' = "loop" => AtLoop'
  <2>1. SUFFICES ASSUME pc' = "loop" PROVE AtLoop'
    OBVIOUS
  <2>2. o.ok /\ pc = "commit"
    BY <1>4, <2>1
  <2>3. next' - 1 = n /\ mode' # "all"
    BY <1>3, <1>6, <1>7, <2>2
  <2>4. (Added \cup Inserted(WorkOf(session)) = 1..(next - 1))'
    BY <1>19, <2>2, <2>3
  <2>5. Dealt(next - 1)'
    BY <1>2, <1>3, <1>9, <1>19, <2>2, <2>3, <2>4 DEF Dealt
  <2>6. Paired(WorkOf(session), {})'
    BY <1>19, <2>2 DEF Paired
  <2> QED BY <1>19, <2>2, <2>3, <2>5, <2>6 DEF AtLoop
<1>21. pc' = "release" => AtEnd'
  <2>1. SUFFICES ASSUME pc' = "release" PROVE AtEnd'
    OBVIOUS
  <2>2. o.ok /\ pc = "commitAll"
    BY <1>1, <1>4, <2>1
  <2>3. Added' = DOMAIN pending'
    BY <1>2, <1>5, <1>7, <1>19, <2>2
  <2> QED BY <1>3, <1>9, <2>3 DEF AtEnd
<1>22. pc' = "catch" => runner'.depth \in {0, 1}
  BY <1>4, <1>11
<1>23. pc' \in {"catch", "loop", "release"}
  BY <1>4
<1>24. PlaceFacts' /\ pc' \in Places
  BY <1>20, <1>21, <1>22, <1>23 DEF PlaceFacts, Places
<1>25. /\ runner' \in Runners /\ ~runner'.released /\ IsShallow(session')
       /\ started' \in BOOLEAN /\ loose' \subseteq Migrations /\ doubtful' \subseteq loose'
  BY <1>2, <1>4, <1>5, <1>10, <1>11
<1>26. MigrationInv'
  BY <1>2, <1>7, <1>10, <1>18, <1>24, <1>25, StepKeeps
<1>27. vendor = "postgres" /\ mode = "all" /\ records' # records =>
         Added = {} /\ Added' = DOMAIN pending
  <2>1. SUFFICES ASSUME vendor = "postgres", mode = "all", records' # records
                 PROVE  Added = {} /\ Added' = DOMAIN pending
    OBVIOUS
  <2>2. pc = "commitAll" /\ n = Len(pending)
    BY <1>1, <1>6, <1>7, <2>1
  <2>3. ws = W
    <3>1. SUFFICES ASSUME ws = {} PROVE FALSE
      BY <1>14
    <3>2. Durable({})
      BY <1>14, <3>1
    <3> QED BY <2>1, <3>2, NothingDurable
  <2> QED BY <1>5, <1>9, <1>16, <1>18, <2>1, <2>2, <2>3
<1> QED BY <1>9, <1>18, <1>26, <1>27

\* A step of undoLastMigration may take the last row away and no other.
OnlyLastGoes ==
    records' = records \/ (records = base /\ records' = base \ {LastRow(base)})

\* The one migration that is undone.
LEMMA UndoingIs ==
    ASSUME TypeOK, DataFacts, Undoing
    PROVE  /\ pending = <<Current>> /\ Current \in Migrations
           /\ next <= Len(pending) /\ base # {}
           /\ \A way \in {"up", "record", "down", "erase"} : <<way, Current>> \in Work
<1>1. base # {} /\ pending = <<LastRow(base).migration>> /\ next = 1
  BY DEF DataFacts, PendingFacts, Undoing
<1>2. Current = LastRow(base).migration
  BY <1>1 DEF Current
<1>3. Len(pending) = 1
  BY <1>1
<1> QED BY <1>1, <1>2, <1>3, CurrentIs

\* COMMIT of the reversal.
LEMMA CommitUndoKeeps ==
    ASSUME MigrationInv, CommitMigrations, pc = "undoCommit"
    PROVE  MigrationInv' /\ OnlyLastGoes /\ task = "undo"
<1> DEFINE m == Current
           W == WorkOf(session)
<1>1. TypeOK /\ DataFacts /\ AtUndoCommit /\ IsShallow(session) /\ ~runner.released
  BY DEF MigrationInv, LastingFacts, PlaceFacts
<1>2. UNCHANGED <<codeVars, base, pending, started, loose, doubtful, runs>>
  BY DEF CommitMigrations
<1>3. UNCHANGED <<vendor, override, known, task, mode, fake>>
  BY <1>2 DEF codeVars
<1>4. PICK o \in Undisturbed(CommitTransaction(vendor, runner, session)) :
        /\ Answered(o)
        /\ runner' = o.runner
        /\ pc' = IF ~o.ok THEN "catch" ELSE "release"
        /\ next' = next
  BY DEF CommitMigrations
<1>5. /\ vendor \in Vendors /\ runner \in Runners /\ started \in BOOLEAN
      /\ schema \subseteq Migrations /\ loose \subseteq Migrations
      /\ doubtful \subseteq loose /\ next \in 1..(Len(pending) + 1)
  BY <1>1 DEF TypeOK
<1>6. /\ Undoing /\ runner.active
      /\ W \subseteq {"down", "erase"} \X {m}
      /\ <<"erase", m>> \in W
      /\ <<"down", m>> \in W \/ m \in doubtful
  BY <1>1 DEF AtUndoCommit
<1>7. /\ task = "undo" /\ pending # <<>> /\ records = base
      /\ IsSound(vendor, runner, session)
  BY <1>6 DEF Undoing
<1>8. pending = <<m>> /\ m \in Migrations
  BY <1>1, <1>6, UndoingIs
<1>9. faults' \in 0..MaxFaults /\ session' = o.session /\ Durable(o.durable)
  BY <1>1, <1>4, AnswerCounted
<1>10. /\ IsShallow(o.session)
       /\ o.runner \in Runners /\ ~o.runner.released /\ o.runner.depth \in {0, 1}
       /\ IF o.ok THEN o.durable = W ELSE o.durable \in {{}, W}
  BY <1>1, <1>5, <1>6, <1>7, CommitAnswers
<1> DEFINE ws == o.durable
<1>11. ws \in {{}, W} /\ Durable(ws) /\ (o.ok => ws = W)
  BY <1>9, <1>10
<1> HIDE DEF m, W, ws
<1>12. /\ ws \subseteq {"down", "erase"} \X {m}
       /\ m \in doubtful' \/ (<<"down", m>> \in ws <=> <<"erase", m>> \in ws)
  BY <1>2, <1>6, <1>11
<1>13. loose \subseteq loose' /\ doubtful \subseteq doubtful' /\ doubtful' \subseteq loose'
  BY <1>2, <1>5
<1>14. /\ DataFacts'
       /\ records' = IF <<"erase", m>> \in ws THEN base \ {LastRow(base)} ELSE base
       /\ schema' \subseteq schema
  BY <1>1, <1>2, <1>3, <1>7, <1>8, <1>11, <1>12, <1>13, DataUndone
<1>15. pc' = "release" => AtEnd'
  <2>1. SUFFICES ASSUME pc' = "release" PROVE AtEnd'
    OBVIOUS
  <2>2. records' = base \ {LastRow(base)}
    BY <1>4, <1>6, <1>11, <1>14, <2>1
  <2>3. LastRow(base)' = LastRow(base)
    BY <1>2 DEF LastRow
  <2> QED BY <1>2, <1>3, <1>7, <2>2, <2>3 DEF AtEnd
<1>16. PlaceFacts' /\ pc' \in Places
  BY <1>4, <1>10, <1>15 DEF PlaceFacts, Places
<1>17. /\ runner' \in Runners /\ ~runner'.released /\ IsShallow(session')
       /\ started' \in BOOLEAN /\ loose' \subseteq Migrations
       /\ schema' \subseteq Migrations /\ next' \in 1..(Len(pending) + 1)
  BY <1>2, <1>4, <1>5, <1>9, <1>10, <1>14
<1>18. MigrationInv'
  BY <1>2, <1>9, <1>13, <1>14, <1>16, <1>17, StepKeeps
<1> QED BY <1>7, <1>14, <1>18 DEF OnlyLastGoes

\* down: its work is that of the transaction, or durable at once.
LEMMA DownKeeps ==
    ASSUME MigrationInv, Down
    PROVE  MigrationInv' /\ records' = records
<1> DEFINE m == Current
           w == <<"down", m>>
<1>1. TypeOK /\ DataFacts /\ AtDown /\ pc = "down" /\ IsShallow(session) /\ ~runner.released
  BY DEF MigrationInv, LastingFacts, PlaceFacts, Down
<1>2. UNCHANGED <<codeVars, base, pending, next, runner, started, runs>>
  BY DEF Down
<1>3. UNCHANGED <<vendor, override, known, task, mode, fake>>
  BY <1>2 DEF codeVars
<1>4. /\ vendor \in Vendors /\ runner \in Runners /\ started \in BOOLEAN
      /\ schema \subseteq Migrations /\ loose \subseteq Migrations
      /\ doubtful \subseteq loose /\ next \in 1..(Len(pending) + 1)
      /\ faults \in 0..MaxFaults
  BY <1>1 DEF TypeOK
<1>5. /\ Undoing /\ WorkOf(session) = {}
      /\ task = "undo" /\ pending # <<>> /\ next = 1 /\ records = base
      /\ IsSound(vendor, runner, session)
      /\ runner.active <=> started
  BY <1>1 DEF AtDown, Undoing
<1>6. pending = <<m>> /\ m \in Migrations /\ w \in Work
  BY <1>1, <1>5, UndoingIs
<1>7. m' = m
  BY <1>2 DEF Current
<1> HIDE DEF m
\* What is left to show of each case.
<1> DEFINE Done == /\ DataFacts' /\ records' = records /\ schema' \subseteq Migrations
                   /\ loose' \subseteq Migrations /\ doubtful' \subseteq loose'
                   /\ faults' \in 0..MaxFaults /\ IsShallow(session')
                   /\ pc' \in {"erase", "catch"}
                   /\ pc' = "erase" =>
                        /\ IsSound(vendor, runner, session)'
                        /\ WorkOf(session)' \subseteq {w}
                        /\ fake \/ w \in WorkOf(session)' \/ m \in doubtful'
<1>8. ASSUME fake, pc' = "erase", UNCHANGED <<session, dbVars, faults, loose, doubtful>>
      PROVE  Done
  <2>1. schema' = schema /\ records' = records
    BY <1>8 DEF dbVars
  <2>2. DataFacts'
    BY <1>1, <1>2, <1>3, <1>8, <2>1, DataKept
  <2>3. IsSound(vendor, runner, session)' /\ WorkOf(session)' = {} /\ IsShallow(session')
    BY <1>1, <1>2, <1>3, <1>5, <1>8 DEF IsSound, WorkOf
  <2> QED BY <1>4, <1>8, <2>1, <2>2, <2>3
<1>9. ASSUME ~fake, NEW a \in ChangeSchema(w), Answered(a),
             pc' = IF a.ok THEN "erase" ELSE "catch",
             loose' = Loosely(m), doubtful' = doubtful \cup (loose' \cap {m})
      PROVE  Done
  <2>1. faults' \in 0..MaxFaults /\ session' = a.session /\ Durable(a.durable)
    BY <1>1, <1>9, AnswerCounted
  <2>2. /\ IsShallow(a.session)
        /\ a.ok => IsSound(vendor, runner, a.session)
        /\ vendor = "postgres" /\ runner.active =>
             /\ a.durable = {}
             /\ a.ok => WorkOf(a.session) = WorkOf(session) \cup {w}
        /\ ~(vendor = "postgres" /\ runner.active) =>
             /\ a.durable \in {{}, WorkOf(session), WorkOf(session) \cup {w}}
             /\ a.ok => /\ a.durable = WorkOf(session) \cup {w}
                        /\ WorkOf(a.session) = {}
    BY <1>1, <1>4, <1>5, <1>6, <1>9, ChangeSchemaAnswers
  <2>3. WorkOf(session)' = WorkOf(a.session)
    BY <2>1 DEF WorkOf
  <2>4. a.ok => IsSound(vendor, runner, session)'
    BY <1>2, <1>3, <2>1, <2>2 DEF IsSound
  <2>5. /\ loose \subseteq loose' /\ loose' \subseteq Migrations
        /\ doubtful \subseteq doubtful' /\ doubtful' \subseteq loose'
    BY <1>4, <1>6, <1>9 DEF Loosely
  <2>6. {} \cup {w} = {w}
    OBVIOUS
  <2>7. CASE vendor = "postgres" /\ runner.active
    <3>1. schema' = schema /\ records' = records
      BY <2>1, <2>2, <2>7, NothingDurable
    <3>2. DataFacts'
      BY <1>1, <1>2, <1>3, <2>5, <3>1, DataKept
    <3>3. a.ok => WorkOf(session)' = {w}
      BY <1>5, <2>2, <2>3, <2>6, <2>7
    <3> QED BY <1>4, <1>9, <2>1, <2>2, <2>4, <2>5, <3>1, <3>2, <3>3
  <2>8. CASE ~(vendor = "postgres" /\ runner.active)
    <3>1. m \in doubtful'
      BY <1>4, <1>9, <2>8 DEF Loosely, Vendors
    <3> DEFINE ws == a.durable
    <3>2. ws \in {{}, {w}} /\ Durable(ws)
      BY <1>5, <2>1, <2>2, <2>6, <2>8
    <3> HIDE DEF ws
    <3>3. ws \subseteq {"down", "erase"} \X {m} /\ <<"erase", m>> \notin ws
      BY <3>2
    <3>4. DataFacts' /\ records' = base /\ schema' \subseteq schema
      BY <1>1, <1>2, <1>3, <1>5, <1>6, <2>5, <3>1, <3>2, <3>3, DataUndone
    <3>5. a.ok => WorkOf(session)' = {}
      BY <2>2, <2>3, <2>8
    <3> QED BY <1>4, <1>5, <1>9, <2>1, <2>2, <2>4, <2>5, <3>1, <3>4, <3>5
  <2> QED BY <2>7, <2>8
<1>10. Done
  BY <1>8, <1>9 DEF Down, m
<1> HIDE DEF Done
<1>11. pc' = "erase" => AtErase'
  <2>1. SUFFICES ASSUME pc' = "erase" PROVE AtErase'
    OBVIOUS
  <2>2. Undoing'
    BY <1>2, <1>3, <1>5, <1>10, <2>1 DEF Undoing, Done
  <2>3. WorkOf(session)' \subseteq {<<"down", Current'>>}
        /\ (fake' \/ <<"down", Current'>> \in WorkOf(session)' \/ Current' \in doubtful')
    BY <1>3, <1>7, <1>10, <2>1 DEF Done, m
  <2> QED BY <2>2, <2>3 DEF AtErase
<1>12. runner'.depth \in {0, 1}
  BY <1>2, <1>5 DEF IsSound
<1>13. PlaceFacts' /\ pc' \in Places
  BY <1>10, <1>11, <1>12 DEF PlaceFacts, Places, Done
<1>14. MigrationInv'
  BY <1>1, <1>2, <1>4, <1>10, <1>13, StepKeeps DEF Done
<1> QED BY <1>10, <1>14 DEF Done

\* deleteExecutedMigration, which a COMMIT follows in a transaction.
LEMMA EraseKeeps ==
    ASSUME MigrationInv, Erase
    PROVE  MigrationInv' /\ OnlyLastGoes /\ task = "undo"
<1> DEFINE m == Current
           W == WorkOf(session)
           w == <<"erase", m>>
<1>1. TypeOK /\ DataFacts /\ AtErase /\ pc = "erase" /\ IsShallow(session) /\ ~runner.released
  BY DEF MigrationInv, LastingFacts, PlaceFacts, Erase
<1>2. UNCHANGED <<codeVars, base, pending, next, runner, started, runs>>
      /\ loose' = (IF fake THEN loose \cup {m} ELSE loose)
      /\ doubtful' = (IF fake THEN doubtful \cup {m} ELSE doubtful)
  BY DEF Erase
<1>3. UNCHANGED <<vendor, override, known, task, mode, fake>>
  BY <1>2 DEF codeVars
<1>4. PICK a \in DeleteExecutedMigration(m) :
        /\ Answered(a)
        /\ pc' = IF ~a.ok THEN "catch" ELSE IF started THEN "undoCommit" ELSE "release"
  BY DEF Erase
<1>5. /\ vendor \in Vendors /\ runner \in Runners /\ started \in BOOLEAN
      /\ schema \subseteq Migrations /\ loose \subseteq Migrations
      /\ doubtful \subseteq loose /\ next \in 1..(Len(pending) + 1)
  BY <1>1 DEF TypeOK
<1>6. /\ Undoing /\ W \subseteq {<<"down", m>>}
      /\ ~fake => <<"down", m>> \in W \/ m \in doubtful
  BY <1>1 DEF AtErase
<1>7. /\ task = "undo" /\ pending # <<>> /\ next = 1 /\ records = base
      /\ IsSound(vendor, runner, session)
      /\ runner.active <=> started
  BY <1>6 DEF Undoing
<1>8. pending = <<m>> /\ m \in Migrations /\ w \in Work
  BY <1>1, <1>6, UndoingIs
<1>9. m' = m
  BY <1>2 DEF Current
<1>10. faults' \in 0..MaxFaults /\ session' = a.session /\ Durable(a.durable)
  BY <1>1, <1>4, AnswerCounted
<1>11. /\ IsShallow(a.session)
       /\ a.ok => IsSound(vendor, runner, a.session)
       /\ runner.active => /\ a.durable = {}
                           /\ a.ok => WorkOf(a.session) = W \cup {w}
       /\ ~runner.active => IF a.ok THEN a.durable = {w} ELSE a.durable \in {{}, {w}}
  BY <1>1, <1>4, <1>5, <1>7, <1>8, ExecuteAnswers DEF DeleteExecutedMigration
<1>12. WorkOf(session)' = WorkOf(a.session)
  BY <1>10 DEF WorkOf
<1>13. a.ok => IsSound(vendor, runner, session)'
  BY <1>2, <1>3, <1>10, <1>11 DEF IsSound
<1>14. /\ loose \subseteq loose' /\ doubtful \subseteq doubtful'
       /\ loose' \subseteq Migrations /\ doubtful' \subseteq loose'
  BY <1>2, <1>5, <1>8
<1>15. <<"down", m>> \in W \/ m \in doubtful'
  BY <1>2, <1>6
<1> HIDE DEF m, W
\* What is left to show of each case.
<1> DEFINE Done == /\ DataFacts' /\ OnlyLastGoes /\ schema' \subseteq Migrations
                   /\ pc' = "undoCommit" => AtUndoCommit'
                   /\ pc' = "release" => AtEnd'
<1>16. ASSUME runner.active PROVE Done
  <2>1. schema' = schema /\ records' = records
    BY <1>10, <1>11, <1>16, NothingDurable
  <2>2. DataFacts'
    BY <1>1, <1>2, <1>3, <1>14, <2>1, DataKept
  <2>3. pc' # "release"
    BY <1>4, <1>7, <1>16
  <2>4. pc' = "undoCommit" => AtUndoCommit'
    <3>1. SUFFICES ASSUME pc' = "undoCommit" PROVE AtUndoCommit'
      OBVIOUS
    <3>2. a.ok
      BY <1>4, <3>1
    <3>3. WorkOf(session)' = W \cup {w}
      BY <1>11, <1>12, <1>16, <3>2
    <3>4. Undoing' /\ runner'.active
      BY <1>2, <1>3, <1>7, <1>13, <1>16, <2>1, <3>2 DEF Undoing
    <3>5. /\ W \cup {w} \subseteq {"down", "erase"} \X {m}
          /\ <<"erase", m>> \in W \cup {w}
          /\ <<"down", m>> \in W \cup {w} \/ m \in doubtful'
      BY <1>6, <1>15
    <3>6. /\ WorkOf(session)' \subseteq {"down", "erase"} \X {Current'}
          /\ <<"erase", Current'>> \in WorkOf(session)'
          /\ <<"down", Current'>> \in WorkOf(session)' \/ Current' \in doubtful'
      BY <1>9, <3>3, <3>5 DEF m
    <3> QED BY <3>4, <3>6 DEF AtUndoCommit
  <2> QED BY <1>5, <2>1, <2>2, <2>3, <2>4 DEF OnlyLastGoes
<1>17. ASSUME ~runner.active PROVE Done
  <2>1. W = {}
    BY <1>7, <1>17, WorkOfShallow DEF IsSound, W
  <2>2. m \in doubtful'
    BY <1>15, <2>1
  <2> DEFINE ws == a.durable
  <2>3. ws \in {{}, {w}} /\ Durable(ws) /\ (a.ok => ws = {w})
    BY <1>10, <1>11, <1>17
  <2> HIDE DEF ws
  <2>4. ws \subseteq {"down", "erase"} \X {m}
    BY <2>3
  <2>5. /\ DataFacts'
        /\ records' = IF <<"erase", m>> \in ws THEN base \ {LastRow(base)} ELSE base
        /\ schema' \subseteq schema
    BY <1>1, <1>2, <1>3, <1>7, <1>8, <1>14, <2>2, <2>3, <2>4, DataUndone
  <2>6. pc' # "undoCommit"
    BY <1>4, <1>7, <1>17
  <2>7. pc' = "release" => AtEnd'
    <3>1. SUFFICES ASSUME pc' = "release" PROVE AtEnd'
      OBVIOUS
    <3>2. ws = {w}
      BY <1>4, <2>3, <3>1
    <3>3. records' = base \ {LastRow(base)}
      BY <2>5, <3>2
    <3>4. LastRow(base)' = LastRow(base)
      BY <1>2 DEF LastRow
    <3> QED BY <1>2, <1>3, <1>7, <3>3, <3>4 DEF AtEnd
  <2>8. OnlyLastGoes
    BY <1>7, <2>5 DEF OnlyLastGoes
  <2> QED BY <1>5, <2>5, <2>6, <2>7, <2>8
<1>18. Done
  BY <1>16, <1>17
<1> HIDE DEF Done
<1>19. runner'.depth \in {0, 1}
  BY <1>2, <1>7 DEF IsSound
<1>20. pc' \in {"catch", "undoCommit", "release"}
  BY <1>4
<1>21. PlaceFacts' /\ pc' \in Places
  BY <1>18, <1>19, <1>20 DEF PlaceFacts, Places, Done
<1>22. IsShallow(session') /\ ~runner'.released
  BY <1>1, <1>2, <1>10, <1>11
<1>23. MigrationInv'
  BY <1>2, <1>5, <1>10, <1>14, <1>18, <1>21, <1>22, StepKeeps DEF Done
<1> QED BY <1>7, <1>18, <1>23 DEF Done

\* The catch block rolls back what is not committed yet.
LEMMA CatchKeeps ==
    ASSUME MigrationInv, Catch
    PROVE  MigrationInv' /\ records' = records
<1>1. /\ TypeOK /\ DataFacts /\ pc = "catch" /\ IsShallow(session) /\ ~runner.released
      /\ runner.depth \in {0, 1}
  BY DEF MigrationInv, LastingFacts, PlaceFacts, Catch
<1>2. /\ UNCHANGED <<codeVars, base, pending, next, started, loose, doubtful, runs>>
      /\ pc' = "idle"
  BY DEF Catch
<1>3. UNCHANGED <<vendor, override, known, task, mode, fake>>
  BY <1>2 DEF codeVars
<1>4. /\ vendor \in Vendors /\ runner \in Runners /\ started \in BOOLEAN
      /\ schema \subseteq Migrations /\ loose \subseteq Migrations
      /\ doubtful \subseteq loose /\ next \in 1..(Len(pending) + 1)
      /\ faults \in 0..MaxFaults
  BY <1>1 DEF TypeOK
<1>5. /\ schema' = schema /\ records' = records /\ faults' \in 0..MaxFaults
      /\ runner' \in Runners /\ ~runner'.released /\ IsShallow(session')
  <2>1. CASE \E o \in Undisturbed(RollbackTransaction(vendor, runner, session)) :
               Answered(o) /\ runner' = o.runner
    <3>1. PICK o \in Undisturbed(RollbackTransaction(vendor, runner, session)) :
            Answered(o) /\ runner' = o.runner
      BY <2>1
    <3>2. /\ IsShallow(o.session) /\ o.durable = {}
          /\ o.runner \in Runners /\ ~o.runner.released
      BY <1>1, <1>4, RollbackAnswers
    <3>3. faults' \in 0..MaxFaults /\ session' = o.session /\ Durable(o.durable)
      BY <1>1, <3>1, AnswerCounted
    <3>4. schema' = schema /\ records' = records
      BY <3>2, <3>3, NothingDurable
    <3> QED BY <3>1, <3>2, <3>3, <3>4
  <2>2. CASE UNCHANGED <<runner, session, dbVars, faults>>
    BY <1>1, <1>4, <2>2 DEF dbVars
  <2> QED BY <2>1, <2>2 DEF Catch
<1>6. DataFacts'
  BY <1>1, <1>2, <1>3, <1>5, DataKept
<1>7. PlaceFacts' /\ pc' \in Places
  BY <1>2 DEF PlaceFacts, Places
<1>8. MigrationInv'
  BY <1>2, <1>4, <1>5, <1>6, <1>7, StepKeeps
<1> QED BY <1>5, <1>8

\* The end of an execution, the return to its caller, and a crash leave the
\* database alone.
LEMMA RestKeeps ==
    ASSUME MigrationInv, Finish \/ Resolved \/ Crash
    PROVE  MigrationInv' /\ records' = records
<1>1. TypeOK /\ DataFacts /\ IsShallow(session) /\ ~runner.released
  BY DEF MigrationInv, LastingFacts
<1>2. UNCHANGED <<codeVars, base, pending, next, runner, started, dbVars, loose,
                  doubtful, runs>>
  BY DEF Finish, Resolved, Crash
<1>3. UNCHANGED <<vendor, override, known, task, mode, fake, schema, records>>
  BY <1>2 DEF codeVars, dbVars
<1>4. /\ runner \in Runners /\ started \in BOOLEAN
      /\ schema \subseteq Migrations /\ loose \subseteq Migrations
      /\ doubtful \subseteq loose /\ next \in 1..(Len(pending) + 1)
      /\ faults \in 0..MaxFaults /\ MaxFaults \in Nat
  BY <1>1, ConstantsAssumption DEF TypeOK
<1>5. DataFacts' /\ Added' = Added
  BY <1>1, <1>2, <1>3, DataKept
<1>6. IsShallow(session')
  BY <1>1, ShallowSessions DEF Finish, Resolved, Crash
<1>7. faults' \in 0..MaxFaults
  BY <1>4 DEF Finish, Resolved, Crash
<1>8. \/ pc = "release" /\ pc' = "resolved"
      \/ pc' = "idle"
  BY DEF Finish, Resolved, Crash
<1>9. pc' = "resolved" => AtEnd'
  <2>1. SUFFICES ASSUME pc' = "resolved" PROVE AtEnd'
    OBVIOUS
  <2>2. AtEnd
    BY <1>8, <2>1 DEF MigrationInv, PlaceFacts
  <2>3. LastRow(base)' = LastRow(base)
    BY <1>2 DEF LastRow
  <2> QED BY <1>2, <1>3, <1>5, <2>2, <2>3 DEF AtEnd
<1>10. PlaceFacts' /\ pc' \in Places
  BY <1>8, <1>9 DEF PlaceFacts, Places
<1>11. MigrationInv'
  BY <1>1, <1>2, <1>3, <1>4, <1>5, <1>6, <1>7, <1>10, StepKeeps
<1> QED BY <1>3, <1>11

LEMMA StutterKeeps ==
    ASSUME MigrationInv, UNCHANGED vars
    PROVE  MigrationInv'
<1>1. UNCHANGED <<vendor, override, known, task, mode, fake, pc, base, pending, next,
                  runner, session, started, schema, records, loose, doubtful, runs,
                  faults>>
  BY DEF vars
<1>2. UNCHANGED <<codeVars, base, pending, runs>>
  BY <1>1 DEF codeVars
<1>3. TypeOK /\ DataFacts /\ IsShallow(session) /\ ~runner.released
  BY DEF MigrationInv, LastingFacts
<1>4. DataFacts' /\ Added' = Added
  BY <1>1, <1>3, DataKept
<1>5. \A ws : Inserted(ws)' = Inserted(ws)
  BY <1>1 DEF Inserted
<1>6. /\ WorkOf(session)' = WorkOf(session) /\ Current' = Current
      /\ LastRow(base)' = LastRow(base)
  BY <1>1 DEF WorkOf, Current, LastRow
<1>7. IsSound(vendor, runner, session) => IsSound(vendor, runner, session)'
  BY <1>1 DEF IsSound
<1>8. PlaceFacts'
  BY <1>1, <1>4, <1>5, <1>6, <1>7
     DEF MigrationInv, PlaceFacts, AtPrepare, AtBegin, AtLoop, AtUp, AtRecord,
         AtCommit, AtCommitAll, AtDown, AtErase, AtUndoCommit, AtEnd, Undoing,
         Dealt, Paired, OwnTransaction
<1>9. /\ pc' \in Places /\ next' \in 1..(Len(pending) + 1) /\ runner' \in Runners
      /\ started' \in BOOLEAN /\ schema' \subseteq Migrations
      /\ loose' \subseteq Migrations /\ doubtful' \subseteq loose'
      /\ faults' \in 0..MaxFaults
  BY <1>1, <1>3 DEF TypeOK
<1> QED BY <1>1, <1>2, <1>3, <1>4, <1>8, <1>9, StepKeeps

-----------------------------------------------------------------------------
(* The theorems.                                                           *)

\* Each step keeps the invariant, and it adds rows, or takes the last one
\* away; on PostgreSQL those of the mode "all" come together.
LEMMA NextKeeps ==
    ASSUME MigrationInv, [Next]_vars
    PROVE  /\ MigrationInv'
           /\ records \subseteq records' \/ OnlyLastGoes
           /\ vendor = "postgres" /\ mode = "all" /\ task = "run" /\ records' # records =>
                /\ pending # <<>> /\ Added = {} /\ Added' = DOMAIN pending
                /\ RecordFacts' /\ UNCHANGED <<task, pending, base>>
<1>1. CASE BeginExecution
  <2>1. records' = records
    BY <1>1 DEF BeginExecution, dbVars
  <2> QED BY <1>1, <2>1, BeginKeeps
<1>2. CASE Load
  BY <1>2, LoadKeeps
<1>3. CASE StartOne
  BY <1>3, StartOneKeeps
<1>4. CASE Loop
  BY <1>4, LoopKeeps
<1>5. CASE Up
  BY <1>5, UpKeeps
<1>6. CASE Record
  BY <1>6, RecordKeeps
<1>7. CASE CommitMigrations
  <2>1. UNCHANGED <<task, pending, base>>
    BY <1>7 DEF CommitMigrations, codeVars
  <2>2. CASE pc = "undoCommit"
    BY <1>7, <2>2, CommitUndoKeeps
  <2>3. CASE pc # "undoCommit"
    <3>1. MigrationInv'
      BY <1>7, <2>3, CommitRunKeeps
    <3>2. RecordFacts'
      BY <3>1 DEF MigrationInv, LastingFacts, DataFacts
    <3> QED BY <1>7, <2>1, <2>3, <3>1, <3>2, CommitRunKeeps
  <2> QED BY <2>2, <2>3
<1>8. CASE Down
  BY <1>8, DownKeeps
<1>9. CASE Erase
  BY <1>9, EraseKeeps
<1>10. CASE Catch
  BY <1>10, CatchKeeps
<1>11. CASE Finish \/ Resolved \/ Crash
  BY <1>11, RestKeeps
<1>12. CASE UNCHANGED vars
  <2>1. records' = records
    BY <1>12 DEF vars
  <2> QED BY <1>12, <2>1, StutterKeeps
<1> QED BY <1>1, <1>2, <1>3, <1>4, <1>5, <1>6, <1>7, <1>8, <1>9, <1>10, <1>11, <1>12
        DEF Next

\* Wherever the executor is, whatever failed and whoever crashed: the rows
\* are those that it loaded and those it has added since, in order, and what
\* is not durable yet is work of the open transaction.
THEOREM MigrationInvariant == Spec => []MigrationInv
<1>1. Init => MigrationInv
  BY InitHolds
<1>2. MigrationInv /\ [Next]_vars => MigrationInv'
  BY NextKeeps
<1> QED BY <1>1, <1>2, PTL DEF Spec

\* The variables of MigrationExecutor and of the database keep their types.
THEOREM MigrationTypeCorrect == Spec => []TypeOK
<1>1. MigrationInv => TypeOK
  BY DEF MigrationInv, LastingFacts
<1> QED BY <1>1, MigrationInvariant, PTL

\* A migration whose row is there is in place, and one that was always dealt
\* with in transactions has its row if and only if it is (up and
\* insertExecutedMigration, down and deleteExecutedMigration).
THEOREM SchemaInStep == Spec => []InStep
<1>1. MigrationInv => InStep
  BY DEF MigrationInv, LastingFacts, DataFacts
<1> QED BY <1>1, MigrationInvariant, PTL

\* What the places say of the rows is what RowsInOrder asks for.
LEMMA RowsOfPlaces ==
    ASSUME MigrationInv
    PROVE  RowsInOrder
<1>1. TypeOK /\ DataFacts
  BY DEF MigrationInv, LastingFacts
<1>2. CASE pending = <<>>
  BY <1>2 DEF RowsInOrder
<1>3. CASE pending # <<>> /\ task = "undo"
  <2>1. records \in {base, base \ {LastRow(base)}} /\ base # {}
    BY <1>1, <1>3 DEF DataFacts, RecordFacts, PendingFacts
  <2>2. pc = "resolved" => records = base \ {LastRow(base)}
    BY <1>3 DEF MigrationInv, PlaceFacts, AtEnd
  <2>3. LastRow(base) \in base
    BY <1>1, <2>1, LastRowOfTable DEF DataFacts
  <2> QED BY <1>3, <2>1, <2>2, <2>3 DEF RowsInOrder
<1>4. CASE pending # <<>> /\ task = "run"
  <2> DEFINE due == known \ Executed(base)
             added == records \ base
             H == HighestId(base)
             row(i) == [id |-> H + i, migration |-> pending[i]]
  <2>1. /\ pending \in Seq(Migrations) /\ DOMAIN pending = 1..Len(pending)
        /\ Len(pending) \in Nat
        /\ \A i \in DOMAIN pending : pending[i] \in Migrations
        /\ IsAscending(pending) /\ ToSet(pending) \cap Executed(base) = {}
        /\ \A i, j \in DOMAIN pending : pending[i] = pending[j] => i = j
    BY <1>1, <1>4, PendingIs DEF DataFacts
  <2>2. /\ ToSet(pending) = due
        /\ records = base \cup RowsOf(base, pending, Added)
        /\ \A i \in Added, j \in DOMAIN pending : j < i => j \in Added
    BY <1>1, <1>4 DEF DataFacts, PendingFacts, RecordFacts
  <2>3. IsTable(base) /\ Added \subseteq DOMAIN pending
    BY <1>1 DEF DataFacts, Added
  <2>4. H \in Nat /\ \A r \in base : r.id \in Nat /\ r.id <= H
    BY <2>3, HighestIdOfTable DEF IsTable, Rows
  <2>5. \A x : x \in due <=> \E i \in DOMAIN pending : x = pending[i]
    BY <2>2 DEF ToSet
  <2>6. RowsOf(base, pending, Added) = {row(i) : i \in Added}
    BY DEF RowsOf
  <2> HIDE DEF H
  <2>7. \A i \in DOMAIN pending : row(i).id = H + i /\ row(i).migration = pending[i]
    OBVIOUS
  <2> HIDE DEF row, due, added
  <2>8. \A i \in Added : row(i) \notin base
    BY <2>1, <2>3, <2>4, <2>7
  <2>9. \A r : r \in added <=> \E i \in Added : r = row(i)
    BY <2>2, <2>6, <2>8 DEF added
  <2>10. \A x : x \in Executed(added) <=> \E i \in Added : x = pending[i]
    <3>1. \A x : x \in Executed(added) <=> \E r \in added : x = r.migration
      BY DEF Executed
    <3> QED BY <2>3, <2>7, <2>9, <3>1
  <2>11. base \subseteq records /\ Executed(added) \subseteq due
    BY <2>2, <2>3, <2>5, <2>10
  <2>12. ASSUME NEW m \in Executed(added), NEW n \in due, n < m
         PROVE  n \in Executed(added)
    <3>1. PICK i \in Added : m = pending[i]
      BY <2>10
    <3>2. PICK j \in DOMAIN pending : n = pending[j]
      BY <2>5
    <3>3. j < i
      <4>1. SUFFICES ASSUME ~(j < i) PROVE FALSE
        OBVIOUS
      <4>2. i \in DOMAIN pending /\ i \in Nat /\ j \in Nat
        BY <2>1, <2>3
      <4>3. i = j \/ i < j
        BY <4>1, <4>2
      <4>4. m = n \/ m < n
        BY <2>1, <3>1, <3>2, <4>2, <4>3 DEF IsAscending
      <4>5. m \in Int /\ n \in Int
        BY <2>1, <3>1, <3>2, <4>2 DEF Migrations
      <4> QED BY <2>12, <4>4, <4>5
    <3> QED BY <2>2, <2>10, <3>2, <3>3
  <2>13. \A r \in added, q \in base : q.id < r.id
    BY <2>1, <2>3, <2>4, <2>7, <2>9
  <2>14. \A r, q \in added : q.id < r.id <=> q.migration < r.migration
    <3>1. TAKE r, q \in added
    <3>2. PICK i \in Added, j \in Added : r = row(i) /\ q = row(j)
      BY <2>9
    <3>3. i \in DOMAIN pending /\ j \in DOMAIN pending /\ i \in Nat /\ j \in Nat
      BY <2>1, <2>3
    <3>4. r.id = H + i /\ q.id = H + j /\ r.migration = pending[i] /\ q.migration = pending[j]
      BY <2>7, <3>2, <3>3
    <3>5. pending[i] \in Int /\ pending[j] \in Int
      BY <2>1, <3>3 DEF Migrations
    <3>6. /\ i < j => pending[i] < pending[j]
          /\ j < i => pending[j] < pending[i]
      BY <2>1, <3>3 DEF IsAscending
    <3>7. j < i <=> pending[j] < pending[i]
      <4>1. i < j \/ j < i \/ i = j
        BY <3>3
      <4>2. i = j => pending[i] = pending[j]
        OBVIOUS
      <4> QED BY <3>3, <3>5, <3>6, <4>1, <4>2
    <3>8. q.id < r.id <=> j < i
      BY <2>4, <3>3, <3>4
    <3> QED BY <3>4, <3>7, <3>8
  <2>15. pc = "resolved" => Executed(added) = due
    <3>1. pc = "resolved" => Added = DOMAIN pending
      BY <1>4 DEF MigrationInv, PlaceFacts, AtEnd
    <3> QED BY <2>5, <2>10, <3>1
  <2> QED BY <1>4, <2>11, <2>12, <2>13, <2>14, <2>15 DEF RowsInOrder, due, added
<1> QED BY <1>1, <1>2, <1>3, <1>4 DEF TypeOK

\* executePendingMigrations adds its rows in the order of the timestamps and
\* without gaps, undoLastMigration takes the last one away, and an execution
\* that resolves has done all it had to.
THEOREM RowsStayInOrder == Spec => []RowsInOrder
BY RowsOfPlaces, MigrationInvariant, PTL

\* No step takes away another row than the last (getLatestExecutedMigration).
THEOREM OnlyLastReverted == Spec => LastIsReverted
<1>1. MigrationInv /\ [Next]_vars =>
        [\A r \in records \ records', q \in records : q.id <= r.id]_vars
  <2>1. SUFFICES ASSUME MigrationInv, [Next]_vars,
                        NEW r \in records \ records', NEW q \in records
                 PROVE  q.id <= r.id
    OBVIOUS
  <2>2. OnlyLastGoes
    BY <2>1, NextKeeps
  <2>3. records = base /\ r = LastRow(base) /\ base # {}
    BY <2>1, <2>2 DEF OnlyLastGoes
  <2>4. IsTable(base)
    BY <2>1 DEF MigrationInv, LastingFacts, DataFacts
  <2> QED BY <2>1, <2>3, <2>4, LastRowOfTable
<1> QED BY <1>1, MigrationInvariant, PTL DEF Spec, LastIsReverted

\* On PostgreSQL the rows of the migrations that "all" runs in a single
\* transaction appear together.
THEOREM AllMigrationsOrNone == Spec => AllOrNothing
<1>1. MigrationInv /\ [Next]_vars =>
        [vendor = "postgres" /\ task = "run" /\ mode = "all" /\ records' # records
           => /\ records \subseteq records'
              /\ Executed(records' \ records) = ToSet(pending)]_vars
  <2>1. SUFFICES ASSUME MigrationInv, [Next]_vars, vendor = "postgres", task = "run",
                        mode = "all", records' # records
                 PROVE  /\ records \subseteq records'
                        /\ Executed(records' \ records) = ToSet(pending)
    OBVIOUS
  <2>2. TypeOK /\ DataFacts
    BY <2>1 DEF MigrationInv, LastingFacts
  <2>3. /\ pending # <<>> /\ Added = {} /\ Added' = DOMAIN pending
        /\ RecordFacts' /\ UNCHANGED <<task, pending, base>>
    BY <2>1, NextKeeps
  <2> DEFINE all == base \cup RowsOf(base, pending, DOMAIN pending)
  <2>4. RowsOf(base, pending, {}) = {}
    BY DEF RowsOf
  <2>5. records = base
    BY <2>1, <2>2, <2>3, <2>4 DEF DataFacts, RecordFacts
  <2>6. records' = all
    <3>1. RowsOf(base, pending, Added)' = RowsOf(base', pending', Added')
      BY DEF RowsOf, HighestId
    <3> QED BY <2>1, <2>3, <3>1 DEF RecordFacts
  <2>7. /\ pending \in Seq(Migrations) /\ IsAscending(pending) /\ IsTable(base)
        /\ ToSet(pending) \cap Executed(base) = {}
        /\ {} \subseteq DOMAIN pending /\ DOMAIN pending \subseteq DOMAIN pending
    BY <2>1, <2>2, <2>3, PendingIs DEF DataFacts
  <2>8. \A i \in DOMAIN pending :
          [id |-> HighestId(base) + i, migration |-> pending[i]]
            \in base \cup RowsOf(base, pending, {}) <=> i \in {}
    BY <2>7, RowsAdded
  <2>9. \A r \in RowsOf(base, pending, DOMAIN pending) : r \notin base
    BY <2>4, <2>8 DEF RowsOf
  <2>10. records' \ records = RowsOf(base, pending, DOMAIN pending)
    BY <2>5, <2>6, <2>9
  <2>11. Executed(RowsOf(base, pending, DOMAIN pending)) = ToSet(pending)
    <3> DEFINE R == RowsOf(base, pending, DOMAIN pending)
    <3>1. \A r \in R : \E i \in DOMAIN pending : r.migration = pending[i]
      BY DEF RowsOf
    <3>2. ASSUME NEW i \in DOMAIN pending
          PROVE  \E r \in R : r.migration = pending[i]
      <4> DEFINE row == [id |-> HighestId(base) + i, migration |-> pending[i]]
      <4>1. row \in R /\ row.migration = pending[i]
        BY DEF RowsOf
      <4> QED BY <4>1
    <3> HIDE DEF R
    <3>3. Executed(R) = ToSet(pending)
      BY <3>1, <3>2 DEF Executed, ToSet
    <3> QED BY <3>3 DEF R
  <2> QED BY <2>5, <2>6, <2>10, <2>11
<1> QED BY <1>1, MigrationInvariant, PTL DEF Spec, AllOrNothing

=============================================================================
