--------------------- MODULE TransactionOutcomes_proofs ---------------------
(***************************************************************************)
(* What calls are told of their transactions, for every number of calls,   *)
(* connections, transactions, statements and failures: the work of one     *)
(* that resolved is durable, that of one that was rejected is not and does *)
(* not become so.                                                          *)
(*                                                                         *)
(* The invariant relates the open transaction() calls of a call, each with *)
(* its work, to the frames of the server's transaction: a rollback to the  *)
(* savepoint of a level must undo the work of that level and of the deeper *)
(* ones, and nothing else.                                                 *)
(***************************************************************************)
EXTENDS Transactions_proofs, WellFoundedInduction

-----------------------------------------------------------------------------
(* Levels and frames.                                                      *)

\* The frames f of a session, as far as it matters what kind of values they are.
IsFrames(f) == f \in Seq(Frames)

\* No savepoint of an outer level comes after work of level l.
Deep(stack, f) ==
    \A l \in DOMAIN stack : \A w \in stack[l] : \A i, j \in DOMAIN f :
        w \in f[i].work /\ i < j => f[j].mark >= l

\* A savepoint of this mark comes after frame i.
Followed(f, i, m) == \E j \in DOMAIN f : i < j /\ f[j].mark = m

\* The latest savepoints of n levels were set in their order.
Ordered(n, f) ==
    \A i \in DOMAIN f : \A m \in 1..(n - 1) :
        i > 1 /\ 1 <= f[i].mark /\ f[i].mark < m => Followed(f, i, m)

\* The work of each level is there, before the latest savepoints of its own
\* and of the inner levels.
Covers(stack, f) ==
    \A l \in DOMAIN stack : \A w \in stack[l] : \E i \in DOMAIN f :
        /\ w \in f[i].work
        /\ \A m \in l..(Len(stack) - 1) : Followed(f, i, m)

\* Nothing that was rejected is in a transaction that may be committed.
Honest(stack, f, rejected) ==
    /\ Deep(stack, f)
    /\ \A i \in DOMAIN f : f[i].work \cap rejected = {}

LEMMA FramesHave ==
    ASSUME NEW f, IsFrames(f)
    PROVE  /\ Len(f) \in Nat /\ DOMAIN f = 1..Len(f)
           /\ \A i \in DOMAIN f : f[i].mark \in Int /\ f[i] \in Frames
<1>1. Len(f) \in Nat /\ DOMAIN f = 1..Len(f)
  BY DEF IsFrames
<1>2. \A i \in DOMAIN f : f[i] \in Frames
  BY DEF IsFrames
<1>3. \A i \in DOMAIN f : f[i].mark \in Int
  BY <1>2 DEF Frames
<1> QED BY <1>1, <1>2, <1>3

\* A savepoint for one more level.
LEMMA HonestDeeper ==
    ASSUME NEW f, IsFrames(f), NEW stack \in Seq(Deeds), NEW rejected,
           Honest(stack, f, rejected), NEW m \in Int, m >= Len(stack),
           NEW g, DOMAIN g = 1..(Len(f) + 1), \A i \in 1..Len(f) : g[i] = f[i],
           g[Len(f) + 1] = Frame(m)
    PROVE  Honest(Append(stack, {}), g, rejected)
<1> DEFINE N == Len(f)
           n == Len(stack)
           deeper == Append(stack, {})
<1>1. N \in Nat /\ DOMAIN f = 1..N /\ \A i \in DOMAIN f : f[i].mark \in Int
  BY FramesHave
<1>2. /\ n \in Nat /\ DOMAIN stack = 1..n /\ DOMAIN deeper = 1..(n + 1)
      /\ \A l \in 1..n : deeper[l] = stack[l]
      /\ deeper[n + 1] = {}
  OBVIOUS
<1>3. g[N + 1].mark = m /\ g[N + 1].work = {}
  BY DEF Frame
<1> HIDE DEF N, n, deeper
<1>4. ASSUME NEW l \in DOMAIN deeper, NEW w \in deeper[l], NEW i \in DOMAIN g,
             NEW j \in DOMAIN g, w \in g[i].work, i < j
      PROVE  g[j].mark >= l
  <2>1. l \in 1..n /\ w \in stack[l] /\ m >= n
    BY <1>2, <1>4 DEF n
  <2>2. i \in 1..N /\ w \in f[i].work
    BY <1>1, <1>3, <1>4 DEF N
  <2>3. CASE j \in 1..N
    BY <1>1, <1>2, <1>4, <2>1, <2>2, <2>3 DEF Honest, Deep, N
  <2>4. CASE j = N + 1
    BY <1>2, <1>3, <2>1, <2>4
  <2> QED BY <1>1, <2>3, <2>4 DEF N
<1>5. \A i \in DOMAIN g : g[i].work \cap rejected = {}
  BY <1>1, <1>3 DEF Honest, N
<1> QED BY <1>4, <1>5 DEF Honest, Deep, deeper

LEMMA OrderedDeeper ==
    ASSUME NEW f, IsFrames(f), NEW n \in Nat, Ordered(n, f),
           NEW g, DOMAIN g = 1..(Len(f) + 1), \A i \in 1..Len(f) : g[i] = f[i],
           g[Len(f) + 1] = Frame(n)
    PROVE  Ordered(n + 1, g)
<1> DEFINE N == Len(f)
<1>1. N \in Nat /\ DOMAIN f = 1..N /\ \A i \in DOMAIN f : f[i].mark \in Int
  BY FramesHave
<1>3. g[N + 1].mark = n
  BY DEF Frame
<1> HIDE DEF N
<1>4. ASSUME NEW i \in DOMAIN g, NEW m \in 1..(n + 1 - 1), i > 1,
             1 <= g[i].mark, g[i].mark < m
      PROVE  Followed(g, i, m)
  <2>1. i \in 1..N /\ g[i] = f[i]
    BY <1>1, <1>3, <1>4 DEF N
  <2>2. CASE m = n
    BY <1>1, <1>3, <2>1, <2>2 DEF Followed, N
  <2>3. CASE m # n
    <3>1. PICK j \in DOMAIN f : i < j /\ f[j].mark = m
      BY <1>1, <1>4, <2>1, <2>3 DEF Ordered, Followed
    <3> QED BY <1>1, <3>1 DEF Followed, N
  <2> QED BY <2>2, <2>3
<1> QED BY <1>4 DEF Ordered

LEMMA CoversDeeper ==
    ASSUME NEW f, IsFrames(f), NEW stack \in Seq(Deeds), Covers(stack, f),
           NEW g, DOMAIN g = 1..(Len(f) + 1), \A i \in 1..Len(f) : g[i] = f[i],
           g[Len(f) + 1] = Frame(Len(stack))
    PROVE  Covers(Append(stack, {}), g)
<1> DEFINE N == Len(f)
           n == Len(stack)
           deeper == Append(stack, {})
<1>1. N \in Nat /\ DOMAIN f = 1..N
  BY FramesHave
<1>2. /\ n \in Nat /\ DOMAIN stack = 1..n /\ DOMAIN deeper = 1..(n + 1)
      /\ \A l \in 1..n : deeper[l] = stack[l]
      /\ deeper[n + 1] = {} /\ Len(deeper) = n + 1
  OBVIOUS
<1>3. g[N + 1].mark = n
  BY DEF Frame
<1> HIDE DEF N, n, deeper
<1>4. ASSUME NEW l \in DOMAIN deeper, NEW w \in deeper[l]
      PROVE  \E i \in DOMAIN g :
               w \in g[i].work /\ \A m \in l..(Len(deeper) - 1) : Followed(g, i, m)
  <2>1. l \in 1..n /\ w \in stack[l]
    BY <1>2
  <2>2. PICK i \in DOMAIN f :
          w \in f[i].work /\ \A m \in l..(n - 1) : Followed(f, i, m)
    BY <1>2, <2>1 DEF Covers, n
  <2>3. i \in DOMAIN g /\ w \in g[i].work
    BY <1>1, <2>2 DEF N
  <2>4. ASSUME NEW m \in l..(Len(deeper) - 1) PROVE Followed(g, i, m)
    <3>1. CASE m = n
      BY <1>1, <1>3, <2>2, <3>1 DEF Followed, N
    <3>2. CASE m # n
      <4>1. PICK j \in DOMAIN f : i < j /\ f[j].mark = m
        BY <1>2, <2>1, <2>2, <3>2 DEF Followed
      <4> QED BY <1>1, <4>1 DEF Followed, N
    <3> QED BY <3>1, <3>2
  <2> QED BY <2>3, <2>4
<1> QED BY <1>4 DEF Covers, deeper

\* A statement of the innermost level does w.
LEMMA HonestWritten ==
    ASSUME NEW f, IsFrames(f), f # <<>>, NEW stack \in Seq(Deeds), NEW rejected,
           Honest(stack, f, rejected), NEW w, w \notin rejected,
           \A i \in DOMAIN f : w \notin f[i].work,
           NEW g, DOMAIN g = DOMAIN f, \A i \in DOMAIN f : g[i].mark = f[i].mark,
           \A i \in 1..(Len(f) - 1) : g[i].work = f[i].work,
           g[Len(f)].work = f[Len(f)].work \cup {w},
           NEW longer, DOMAIN longer = DOMAIN stack,
           \A l \in DOMAIN stack : longer[l] \subseteq stack[l] \cup {w}
    PROVE  Honest(longer, g, rejected)
<1> DEFINE N == Len(f)
<1>1. N \in Nat \ {0} /\ DOMAIN f = 1..N /\ \A i \in DOMAIN f : f[i].mark \in Int
  BY FramesHave DEF IsFrames
<1>3. g[N].work = f[N].work \cup {w} /\ \A i \in 1..(N - 1) : g[i].work = f[i].work
  OBVIOUS
<1> HIDE DEF N
<1>2. \A i \in 1..N : i # N => g[i].work = f[i].work
  <2>1. \A i \in 1..N : i # N => i \in 1..(N - 1)
    BY <1>1
  <2> QED BY <1>3, <2>1
<1>4. ASSUME NEW l \in DOMAIN longer, NEW x \in longer[l], NEW i \in DOMAIN g,
             NEW j \in DOMAIN g, x \in g[i].work, i < j
      PROVE  g[j].mark >= l
  <2>1. i \in 1..N /\ j \in 1..N /\ i # N
    BY <1>1, <1>4
  <2>2. x \in f[i].work
    BY <1>2, <1>4, <2>1
  <2>3. x \in stack[l] /\ l \in DOMAIN stack
    BY <1>1, <1>4, <2>1, <2>2
  <2> QED BY <1>1, <1>4, <2>1, <2>2, <2>3 DEF Honest, Deep
<1>5. \A i \in DOMAIN g : g[i].work \cap rejected = {}
  BY <1>1, <1>2, <1>3 DEF Honest
<1> QED BY <1>4, <1>5 DEF Honest, Deep

LEMMA OrderedWritten ==
    ASSUME NEW f, NEW n, Ordered(n, f),
           NEW g, DOMAIN g = DOMAIN f, \A i \in DOMAIN f : g[i].mark = f[i].mark
    PROVE  Ordered(n, g)
BY DEF Ordered, Followed

LEMMA CoversWritten ==
    ASSUME NEW f, IsFrames(f), f # <<>>, NEW stack \in Seq(Deeds), stack # <<>>,
           Covers(stack, f), NEW w,
           NEW g, DOMAIN g = DOMAIN f, \A i \in DOMAIN f : g[i].mark = f[i].mark,
           \A i \in DOMAIN f : f[i].work \subseteq g[i].work,
           w \in g[Len(f)].work,
           NEW longer \in Seq(Deeds), Len(longer) = Len(stack),
           \A l \in 1..(Len(stack) - 1) : longer[l] = stack[l],
           longer[Len(stack)] = stack[Len(stack)] \cup {w}
    PROVE  Covers(longer, g)
<1> DEFINE N == Len(f)
           n == Len(stack)
<1>1. N \in Nat \ {0} /\ DOMAIN f = 1..N
  BY FramesHave DEF IsFrames
<1>2. /\ n \in Nat \ {0} /\ DOMAIN stack = 1..n /\ DOMAIN longer = 1..n /\ Len(longer) = n
      /\ \A l \in 1..n : l # n => longer[l] = stack[l]
      /\ longer[n] = stack[n] \cup {w} /\ w \in g[N].work
  OBVIOUS
<1>3. \A i, m : Followed(f, i, m) => Followed(g, i, m)
  BY DEF Followed
<1> HIDE DEF N, n
<1>4. ASSUME NEW l \in DOMAIN longer, NEW x \in longer[l]
      PROVE  \E i \in DOMAIN g :
               x \in g[i].work /\ \A m \in l..(Len(longer) - 1) : Followed(g, i, m)
  <2>1. CASE x \in stack[l]
    <3>1. PICK i \in DOMAIN f :
            x \in f[i].work /\ \A m \in l..(n - 1) : Followed(f, i, m)
      BY <1>2, <2>1 DEF Covers, n
    <3> QED BY <1>2, <1>3, <3>1
  <2>2. CASE x \notin stack[l]
    <3>1. l = n /\ x = w
      BY <1>2, <2>2
    <3>2. l..(Len(longer) - 1) = {}
      BY <1>2, <3>1
    <3> QED BY <1>1, <1>2, <3>1, <3>2
  <2> QED BY <2>1, <2>2
<1> QED BY <1>4 DEF Covers

\* Oracle begins a transaction with the first statement.
LEMMA FirstFrame ==
    ASSUME NEW stack, NEW rejected, NEW n \in Nat
    PROVE  /\ IsFrames(<<Frame(0)>>) /\ <<Frame(0)>> # <<>>
           /\ Honest(stack, <<Frame(0)>>, rejected)
           /\ Ordered(n, <<Frame(0)>>)
           /\ Covers(stack, <<>>) => Covers(stack, <<Frame(0)>>)
           /\ DOMAIN <<Frame(0)>> = {1} /\ <<Frame(0)>>[1] = Frame(0)
<1> DEFINE f == <<Frame(0)>>
<1>1. Frame(0) \in Frames /\ Frame(0).work = {}
  BY DEF Frame, Frames
<1>2. DOMAIN f = {1} /\ f[1] = Frame(0) /\ f # <<>>
  OBVIOUS
<1>3. IsFrames(f)
  BY <1>1 DEF IsFrames
<1> HIDE DEF f
<1>4. Honest(stack, f, rejected)
  BY <1>1, <1>2 DEF Honest, Deep
<1>5. Ordered(n, f)
  BY <1>2 DEF Ordered
<1>6. Covers(stack, <<>>) => Covers(stack, f)
  BY DEF Covers
<1> QED BY <1>2, <1>3, <1>4, <1>5, <1>6 DEF f

-----------------------------------------------------------------------------
(* Savepoints that are released or rolled back to.                         *)

\* c is the frame that the latest savepoint of this mark opened.
IsCut(f, c, mark) ==
    /\ c \in DOMAIN f /\ c > 1 /\ f[c].mark = mark
    /\ \A j \in DOMAIN f : f[j].mark = mark => j <= c

LEMMA GreatestIn ==
    ASSUME NEW N \in Nat, NEW M, M \subseteq 1..N, M # {}
    PROVE  \E i \in M : \A j \in M : j <= i
<1> DEFINE R == OpToRel(<, Nat)
           T == {N - i : i \in M}
<1>1. IsWellFoundedOn(R, Nat)
  BY NatLessThanWellFounded
<1>2. \A x, y \in Nat : y < x => <<y, x>> \in R
  BY DEF OpToRel
<1> HIDE DEF R
<1>3. T \subseteq Nat /\ T # {}
  <2>1. \A i \in M : N - i \in Nat
    OBVIOUS
  <2> QED BY <2>1
<1> HIDE DEF T
<1>4. PICK x \in T : \A y \in T : ~ (<<y, x>> \in R)
  BY <1>1, <1>3, WFMin
<1>5. PICK i \in M : x = N - i
  BY <1>4 DEF T
<1>6. ASSUME NEW j \in M PROVE j <= i
  <2>1. N - j \in T
    BY DEF T
  <2>2. ~(N - j < x)
    BY <1>2, <1>3, <1>4, <2>1
  <2> QED BY <1>5, <2>2
<1> QED BY <1>6

LEMMA Latest ==
    ASSUME NEW s, IsFrames(s.frames), NEW mark, Marked(s, mark) # {}
    PROVE  IsCut(s.frames, LatestMark(s, mark), mark)
<1> DEFINE f == s.frames
           M == Marked(s, mark)
           N == Len(f)
<1>1. N \in Nat /\ DOMAIN f = 1..N
  BY FramesHave
<1>2. M = {i \in 1..N : i > 1 /\ f[i].mark = mark}
  BY <1>1 DEF Marked
<1>3. LatestMark(s, mark) = CHOOSE i \in M : \A j \in M : j <= i
  BY DEF LatestMark
<1> HIDE DEF M, N, f
<1>4. \E i \in M : \A j \in M : j <= i
  <2>1. M \subseteq 1..N
    BY <1>2
  <2>2. M # {}
    BY DEF M
  <2> QED BY <1>1, <2>1, <2>2, GreatestIn
<1>5. LatestMark(s, mark) \in M /\ \A j \in M : j <= LatestMark(s, mark)
  BY <1>3, <1>4
<1>6. \A j \in DOMAIN f : f[j].mark = mark => j <= LatestMark(s, mark)
  BY <1>1, <1>2, <1>5
<1> QED BY <1>1, <1>2, <1>5, <1>6 DEF IsCut, f

\* The innermost of the levels of stack is gone in outer.
Popped(stack, outer) ==
    /\ Len(stack) \in Nat \ {0} /\ Len(outer) = Len(stack) - 1
    /\ DOMAIN stack = 1..Len(stack) /\ DOMAIN outer = 1..(Len(stack) - 1)
    /\ \A l \in DOMAIN outer : outer[l] = stack[l]

\* The innermost level has become part of the one around it.
Joined(stack, outer) ==
    /\ Len(stack) \in Nat /\ Len(stack) > 1 /\ Len(outer) = Len(stack) - 1
    /\ DOMAIN stack = 1..Len(stack) /\ DOMAIN outer = 1..(Len(stack) - 1)
    /\ \A l \in DOMAIN outer : l # Len(stack) - 1 => outer[l] = stack[l]
    /\ outer[Len(stack) - 1] = stack[Len(stack) - 1] \cup stack[Len(stack)]

\* The work since the savepoint of frame c belongs to frame c - 1.
Merged(f, c, g) ==
    /\ DOMAIN g = 1..(c - 1)
    /\ \A i \in DOMAIN g :
         /\ g[i].mark = f[i].mark /\ f[i].work \subseteq g[i].work
         /\ i # c - 1 => g[i].work = f[i].work
    /\ \A w \in g[c - 1].work : \E i \in DOMAIN f : i >= c - 1 /\ w \in f[i].work
    /\ \A i \in DOMAIN f : i >= c => f[i].work \subseteq g[c - 1].work

LEMMA HonestMerged ==
    ASSUME NEW f, IsFrames(f), NEW stack, NEW outer, Joined(stack, outer),
           NEW rejected, Honest(stack, f, rejected),
           NEW c, IsCut(f, c, Len(stack) - 1), NEW g, Merged(f, c, g)
    PROVE  Honest(outer, g, rejected)
<1> DEFINE N == Len(f)
           n == Len(stack)
<1>1. N \in Nat /\ DOMAIN f = 1..N /\ \A i \in DOMAIN f : f[i].mark \in Int
  BY FramesHave
<1>2. c \in 1..N /\ c > 1
  BY <1>1 DEF IsCut
<1>3. n \in Nat /\ n > 1 /\ DOMAIN outer = 1..(n - 1) /\ DOMAIN stack = 1..n
  BY DEF Joined
<1>4. \A l \in 1..(n - 1) : \A w \in outer[l] : w \in stack[l] \/ (l = n - 1 /\ w \in stack[n])
  BY DEF Joined
<1>a. DOMAIN g = 1..(c - 1)
  BY DEF Merged
<1>b. \A i \in DOMAIN g : g[i].mark = f[i].mark /\ (i # c - 1 => g[i].work = f[i].work)
  BY DEF Merged
<1>5. /\ DOMAIN g = 1..(c - 1)
      /\ \A i \in 1..(c - 1) : g[i].mark = f[i].mark
      /\ \A i \in 1..(c - 1) : i # c - 1 => g[i].work = f[i].work
      /\ \A w \in g[c - 1].work : \E i \in DOMAIN f : i >= c - 1 /\ w \in f[i].work
  BY <1>a, <1>b DEF Merged
<1> HIDE DEF N, n
<1>6. ASSUME NEW l \in DOMAIN outer, NEW w \in outer[l], NEW i \in DOMAIN g,
             NEW j \in DOMAIN g, w \in g[i].work, i < j
      PROVE  g[j].mark >= l
  <2>1. i \in 1..N /\ j \in 1..N /\ w \in f[i].work /\ g[j].mark = f[j].mark
    BY <1>1, <1>2, <1>5, <1>6
  <2>2. CASE w \in stack[l]
    BY <1>1, <1>3, <1>6, <2>1, <2>2 DEF Honest, Deep
  <2>3. CASE l = n - 1 /\ w \in stack[n]
    <3>1. f[j].mark >= n
      BY <1>1, <1>3, <1>6, <2>1, <2>3 DEF Honest, Deep
    <3> QED BY <1>1, <1>3, <2>1, <2>3, <3>1
  <2> QED BY <1>3, <1>4, <2>2, <2>3
<1>7. ASSUME NEW i \in DOMAIN g PROVE g[i].work \cap rejected = {}
  BY <1>1, <1>2, <1>5 DEF Honest
<1> QED BY <1>6, <1>7 DEF Honest, Deep

LEMMA OrderedMerged ==
    ASSUME NEW f, IsFrames(f), NEW n \in Nat, n > 1, Ordered(n, f),
           NEW c, IsCut(f, c, n - 1),
           NEW g, \A i \in DOMAIN g : g[i].mark = f[i].mark,
           DOMAIN g = 1..(c - 1) \/ DOMAIN g = 1..c
    PROVE  Ordered(n - 1, g)
<1> DEFINE N == Len(f)
<1>1. N \in Nat /\ DOMAIN f = 1..N /\ \A i \in DOMAIN f : f[i].mark \in Int
  BY FramesHave
<1>2. c \in 1..N /\ c > 1 /\ f[c].mark = n - 1
  BY <1>1 DEF IsCut
<1> HIDE DEF N
<1>3. ASSUME NEW i \in DOMAIN g, NEW m \in 1..(n - 1 - 1), i > 1,
             1 <= g[i].mark, g[i].mark < m
      PROVE  Followed(g, i, m)
  <2>1. i \in 1..N /\ f[i].mark = g[i].mark
    BY <1>1, <1>2
  <2>2. PICK j \in DOMAIN f : i < j /\ f[j].mark = m
    BY <1>1, <1>3, <2>1 DEF Ordered, Followed
  <2>3. PICK k \in DOMAIN f : j < k /\ f[k].mark = n - 1
    BY <1>1, <1>3, <2>1, <2>2 DEF Ordered, Followed
  <2>4. k <= c
    BY <2>3 DEF IsCut
  <2>5. j \in DOMAIN g /\ g[j].mark = m
    BY <1>1, <1>2, <2>2, <2>3, <2>4
  <2> QED BY <2>2, <2>5 DEF Followed
<1> QED BY <1>3 DEF Ordered

\* The frames before a cut are followed as before, by marks below its own.
LEMMA FollowedCut ==
    ASSUME NEW f, IsFrames(f), NEW n \in Nat, n > 1, Ordered(n, f),
           NEW c, IsCut(f, c, n - 1),
           NEW g, \A i \in DOMAIN g : g[i].mark = f[i].mark,
           DOMAIN g = 1..(c - 1) \/ DOMAIN g = 1..c,
           NEW i \in DOMAIN g, NEW m \in 1..(n - 2), Followed(f, i, m)
    PROVE  Followed(g, i, m)
<1> DEFINE N == Len(f)
<1>1. N \in Nat /\ DOMAIN f = 1..N /\ \A j \in DOMAIN f : f[j].mark \in Int
  BY FramesHave
<1>2. c \in 1..N /\ c > 1 /\ f[c].mark = n - 1
  BY <1>1 DEF IsCut
<1> HIDE DEF N
<1>3. PICK j \in DOMAIN f : i < j /\ f[j].mark = m
  BY DEF Followed
<1>4. PICK k \in DOMAIN f : j < k /\ f[k].mark = n - 1
  BY <1>1, <1>2, <1>3 DEF Ordered, Followed
<1>5. k <= c
  BY <1>4 DEF IsCut
<1>6. j \in DOMAIN g /\ g[j].mark = m
  BY <1>1, <1>2, <1>3, <1>4, <1>5
<1> QED BY <1>3, <1>6 DEF Followed

LEMMA CoversMerged ==
    ASSUME NEW f, IsFrames(f), NEW stack, NEW outer, Joined(stack, outer),
           Ordered(Len(stack), f), Covers(stack, f),
           NEW c, IsCut(f, c, Len(stack) - 1), NEW g, Merged(f, c, g)
    PROVE  Covers(outer, g)
<1> DEFINE N == Len(f)
           n == Len(stack)
<1>1. N \in Nat /\ DOMAIN f = 1..N /\ \A i \in DOMAIN f : f[i].mark \in Int
  BY FramesHave
<1>2. c \in 1..N /\ c > 1
  BY <1>1 DEF IsCut
<1>3. n \in Nat /\ n > 1 /\ DOMAIN outer = 1..(n - 1) /\ DOMAIN stack = 1..n /\ Len(outer) = n - 1
  BY DEF Joined
<1>4. \A l \in 1..(n - 1) : \A w \in outer[l] : w \in stack[l] \/ (l = n - 1 /\ w \in stack[n])
  BY DEF Joined
<1>a. DOMAIN g = 1..(c - 1) /\ \A i \in DOMAIN g : g[i].mark = f[i].mark
  BY DEF Merged
<1>5. \A i \in DOMAIN g : f[i].work \subseteq g[i].work
  BY DEF Merged
<1>6. \A i \in DOMAIN f : i >= c => f[i].work \subseteq g[c - 1].work
  BY DEF Merged
<1> HIDE DEF N, n
<1>7. ASSUME NEW l \in DOMAIN outer, NEW w \in outer[l]
      PROVE  \E i \in DOMAIN g :
               w \in g[i].work /\ \A m \in l..(Len(outer) - 1) : Followed(g, i, m)
  <2>1. CASE w \in stack[l]
    <3>1. PICK i \in DOMAIN f :
            w \in f[i].work /\ \A m \in l..(n - 1) : Followed(f, i, m)
      BY <1>3, <1>7, <2>1 DEF Covers, n
    <3>2. PICK j \in DOMAIN f : i < j /\ f[j].mark = n - 1
      BY <1>3, <1>7, <3>1 DEF Followed
    <3>3. i \in DOMAIN g /\ w \in g[i].work
      BY <1>1, <1>2, <1>a, <1>5, <3>1, <3>2 DEF IsCut, n
    <3>4. ASSUME NEW m \in l..(Len(outer) - 1) PROVE Followed(g, i, m)
      <4>1. m \in 1..(n - 2) /\ Followed(f, i, m)
        BY <1>3, <1>7, <3>1
      <4> QED BY <1>3, <1>a, <3>3, <4>1, FollowedCut DEF n
    <3> QED BY <3>3, <3>4
  <2>2. CASE l = n - 1 /\ w \in stack[n]
    <3>1. PICK i \in DOMAIN f : w \in f[i].work
      BY <1>3, <2>2 DEF Covers
    <3>2. l..(Len(outer) - 1) = {}
      BY <1>3, <2>2
    <3>3. CASE i >= c
      <4>1. c - 1 \in DOMAIN g /\ w \in g[c - 1].work
        BY <1>1, <1>2, <1>a, <1>6, <3>1, <3>3
      <4> QED BY <3>2, <4>1
    <3>4. CASE ~(i >= c)
      BY <1>1, <1>2, <1>a, <1>5, <3>1, <3>2, <3>4
    <3> QED BY <3>3, <3>4
  <2> QED BY <1>3, <1>4, <2>1, <2>2
<1> QED BY <1>7 DEF Covers

\* The same for Oracle, where a nested transaction that ends sends nothing.
LEMMA HonestJoined ==
    ASSUME NEW f, IsFrames(f), NEW stack, NEW outer, Joined(stack, outer),
           NEW rejected, Honest(stack, f, rejected)
    PROVE  Honest(outer, f, rejected)
<1> DEFINE n == Len(stack)
<1>1. \A i \in DOMAIN f : f[i].mark \in Int
  BY FramesHave
<1>3. n \in Nat /\ n > 1 /\ DOMAIN outer = 1..(n - 1) /\ DOMAIN stack = 1..n
  BY DEF Joined
<1>4. \A l \in 1..(n - 1) : \A w \in outer[l] : w \in stack[l] \/ (l = n - 1 /\ w \in stack[n])
  BY DEF Joined
<1> HIDE DEF n
<1>6. ASSUME NEW l \in DOMAIN outer, NEW w \in outer[l], NEW i \in DOMAIN f,
             NEW j \in DOMAIN f, w \in f[i].work, i < j
      PROVE  f[j].mark >= l
  <2>1. CASE w \in stack[l]
    BY <1>1, <1>3, <1>6, <2>1 DEF Honest, Deep
  <2>2. CASE l = n - 1 /\ w \in stack[n]
    <3>1. f[j].mark >= n
      BY <1>1, <1>3, <1>6, <2>2 DEF Honest, Deep
    <3> QED BY <1>1, <1>3, <2>2, <3>1
  <2> QED BY <1>3, <1>4, <2>1, <2>2
<1> QED BY <1>6 DEF Honest, Deep

LEMMA OrderedLess ==
    ASSUME NEW f, NEW n \in Nat, Ordered(n, f)
    PROVE  Ordered(n - 1, f)
BY DEF Ordered

LEMMA CoversJoined ==
    ASSUME NEW f, NEW stack, NEW outer, Joined(stack, outer), Covers(stack, f)
    PROVE  Covers(outer, f)
<1> DEFINE n == Len(stack)
<1>3. n \in Nat /\ n > 1 /\ DOMAIN outer = 1..(n - 1) /\ DOMAIN stack = 1..n /\ Len(outer) = n - 1
  BY DEF Joined
<1>4. \A l \in 1..(n - 1) : \A w \in outer[l] : w \in stack[l] \/ (l = n - 1 /\ w \in stack[n])
  BY DEF Joined
<1> HIDE DEF n
<1>7. ASSUME NEW l \in DOMAIN outer, NEW w \in outer[l]
      PROVE  \E i \in DOMAIN f :
               w \in f[i].work /\ \A m \in l..(Len(outer) - 1) : Followed(f, i, m)
  <2>1. CASE w \in stack[l]
    <3>1. PICK i \in DOMAIN f :
            w \in f[i].work /\ \A m \in l..(n - 1) : Followed(f, i, m)
      BY <1>3, <1>7, <2>1 DEF Covers, n
    <3> QED BY <1>3, <1>7, <3>1
  <2>2. CASE l = n - 1 /\ w \in stack[n]
    <3>1. PICK i \in DOMAIN f : w \in f[i].work
      BY <1>3, <2>2 DEF Covers
    <3>2. l..(Len(outer) - 1) = {}
      BY <1>3, <2>2
    <3> QED BY <3>1, <3>2
  <2> QED BY <1>3, <1>4, <2>1, <2>2
<1> QED BY <1>7 DEF Covers

\* A rollback to the savepoint of frame c, which remains.
CutBack(f, c, g) ==
    /\ DOMAIN g = 1..c
    /\ \A i \in DOMAIN g : i # c => g[i] = f[i]
    /\ g[c].mark = f[c].mark /\ g[c].work = {}

(***************************************************************************)
(* The level that is rejected loses its work, even when the rollback goes  *)
(* further back than to its savepoint.                                     *)
(***************************************************************************)
LEMMA HonestBack ==
    ASSUME NEW f, IsFrames(f), NEW stack, NEW outer, Popped(stack, outer),
           NEW rejected, Honest(stack, f, rejected),
           NEW mark \in Int, mark < Len(stack),
           NEW c, IsCut(f, c, mark), NEW g, CutBack(f, c, g)
    PROVE  Honest(outer, g, rejected \cup stack[Len(stack)])
<1> DEFINE N == Len(f)
           n == Len(stack)
<1>1. N \in Nat /\ DOMAIN f = 1..N /\ \A i \in DOMAIN f : f[i].mark \in Int
  BY FramesHave
<1>2. c \in 1..N /\ c > 1 /\ f[c].mark = mark
  BY <1>1 DEF IsCut
<1>3. /\ n \in Nat \ {0} /\ DOMAIN outer = 1..(n - 1) /\ DOMAIN stack = 1..n
      /\ mark < n
  BY DEF Popped
<1>4. \A l \in DOMAIN outer : outer[l] = stack[l]
  BY DEF Popped
<1>5. /\ DOMAIN g = 1..c /\ g[c].mark = f[c].mark /\ g[c].work = {}
      /\ \A i \in DOMAIN g : i # c => g[i] = f[i]
  BY DEF CutBack
<1> HIDE DEF N, n
<1>6. ASSUME NEW l \in DOMAIN outer, NEW w \in outer[l], NEW i \in DOMAIN g,
             NEW j \in DOMAIN g, w \in g[i].work, i < j
      PROVE  g[j].mark >= l
  <2>1. i \in 1..N /\ j \in 1..N /\ w \in f[i].work /\ g[j].mark = f[j].mark
    BY <1>1, <1>2, <1>5, <1>6
  <2>2. w \in stack[l] /\ l \in DOMAIN stack
    BY <1>3, <1>4, <1>6
  <2> QED BY <1>1, <1>6, <2>1, <2>2 DEF Honest, Deep
<1>7. ASSUME NEW i \in DOMAIN g PROVE g[i].work \cap (rejected \cup stack[n]) = {}
  <2>1. CASE i = c
    BY <1>5, <2>1
  <2>2. CASE i # c
    <3>1. i \in 1..N /\ i < c /\ g[i].work = f[i].work
      BY <1>1, <1>2, <1>5, <2>2
    <3>2. ASSUME NEW w \in f[i].work, w \in stack[n] PROVE FALSE
      <4>1. n \in DOMAIN stack /\ i \in DOMAIN f /\ c \in DOMAIN f
        BY <1>1, <1>2, <1>3, <3>1
      <4>2. f[c].mark >= n
        BY <3>1, <3>2, <4>1 DEF Honest, Deep
      <4> QED BY <1>1, <1>2, <1>3, <4>2
    <3> QED BY <1>1, <3>1, <3>2 DEF Honest
  <2> QED BY <2>1, <2>2
<1> QED BY <1>6, <1>7 DEF Honest, Deep, n

LEMMA CoversBack ==
    ASSUME NEW f, IsFrames(f), NEW stack, NEW outer, Popped(stack, outer), Len(stack) > 1,
           Ordered(Len(stack), f), Covers(stack, f),
           NEW c, IsCut(f, c, Len(stack) - 1), NEW g, CutBack(f, c, g)
    PROVE  Ordered(Len(stack) - 1, g) /\ Covers(outer, g)
<1> DEFINE N == Len(f)
           n == Len(stack)
<1>1. N \in Nat /\ DOMAIN f = 1..N /\ \A i \in DOMAIN f : f[i].mark \in Int
  BY FramesHave
<1>2. c \in 1..N /\ c > 1 /\ f[c].mark = n - 1
  BY <1>1 DEF IsCut
<1>3. /\ n \in Nat /\ n > 1 /\ DOMAIN outer = 1..(n - 1) /\ DOMAIN stack = 1..n
      /\ Len(outer) = n - 1
  BY DEF Popped
<1>4. \A l \in DOMAIN outer : outer[l] = stack[l]
  BY DEF Popped
<1>5. /\ DOMAIN g = 1..c /\ g[c].mark = f[c].mark
      /\ \A i \in DOMAIN g : i # c => g[i] = f[i]
  BY DEF CutBack
<1>6. \A i \in DOMAIN g : g[i].mark = f[i].mark
  BY <1>5
<1> HIDE DEF N, n
<1>7. ASSUME NEW l \in DOMAIN outer, NEW w \in outer[l]
      PROVE  \E i \in DOMAIN g :
               w \in g[i].work /\ \A m \in l..(Len(outer) - 1) : Followed(g, i, m)
  <2>1. w \in stack[l] /\ l \in DOMAIN stack /\ l <= n - 1
    BY <1>3, <1>4, <1>7
  <2>2. PICK i \in DOMAIN f :
          w \in f[i].work /\ \A m \in l..(n - 1) : Followed(f, i, m)
    BY <1>3, <2>1 DEF Covers, n
  <2>3. PICK j \in DOMAIN f : i < j /\ f[j].mark = n - 1
    BY <1>3, <2>1, <2>2 DEF Followed
  <2>4. j <= c
    BY <2>3 DEF IsCut, n
  <2>5. i \in DOMAIN g /\ i # c
    BY <1>1, <1>2, <1>5, <2>2, <2>3, <2>4
  <2>6. w \in g[i].work
    BY <1>5, <2>2, <2>5
  <2>7. ASSUME NEW m \in l..(Len(outer) - 1) PROVE Followed(g, i, m)
    <3>1. m \in 1..(n - 2) /\ Followed(f, i, m)
      BY <1>3, <2>1, <2>2
    <3> QED BY <1>3, <1>5, <1>6, <2>5, <3>1, FollowedCut DEF n
  <2> QED BY <2>5, <2>6, <2>7
<1>8. Ordered(n - 1, g)
  <2>1. IsCut(f, c, n - 1) /\ Ordered(n, f)
    BY DEF n
  <2>2. DOMAIN g = 1..(c - 1) \/ DOMAIN g = 1..c
    BY <1>5
  <2>3. n \in Nat /\ n > 1
    BY <1>3
  <2> QED BY <1>6, <2>1, <2>2, <2>3, OrderedMerged
<1>9. Covers(outer, g)
  BY <1>7 DEF Covers
<1> QED BY <1>8, <1>9 DEF n

-----------------------------------------------------------------------------
(* What the answers of the server do with frames and work.                 *)

IsServed(s) == IsSession(s) /\ IsFrames(s.frames)

LEMMA DeadServed == IsServed(DeadSession) /\ DeadSession.frames = <<>>
<1>1. DeadSession.frames = <<>> /\ <<>> \in Seq(Frames)
  BY DEF DeadSession
<1> QED BY <1>1, Dead DEF IsServed, IsFrames

LEMMA ReplyGives ==
    ASSUME NEW s, NEW durables
    PROVE  /\ Reply(TRUE, s, durables).durable = durables
           /\ Reply(TRUE, s, durables).cause = "none"
           /\ Reply(FALSE, s, durables).durable = durables
           /\ Reply(FALSE, s, durables).cause = "none"
BY DEF Reply

LEMMA FaultGives ==
    ASSUME NEW r, IsReply(r)
    PROVE  Fault(r).durable = r.durable /\ Fault(r).cause = "database"
BY DEF IsReply, Fault

LEMMA FailedKept ==
    ASSUME NEW s, IsSession(s), NEW f
    PROVE  [s EXCEPT !.frames = f].failed = s.failed
BY DEF IsSession

\* What may have become of a statement.
Sent(q, s, due, failing, r) ==
    \/ ~r.ok /\ r.session = s /\ r.durable = {} /\ (q.released \/ ~s.alive)
    \/ ~r.ok /\ ~q.released /\ s.alive /\ ~r.session.alive /\ r.durable \in {{}, due.durable}
    \/ /\ ~q.released /\ s.alive
       /\ r.session = due.session /\ r.ok = due.ok /\ r.durable = due.durable
    \/ /\ ~r.ok /\ ~q.released /\ s.alive
       /\ r.session = failing.session /\ r.durable = failing.durable

LEMMA QueryGives ==
    ASSUME NEW q, NEW s, IsServed(s),
           NEW due, IsReply(due), IsFrames(due.session.frames), due.cause = "none",
           NEW failing, IsReply(failing), IsFrames(failing.session.frames), ~failing.ok,
           NEW r \in Query(q, s, due, failing)
    PROVE  /\ IsReply(r) /\ IsFrames(r.session.frames)
           /\ r.cause \notin {"before", "after"}
           /\ Sent(q, s, due, failing, r)
<1>1. CASE q.released \/ ~s.alive
  <2>1. r = Reply(FALSE, s, {})
    BY <1>1 DEF Query, Replies
  <2>2. IsReply(r)
    BY <2>1, RepliesAre DEF IsServed
  <2>3. r.durable = {} /\ r.cause = "none"
    BY <2>1, ReplyGives
  <2>4. r.session = s /\ ~r.ok
    BY <2>1, RepliesAre DEF IsServed
  <2> QED BY <1>1, <2>2, <2>3, <2>4 DEF Sent, IsServed
<1>2. CASE ~q.released /\ s.alive
  <2> DEFINE early == Reply(FALSE, DeadSession, {})
             late  == Reply(FALSE, DeadSession, due.durable)
  <2>1. \/ r = due \/ r = Fault(failing) \/ r = Fault(early) \/ r = Fault(late)
    BY <1>2 DEF Query, Replies
  <2>2. /\ IsReply(early) /\ ~early.ok /\ early.session = DeadSession
        /\ IsReply(late) /\ ~late.ok /\ late.session = DeadSession
    BY Dead, RepliesAre
  <2>a. early.durable = {} /\ late.durable = due.durable
    BY ReplyGives
  <2> HIDE DEF early, late
  <2>3. CASE r = due
    BY <1>2, <2>3 DEF Sent
  <2>4. CASE r = Fault(failing)
    <3>1. /\ IsReply(r) /\ ~r.ok /\ r.session = failing.session
          /\ r.durable = failing.durable /\ r.cause = "database"
      BY <2>4, FaultsAre, FaultGives
    <3> QED BY <1>2, <3>1 DEF Sent
  <2>5. CASE r = Fault(early) \/ r = Fault(late)
    <3>1. /\ IsReply(r) /\ ~r.ok /\ r.session = DeadSession
          /\ r.durable \in {{}, due.durable} /\ r.cause = "database"
      BY <2>2, <2>a, <2>5, FaultsAre, FaultGives
    <3> QED BY <1>2, <3>1, Dead, DeadServed DEF Sent, IsServed
  <2> QED BY <2>1, <2>3, <2>4, <2>5
<1> QED BY <1>1, <1>2

\* An outcome of a method has the session and the durable work of the reply.
LEMMA OutcomesGive ==
    ASSUME NEW R, NEW failed, NEW done, NEW o \in Outcomes(R, failed, done)
    PROVE  \E r \in R :
             /\ o.session = r.session /\ o.durable = r.durable
             /\ \/ ~o.ok /\ ~r.ok /\ o.runner = failed /\ o.cause = r.cause
                \/ o.ok /\ r.ok /\ o.runner = done /\ o.cause = r.cause
                \/ ~o.ok /\ r.ok /\ o.runner = done /\ o.cause = "after"
<1>1. CASE o \in {Outcome(FALSE, failed, r, r.cause) : r \in {x \in R : ~x.ok}}
  BY <1>1 DEF Outcome
<1>2. CASE o \in {Outcome(TRUE, done, r, r.cause) : r \in {x \in R : x.ok}}
  BY <1>2 DEF Outcome
<1>3. CASE o \in {Outcome(FALSE, done, r, "after") : r \in {x \in R : x.ok}}
  BY <1>3 DEF Outcome
<1> QED BY <1>1, <1>2, <1>3 DEF Outcomes

LEMMA RefuseGives ==
    ASSUME NEW v, NEW s, IsServed(s)
    PROVE  /\ IsReply(Refuse(v, s)) /\ ~Refuse(v, s).ok
           /\ Refuse(v, s).session.frames = s.frames /\ IsServed(Refuse(v, s).session)
           /\ Refuse(v, s).durable = {} /\ Refuse(v, s).cause = "none"
<1>1. /\ IsReply(Refuse(v, s)) /\ ~Refuse(v, s).ok
      /\ Refuse(v, s).session.frames = s.frames /\ IsSession(Refuse(v, s).session)
  BY RefuseIs DEF Same, IsServed
<1>2. Refuse(v, s).durable = {} /\ Refuse(v, s).cause = "none"
  BY ReplyGives DEF Refuse
<1> QED BY <1>1, <1>2 DEF IsServed

\* A reply without a mishap, that makes this work durable.
Gives(r, durables) ==
    IsReply(r) /\ IsServed(r.session) /\ r.durable = durables /\ r.cause = "none"

LEMMA SuccessGives ==
    ASSUME NEW s, IsServed(s), NEW durables
    PROVE  /\ Gives(Reply(TRUE, s, durables), durables)
           /\ Reply(TRUE, s, durables).ok /\ Reply(TRUE, s, durables).session = s
<1>1. /\ IsReply(Reply(TRUE, s, durables)) /\ Reply(TRUE, s, durables).ok
      /\ Reply(TRUE, s, durables).session = s
  BY RepliesAre DEF IsServed
<1>2. Reply(TRUE, s, durables).durable = durables /\ Reply(TRUE, s, durables).cause = "none"
  BY ReplyGives
<1> QED BY <1>1, <1>2 DEF Gives

LEMMA RefusalGives ==
    ASSUME NEW v, NEW s, IsServed(s)
    PROVE  /\ Gives(Refuse(v, s), {}) /\ ~Refuse(v, s).ok
           /\ Refuse(v, s).session.frames = s.frames
BY RefuseGives DEF Gives

\* Frames are written into a session.
LEMMA FramesGiven ==
    ASSUME NEW s, IsServed(s), NEW f, IsFrames(f)
    PROVE  /\ IsServed([s EXCEPT !.frames = f]) /\ [s EXCEPT !.frames = f].frames = f
           /\ [s EXCEPT !.frames = f].failed = s.failed
<1>1. /\ IsSession([s EXCEPT !.frames = f]) /\ [s EXCEPT !.frames = f].frames = f
      /\ [s EXCEPT !.frames = f].failed = s.failed
  BY SessionWritten, FailedKept DEF IsServed
<1> QED BY <1>1 DEF IsServed

\* A transaction is open afterwards, without work if there was none before.
BegunAs(s, r) ==
    /\ Gives(r, {})
    /\ r.ok => /\ ~s.failed /\ ~r.session.failed
               /\ \/ r.session.frames = <<Frame(0)>>
                  \/ s.frames # <<>> /\ r.session.frames = s.frames
    /\ ~r.ok => r.session.frames = s.frames

LEMMA BeginGives ==
    ASSUME NEW v, NEW s, IsServed(s)
    PROVE  BegunAs(s, Begin(v, s))
<1>1. BegunAs(s, Refuse(v, s))
  BY RefusalGives DEF BegunAs
<1>2. InTransaction(s) /\ ~s.failed => BegunAs(s, Reply(TRUE, s, {}))
  BY SuccessGives DEF BegunAs, InTransaction
<1> DEFINE t == [s EXCEPT !.frames = <<Frame(0)>>]
<1>3. IsServed(t) /\ t.frames = <<Frame(0)>> /\ t.failed = s.failed
  <2> DEFINE f == <<Frame(0)>>
  <2>1. IsFrames(f)
    BY FirstFrame
  <2> HIDE DEF f
  <2>2. /\ IsServed([s EXCEPT !.frames = f]) /\ [s EXCEPT !.frames = f].frames = f
        /\ [s EXCEPT !.frames = f].failed = s.failed
    BY <2>1, FramesGiven
  <2> QED BY <2>2 DEF f
<1>4. Begin(v, s) = Refuse(v, s) \/ (~s.failed /\ InTransaction(s) /\ Begin(v, s) = Reply(TRUE, s, {}))
      \/ (~s.failed /\ Begin(v, s) = Reply(TRUE, t, {}))
  BY DEF Begin
<1> HIDE DEF t
<1>5. ~s.failed => BegunAs(s, Reply(TRUE, t, {}))
  BY <1>3, SuccessGives DEF BegunAs
<1> QED BY <1>1, <1>2, <1>4, <1>5

LEMMA FramesOfGives ==
    ASSUME NEW s, IsServed(s)
    PROVE  /\ IsFrames(FramesOf(s)) /\ FramesOf(s) # <<>>
           /\ FramesOf(s) = s.frames \/ (s.frames = <<>> /\ FramesOf(s) = <<Frame(0)>>)
BY FirstFrame DEF FramesOf, InTransaction, IsServed

LEMMA FrameIn ==
    ASSUME NEW m \in Int
    PROVE  Frame(m) \in Frames
BY DEF Frame, Frames

\* A savepoint is set, in a transaction that began no later than with it.
MarkedAs(v, s, m, r) ==
    /\ Gives(r, {})
    /\ r.ok => /\ ~s.failed /\ ~r.session.failed /\ m > 0
               /\ v = "postgres" => s.frames # <<>>
               /\ r.session.frames = Append(FramesOf(s), Frame(m))
    /\ ~r.ok => r.session.frames = s.frames

LEMMA SavepointGives ==
    ASSUME NEW v, NEW s, IsServed(s), NEW m \in Int
    PROVE  MarkedAs(v, s, m, Savepoint(v, s, m))
<1> DEFINE f == Append(FramesOf(s), Frame(m))
           t == [s EXCEPT !.frames = f]
<1>1. MarkedAs(v, s, m, Refuse(v, s))
  BY RefusalGives DEF MarkedAs
<1>2. IsFrames(f)
  <2>1. IsFrames(FramesOf(s)) /\ Frame(m) \in Frames
    BY FramesOfGives, FrameIn
  <2> QED BY <2>1 DEF IsFrames
<1>3. \/ Savepoint(v, s, m) = Refuse(v, s)
      \/ /\ Savepoint(v, s, m) = Reply(TRUE, t, {})
         /\ ~s.failed /\ ~(m <= 0) /\ (v = "postgres" => s.frames # <<>>)
  BY DEF Savepoint, InTransaction
<1> HIDE DEF f
<1>4. IsServed(t) /\ t.frames = f /\ t.failed = s.failed
  BY <1>2, FramesGiven
<1> HIDE DEF t
<1>5. ~s.failed /\ ~(m <= 0) /\ (v = "postgres" => s.frames # <<>>)
        => MarkedAs(v, s, m, Reply(TRUE, t, {}))
  <2>1. /\ Gives(Reply(TRUE, t, {}), {}) /\ Reply(TRUE, t, {}).ok
        /\ Reply(TRUE, t, {}).session = t
    BY <1>4, SuccessGives
  <2>2. t.frames = Append(FramesOf(s), Frame(m)) /\ t.failed = s.failed
    BY <1>4 DEF f
  <2>3. ~(m <= 0) => m > 0
    OBVIOUS
  <2> QED BY <2>1, <2>2, <2>3, Zenon DEF MarkedAs
<1> QED BY <1>1, <1>3, <1>5

-----------------------------------------------------------------------------
(* What the methods of a runner do with frames and work.                   *)

(***************************************************************************)
(* startTransaction: a subscriber stopped it; the statement failed, maybe  *)
(* after the transaction had begun; or there is one level more.            *)
(***************************************************************************)
StartedWith(v, q, s, o) ==
    /\ IsServed(o.session) /\ o.durable = {}
    /\ \/ /\ ~o.ok /\ o.cause = "before" /\ o.session = s
          /\ ~o.runner.active /\ o.runner.depth = q.depth
       \/ /\ ~o.ok /\ o.runner.active /\ o.runner.depth = q.depth
          /\ o.session.alive =>
               \/ o.session.frames = s.frames
               \/ q.depth = 0 /\ o.session.frames = <<Frame(0)>>
       \/ /\ s.alive /\ o.runner.active /\ o.runner.depth = q.depth + 1
          /\ q.depth >= 0 /\ ~o.session.failed
          /\ v = "postgres" => o.session.frames # <<>>
          /\ q.depth = 0 => o.session.frames \in {s.frames, <<Frame(0)>>}
          /\ q.depth # 0 => o.session.frames = Append(FramesOf(s), Frame(q.depth))

LEMMA StartGives ==
    ASSUME NEW v, NEW q \in Runners, ~q.released, NEW s, IsServed(s),
           NEW o \in StartTransaction(v, q, s)
    PROVE  StartedWith(v, q, s, o)
<1> DEFINE begun == [q EXCEPT !.active = TRUE]
           due   == IF q.depth = 0 THEN Begin(v, s) ELSE Savepoint(v, s, q.depth)
           sent  == Query(q, s, due, Refuse(v, s))
           done  == [begun EXCEPT !.depth = q.depth + 1]
           back  == [q EXCEPT !.active = FALSE]
<1>1. begun \in Runners /\ begun.active /\ begun.depth = q.depth
  BY ActiveWritten
<1>2. back \in Runners /\ ~back.active /\ back.depth = q.depth
  BY ActiveWritten
<1>3. q.depth \in Int /\ q.depth + 1 \in Int
  BY DEF Runners
<1>4. done.active /\ done.depth = q.depth + 1
  BY <1>1, <1>3, DepthWritten
<1>5. /\ Gives(due, {})
      /\ due.ok => /\ q.depth >= 0 /\ ~due.session.failed
                   /\ v = "postgres" => due.session.frames # <<>>
                   /\ q.depth = 0 => due.session.frames \in {s.frames, <<Frame(0)>>}
                   /\ q.depth # 0 => due.session.frames = Append(FramesOf(s), Frame(q.depth))
      /\ ~due.ok => due.session.frames = s.frames
  <2>1. CASE q.depth = 0
    <3>1. BegunAs(s, due)
      BY <2>1, BeginGives
    <3>2. <<Frame(0)>> # <<>>
      OBVIOUS
    <3> HIDE DEF due
    <3>3. Gives(due, {}) /\ (~due.ok => due.session.frames = s.frames)
      BY <3>1 DEF BegunAs
    <3>4. ASSUME due.ok
          PROVE  /\ ~due.session.failed /\ due.session.frames # <<>>
                 /\ due.session.frames \in {s.frames, <<Frame(0)>>}
      BY <3>1, <3>2, <3>4, Zenon DEF BegunAs
    <3> QED BY <1>3, <2>1, <3>3, <3>4
  <2>2. CASE q.depth # 0
    <3>1. MarkedAs(v, s, q.depth, due)
      BY <1>3, <2>2, SavepointGives
    <3>2. IsFrames(FramesOf(s))
      BY FramesOfGives
    <3>3. Append(FramesOf(s), Frame(q.depth)) # <<>>
      BY <3>2 DEF IsFrames
    <3> HIDE DEF due
    <3> QED BY <1>3, <2>2, <3>1, <3>3 DEF MarkedAs
  <2> QED BY <2>1, <2>2
<1>6. Gives(Refuse(v, s), {}) /\ ~Refuse(v, s).ok /\ Refuse(v, s).session.frames = s.frames
  BY RefusalGives
<1>7. \/ o = Thrown(back, s, "before")
      \/ o \in Outcomes(sent, begun, done)
      \/ o \in {Outcome(FALSE, begun, Fault(Refuse(v, r.session)), "database") :
                  r \in {x \in sent : x.ok /\ q.depth = 0 /\ v = "postgres"}}
  BY DEF StartTransaction
<1> HIDE DEF due
<1>8. ASSUME NEW r \in sent
      PROVE  /\ IsReply(r) /\ IsServed(r.session) /\ r.durable = {}
             /\ r.ok => s.alive /\ due.ok /\ r.session = due.session
             /\ ~r.ok /\ r.session.alive => r.session.frames = s.frames
  <2>1. /\ IsReply(r) /\ IsFrames(r.session.frames)
        /\ Sent(q, s, due, Refuse(v, s), r)
    BY <1>5, <1>6, QueryGives DEF Gives, IsServed
  <2> QED BY <1>5, <1>6, <2>1 DEF Sent, IsReply, IsServed, Gives
<1> HIDE DEF begun, sent, done, back
<1>9. CASE o = Thrown(back, s, "before")
  <2>1. /\ ~o.ok /\ o.cause = "before" /\ o.session = s /\ o.runner = back
    BY <1>9, ThrownIs
  <2>2. o.durable = {}
    BY <1>9, ReplyGives DEF Thrown, Outcome
  <2> QED BY <1>2, <2>1, <2>2 DEF StartedWith
<1>10. CASE o \in Outcomes(sent, begun, done)
  <2>1. PICK r \in sent :
          /\ o.session = r.session /\ o.durable = r.durable
          /\ \/ ~o.ok /\ ~r.ok /\ o.runner = begun /\ o.cause = r.cause
             \/ o.ok /\ r.ok /\ o.runner = done /\ o.cause = r.cause
             \/ ~o.ok /\ r.ok /\ o.runner = done /\ o.cause = "after"
    BY <1>10, OutcomesGive
  <2>2. IsServed(o.session) /\ o.durable = {}
    BY <1>8, <2>1
  <2>3. CASE ~r.ok
    BY <1>1, <1>8, <2>1, <2>2, <2>3 DEF StartedWith
  <2>4. CASE r.ok
    BY <1>4, <1>5, <1>8, <2>1, <2>2, <2>4 DEF StartedWith
  <2> QED BY <2>3, <2>4
<1>11. CASE o \in {Outcome(FALSE, begun, Fault(Refuse(v, r.session)), "database") :
                     r \in {x \in sent : x.ok /\ q.depth = 0 /\ v = "postgres"}}
  <2>1. PICK r \in sent :
          /\ r.ok /\ q.depth = 0
          /\ o = Outcome(FALSE, begun, Fault(Refuse(v, r.session)), "database")
    BY <1>11
  <2>2. IsServed(r.session) /\ r.session.frames \in {s.frames, <<Frame(0)>>}
    BY <1>5, <1>8, <2>1
  <2>3. ~o.ok /\ o.runner = begun
    BY <2>1 DEF Outcome
  <2>4. /\ o.session = Fault(Refuse(v, r.session)).session
        /\ o.durable = Fault(Refuse(v, r.session)).durable
    BY <2>1 DEF Outcome
  <2>5. /\ Gives(Refuse(v, r.session), {})
        /\ Refuse(v, r.session).session.frames = r.session.frames
    BY <2>2, RefusalGives
  <2>6. o.session = Refuse(v, r.session).session /\ o.durable = {}
    BY <2>4, <2>5, FaultsAre, FaultGives DEF Gives
  <2>7. IsServed(o.session) /\ o.session.frames \in {s.frames, <<Frame(0)>>}
    BY <2>2, <2>5, <2>6 DEF Gives
  <2> QED BY <1>1, <2>1, <2>3, <2>6, <2>7 DEF StartedWith
<1> QED BY <1>7, <1>9, <1>10, <1>11

\* A runner without a connection begins nothing.
LEMMA StartFails ==
    ASSUME NEW v, NEW q \in Runners, NEW s, IsServed(s), ~s.alive,
           NEW o \in StartTransaction(v, q, s)
    PROVE  ~o.ok /\ o.durable = {}
<1> DEFINE begun == [q EXCEPT !.active = TRUE]
           due   == IF q.depth = 0 THEN Begin(v, s) ELSE Savepoint(v, s, q.depth)
           sent  == Query(q, s, due, Refuse(v, s))
           done  == [begun EXCEPT !.depth = q.depth + 1]
           back  == [q EXCEPT !.active = FALSE]
<1>1. ASSUME NEW r \in sent PROVE ~r.ok /\ r.durable = {}
  <2>1. r = Reply(FALSE, s, {})
    BY DEF Query, Replies
  <2>2. ~Reply(FALSE, s, {}).ok
    BY RepliesAre DEF IsServed
  <2>3. Reply(FALSE, s, {}).durable = {}
    BY ReplyGives
  <2> QED BY <2>1, <2>2, <2>3
<1>2. \/ \E p, c : o = Thrown(p, s, c)
      \/ o \in Outcomes(sent, begun, done)
      \/ o \in {Outcome(FALSE, begun, Fault(Refuse(v, r.session)), "database") :
                  r \in {x \in sent : x.ok /\ q.depth = 0 /\ v = "postgres"}}
  BY DEF StartTransaction
<1> HIDE DEF begun, due, sent, done, back
<1>3. CASE \E p, c : o = Thrown(p, s, c)
  <2>1. PICK p, c : o = Thrown(p, s, c)
    BY <1>3
  <2>2. ~o.ok
    BY <2>1, ThrownIs
  <2>3. o.durable = {}
    BY <2>1, ReplyGives DEF Thrown, Outcome
  <2> QED BY <2>2, <2>3
<1>4. CASE o \in Outcomes(sent, begun, done)
  BY <1>1, <1>4, OutcomesGive
<1> QED BY <1>1, <1>2, <1>3, <1>4

LEMMA MergeGives ==
    ASSUME NEW s, IsServed(s), NEW mark, NEW c, IsCut(s.frames, c, mark)
    PROVE  IsFrames(Merge(s, c)) /\ Merged(s.frames, c, Merge(s, c)) /\ Merge(s, c) # <<>>
<1> DEFINE f == s.frames
           N == Len(f)
           g == Merge(s, c)
           rest(i) == UNION {f[j].work : j \in i..N}
<1>1. /\ N \in Nat /\ DOMAIN f = 1..N
      /\ \A i \in DOMAIN f : f[i].mark \in Int /\ f[i] \in Frames
  BY FramesHave DEF IsServed
<1>2. c \in 1..N /\ c > 1
  BY <1>1 DEF IsCut
<1>3. DOMAIN g = 1..(c - 1)
  BY DEF Merge
<1>4. \A i \in 1..(c - 1) :
        g[i] = IF i < c - 1 THEN f[i] ELSE [f[i] EXCEPT !.work = rest(i)]
  BY DEF Merge
<1> HIDE DEF f, N, g, rest
<1>5. ASSUME NEW i \in 1..(c - 1), i # c - 1 PROVE g[i] = f[i]
  <2>1. i < c - 1
    BY <1>1, <1>2, <1>5
  <2> QED BY <1>4, <2>1, Zenon
<1>6. /\ g[c - 1] = [f[c - 1] EXCEPT !.work = rest(c - 1)]
      /\ c - 1 \in 1..(c - 1) /\ c - 1 \in 1..N
  <2>1. c - 1 \in 1..(c - 1) /\ c - 1 \in 1..N /\ ~(c - 1 < c - 1)
    BY <1>1, <1>2
  <2> QED BY <1>4, <2>1, Zenon
<1>7. rest(c - 1) \subseteq Work
  BY <1>1, <1>2 DEF Frames, rest
<1> DEFINE all == rest(c - 1)
<1>a. all = UNION {f[j].work : j \in (c - 1)..N}
  BY DEF rest
<1>b. all = rest(c - 1)
  OBVIOUS
<1> HIDE DEF all
<1>8. /\ g[c - 1] \in Frames /\ g[c - 1].mark = f[c - 1].mark
      /\ g[c - 1].work = all
  <2>1. f[c - 1] \in Frames
    BY <1>1, <1>6
  <2>2. g[c - 1] = [f[c - 1] EXCEPT !.work = all] /\ all \subseteq Work
    BY <1>6, <1>7, <1>b
  <2> QED BY <2>1, <2>2 DEF Frames
<1>9. IsFrames(g)
  <2>1. \A i \in 1..(c - 1) : g[i] \in Frames
    BY <1>1, <1>2, <1>5, <1>8
  <2>2. c - 1 \in Nat
    BY <1>1, <1>2
  <2>3. g = [i \in 1..(c - 1) |-> g[i]]
    BY <1>3 DEF g, Merge
  <2>4. g \in [1..(c - 1) -> Frames]
    BY <2>1, <2>3
  <2>5. g \in Seq(Frames)
    BY <2>2, <2>4
  <2> QED BY <2>5 DEF IsFrames
<1>10. \A i \in DOMAIN f : i >= c - 1 => f[i].work \subseteq all
  BY <1>1, <1>2, <1>a
<1>11. \A w \in all : \E i \in DOMAIN f : i >= c - 1 /\ w \in f[i].work
  BY <1>1, <1>2, <1>a
<1>12. ASSUME NEW i \in DOMAIN g
       PROVE  /\ g[i].mark = f[i].mark /\ f[i].work \subseteq g[i].work
              /\ i # c - 1 => g[i].work = f[i].work
  <2>1. CASE i = c - 1
    <3>1. f[c - 1].work \subseteq all
      BY <1>1, <1>2, <1>6, <1>10
    <3> QED BY <1>8, <2>1, <3>1
  <2>2. CASE i # c - 1
    BY <1>3, <1>5, <2>2
  <2> QED BY <2>1, <2>2
<1>13. \A i \in DOMAIN f : i >= c => f[i].work \subseteq g[c - 1].work
  BY <1>1, <1>2, <1>8, <1>10
<1>14. Merged(f, c, g)
  BY <1>3, <1>8, <1>11, <1>12, <1>13 DEF Merged
<1>15. g # <<>>
  BY <1>3, <1>6
<1> QED BY <1>9, <1>14, <1>15 DEF f, g

\* RELEASE SAVEPOINT
ReleasedAs(s, m, r) ==
    /\ Gives(r, {})
    /\ r.ok => /\ ~r.session.failed /\ r.session.frames # <<>>
               /\ \E c : IsCut(s.frames, c, m) /\ Merged(s.frames, c, r.session.frames)

LEMMA ReleaseGives ==
    ASSUME NEW v, NEW s, IsServed(s), NEW m
    PROVE  ReleasedAs(s, m, Release(v, s, m))
<1> DEFINE c == LatestMark(s, m)
           g == Merge(s, c)
           t == [s EXCEPT !.frames = g]
<1>1. ReleasedAs(s, m, Refuse(v, s))
  BY RefusalGives DEF ReleasedAs
<1>2. \/ Release(v, s, m) = Refuse(v, s)
      \/ Release(v, s, m) = Reply(TRUE, t, {}) /\ ~s.failed /\ Marked(s, m) # {}
  BY DEF Release
<1>3. ASSUME ~s.failed, Marked(s, m) # {}
      PROVE  ReleasedAs(s, m, Reply(TRUE, t, {}))
  <2>1. IsCut(s.frames, c, m)
    BY <1>3, Latest DEF IsServed
  <2> HIDE DEF c
  <2>2. IsFrames(g) /\ Merged(s.frames, c, g) /\ g # <<>>
    BY <2>1, MergeGives
  <2> HIDE DEF g
  <2>3. IsServed(t) /\ t.frames = g /\ t.failed = s.failed
    BY <2>2, FramesGiven
  <2> HIDE DEF t
  <2>4. /\ Gives(Reply(TRUE, t, {}), {}) /\ Reply(TRUE, t, {}).session = t
    BY <2>3, SuccessGives
  <2>5. \E x : IsCut(s.frames, x, m) /\ Merged(s.frames, x, t.frames)
    BY <2>1, <2>2, <2>3
  <2> QED BY <1>3, <2>2, <2>3, <2>4, <2>5 DEF ReleasedAs
<1> QED BY <1>1, <1>2, <1>3

LEMMA EndedServed ==
    ASSUME NEW v, NEW s, IsServed(s)
    PROVE  IsServed(Ended(v, s)) /\ Ended(v, s).frames = <<>> /\ ~Ended(v, s).failed
<1>1. IsSession(Ended(v, s)) /\ Ended(v, s).frames = <<>>
  BY EndedIs DEF Over, IsServed
<1>2. ~Ended(v, s).failed
  BY DEF Ended, IsServed, IsSession
<1>3. <<>> \in Seq(Frames)
  OBVIOUS
<1> QED BY <1>1, <1>2, <1>3 DEF IsServed, IsFrames

\* COMMIT
LEMMA CommitReplies ==
    ASSUME NEW v, NEW s, IsServed(s)
    PROVE  /\ IsReply(Commit(v, s)) /\ IsServed(Commit(v, s).session)
           /\ Commit(v, s).session.frames = <<>> /\ Commit(v, s).cause = "none"
           /\ Commit(v, s).durable = IF s.failed THEN {} ELSE WorkOf(s)
           /\ Gives(RefusedCommit(v, s), {}) /\ ~RefusedCommit(v, s).ok
<1> DEFINE t == Ended(v, s)
           all == IF s.failed THEN {} ELSE WorkOf(s)
<1>1. IsServed(t) /\ t.frames = <<>>
  BY EndedServed
<1>2. Commit(v, s) = Reply(TRUE, t, all)
  BY DEF Commit
<1>3. RefusedCommit(v, s) = Reply(FALSE, t, {})
  BY DEF RefusedCommit
<1> HIDE DEF t, all
<1>4. Gives(Reply(TRUE, t, all), all) /\ Reply(TRUE, t, all).session = t
  BY <1>1, SuccessGives
<1>5. /\ IsReply(Reply(FALSE, t, {})) /\ ~Reply(FALSE, t, {}).ok
      /\ Reply(FALSE, t, {}).session = t
  BY <1>1, RepliesAre DEF IsServed
<1>6. Reply(FALSE, t, {}).durable = {} /\ Reply(FALSE, t, {}).cause = "none"
  BY ReplyGives
<1>7. Gives(RefusedCommit(v, s), {}) /\ ~RefusedCommit(v, s).ok
  BY <1>1, <1>3, <1>5, <1>6 DEF Gives
<1>8. /\ IsReply(Commit(v, s)) /\ IsServed(Commit(v, s).session)
      /\ Commit(v, s).session.frames = <<>> /\ Commit(v, s).cause = "none"
      /\ Commit(v, s).durable = all
  BY <1>1, <1>2, <1>4 DEF Gives
<1> QED BY <1>7, <1>8 DEF all

\* A method has left the runner q with one level less.
OneLess(q, p, active) == p.active = active /\ p.depth = q.depth - 1

(***************************************************************************)
(* commitTransaction: an error before anything was sent; COMMIT; RELEASE   *)
(* SAVEPOINT; nothing at all in a nested transaction of Oracle.            *)
(***************************************************************************)
CommittedWith(v, q, s, o) ==
    /\ IsServed(o.session)
    /\ \/ /\ ~o.ok /\ o.durable = {} /\ o.runner = q /\ o.session = s
       \/ /\ q.active /\ q.depth <= 1 /\ o.cause # "before"
          /\ o.ok => /\ s.alive /\ OneLess(q, o.runner, FALSE) /\ o.session.frames = <<>>
                     /\ o.durable = IF s.failed THEN {} ELSE WorkOf(s)
          /\ ~o.ok => /\ o.runner = q \/ OneLess(q, o.runner, FALSE)
                      /\ o.durable \subseteq WorkOf(s)
                      /\ ~s.alive => o.durable = {}
       \/ /\ v = "postgres" /\ q.active /\ q.depth > 1 /\ o.durable = {}
          /\ o.ok => /\ s.alive /\ OneLess(q, o.runner, TRUE)
                     /\ ~o.session.failed /\ o.session.frames # <<>>
                     /\ \E c : /\ IsCut(s.frames, c, q.depth - 1)
                               /\ Merged(s.frames, c, o.session.frames)
          /\ ~o.ok => o.runner = q \/ OneLess(q, o.runner, TRUE)
       \/ /\ v = "oracle" /\ q.active /\ q.depth # 1 /\ o.durable = {}
          /\ o.session = s /\ OneLess(q, o.runner, TRUE)

LEMMA CommitGives ==
    ASSUME NEW v \in Vendors, NEW q \in Runners, NEW s, IsServed(s), s.alive => ~q.released,
           NEW o \in CommitTransaction(v, q, s)
    PROVE  CommittedWith(v, q, s, o)
<1> DEFINE outer == [q EXCEPT !.depth = q.depth - 1, !.active = FALSE]
           inner == [q EXCEPT !.depth = q.depth - 1]
           whole == IF v = "postgres" THEN q.depth <= 1 ELSE q.depth = 1
           commit == Query(q, s, Commit(v, s), RefusedCommit(v, s))
           release == Query(q, s, Release(v, s, q.depth - 1), Refuse(v, s))
           nothing == {Reply(TRUE, s, {})}
<1>1. q.depth \in Int /\ q.depth - 1 \in Int
  BY DEF Runners
<1>2. inner \in Runners /\ inner.active = q.active /\ inner.depth = q.depth - 1
  BY <1>1, DepthWritten
<1>3. outer = [inner EXCEPT !.active = FALSE]
  OBVIOUS
<1>4. ~outer.active /\ outer.depth = q.depth - 1
  BY <1>2, <1>3, ActiveWritten
<1>5. \/ o = Thrown(q, s, "none") \/ o = Thrown(q, s, "before")
      \/ q.active /\ whole /\ o \in Outcomes(commit, q, outer)
      \/ q.active /\ ~whole /\ v = "postgres" /\ o \in Outcomes(release, q, inner)
      \/ q.active /\ ~whole /\ v # "postgres" /\ o \in Outcomes(nothing, q, inner)
  BY DEF CommitTransaction
<1>6. ASSUME NEW r \in commit
      PROVE  /\ IsServed(r.session) /\ r.cause # "before"
             /\ r.ok => /\ s.alive /\ r.session.frames = <<>>
                        /\ r.durable = IF s.failed THEN {} ELSE WorkOf(s)
             /\ ~r.ok => r.durable \subseteq WorkOf(s) /\ (~s.alive => r.durable = {})
  <2>1. /\ IsReply(Commit(v, s)) /\ IsServed(Commit(v, s).session)
        /\ Commit(v, s).session.frames = <<>> /\ Commit(v, s).cause = "none"
        /\ Commit(v, s).durable = IF s.failed THEN {} ELSE WorkOf(s)
        /\ Gives(RefusedCommit(v, s), {}) /\ ~RefusedCommit(v, s).ok
    BY CommitReplies
  <2>2. /\ IsReply(r) /\ IsFrames(r.session.frames) /\ r.cause # "before"
        /\ Sent(q, s, Commit(v, s), RefusedCommit(v, s), r)
    BY <2>1, QueryGives DEF Gives, IsServed
  <2>3. IsServed(r.session)
    BY <2>2 DEF IsServed, IsReply
  <2>4. (IF s.failed THEN {} ELSE WorkOf(s)) \subseteq WorkOf(s)
    OBVIOUS
  <2> QED BY <2>1, <2>2, <2>3, <2>4 DEF Sent, Gives
<1>7. ASSUME NEW r \in release
      PROVE  /\ IsServed(r.session) /\ r.durable = {}
             /\ r.ok => /\ s.alive /\ ~r.session.failed /\ r.session.frames # <<>>
                        /\ \E c : /\ IsCut(s.frames, c, q.depth - 1)
                                  /\ Merged(s.frames, c, r.session.frames)
  <2> DEFINE due == Release(v, s, q.depth - 1)
  <2>1. ReleasedAs(s, q.depth - 1, due)
    BY ReleaseGives
  <2>2. Gives(Refuse(v, s), {}) /\ ~Refuse(v, s).ok
    BY RefusalGives
  <2> HIDE DEF due
  <2>3. Gives(due, {})
    BY <2>1 DEF ReleasedAs
  <2>4. /\ IsReply(r) /\ IsFrames(r.session.frames)
        /\ Sent(q, s, due, Refuse(v, s), r)
    BY <2>2, <2>3, QueryGives DEF Gives, IsServed, due
  <2>5. IsServed(r.session)
    BY <2>4 DEF IsServed, IsReply
  <2>6. r.durable = {} /\ (r.ok => s.alive /\ due.ok /\ r.session = due.session)
    BY <2>2, <2>3, <2>4 DEF Sent, Gives
  <2> QED BY <2>1, <2>5, <2>6 DEF ReleasedAs
<1>8. ASSUME NEW r \in nothing
      PROVE  r.session = s /\ r.durable = {} /\ r.ok
  <2>1. r = Reply(TRUE, s, {})
    OBVIOUS
  <2> HIDE DEF nothing
  <2>2. Gives(r, {}) /\ r.ok /\ r.session = s
    BY <2>1, SuccessGives
  <2> QED BY <2>2 DEF Gives
<1>9. whole <=> IF v = "postgres" THEN q.depth <= 1 ELSE q.depth = 1
  OBVIOUS
<1> HIDE DEF outer, inner, whole, commit, release, nothing
<1>10. CASE o = Thrown(q, s, "none") \/ o = Thrown(q, s, "before")
  <2>1. PICK cause : o = Thrown(q, s, cause)
    BY <1>10
  <2>2. ~o.ok /\ o.runner = q /\ o.session = s
    BY <2>1, ThrownIs
  <2>3. o.durable = {}
    BY <2>1, ReplyGives DEF Thrown, Outcome
  <2> QED BY <2>2, <2>3 DEF CommittedWith
<1>11. CASE q.active /\ whole /\ o \in Outcomes(commit, q, outer)
  <2>1. PICK r \in commit :
          /\ o.session = r.session /\ o.durable = r.durable
          /\ \/ ~o.ok /\ ~r.ok /\ o.runner = q /\ o.cause = r.cause
             \/ o.ok /\ r.ok /\ o.runner = outer /\ o.cause = r.cause
             \/ ~o.ok /\ r.ok /\ o.runner = outer /\ o.cause = "after"
    BY <1>11, OutcomesGive
  <2>2. q.depth <= 1 /\ OneLess(q, outer, FALSE)
    BY <1>1, <1>4, <1>9, <1>11 DEF OneLess
  <2>3. o.cause # "before"
    BY <1>6, <2>1
  <2>4. o.durable \subseteq WorkOf(s) /\ (~s.alive => o.durable = {})
    BY <1>6, <2>1
  <2> QED BY <1>6, <1>11, <2>1, <2>2, <2>3, <2>4 DEF CommittedWith
<1>12. CASE q.active /\ ~whole /\ v = "postgres" /\ o \in Outcomes(release, q, inner)
  <2>1. PICK r \in release :
          /\ o.session = r.session /\ o.durable = r.durable
          /\ \/ ~o.ok /\ o.runner = q
             \/ r.ok /\ o.runner = inner
    BY <1>12, OutcomesGive
  <2>2. q.depth > 1 /\ OneLess(q, inner, TRUE)
    BY <1>1, <1>2, <1>9, <1>12 DEF OneLess
  <2> QED BY <1>7, <1>12, <2>1, <2>2 DEF CommittedWith
<1>13. CASE q.active /\ ~whole /\ v # "postgres" /\ o \in Outcomes(nothing, q, inner)
  <2>1. PICK r \in nothing :
          /\ o.session = r.session /\ o.durable = r.durable
          /\ ~r.ok \/ o.runner = inner
    BY <1>13, OutcomesGive
  <2>2. q.depth # 1 /\ OneLess(q, inner, TRUE) /\ v = "oracle"
    BY <1>1, <1>2, <1>9, <1>13 DEF OneLess, Vendors
  <2> QED BY <1>8, <1>13, <2>1, <2>2 DEF CommittedWith
<1> QED BY <1>5, <1>10, <1>11, <1>12, <1>13

\* ROLLBACK TO SAVEPOINT
CutBackAs(s, m, r) ==
    /\ Gives(r, {})
    /\ r.ok => /\ ~r.session.failed /\ r.session.frames # <<>>
               /\ \E c : IsCut(s.frames, c, m) /\ CutBack(s.frames, c, r.session.frames)

LEMMA CutGives ==
    ASSUME NEW f, IsFrames(f), NEW m \in Int, NEW c, IsCut(f, c, m),
           NEW g, g = Append(SubSeq(f, 1, c - 1), Frame(m))
    PROVE  IsFrames(g) /\ g # <<>> /\ CutBack(f, c, g)
<1> DEFINE N == Len(f)
           h == SubSeq(f, 1, c - 1)
<1>1. N \in Nat /\ DOMAIN f = 1..N /\ \A i \in DOMAIN f : f[i] \in Frames
  BY FramesHave
<1>2. c \in 1..N /\ c > 1 /\ f[c].mark = m
  BY <1>1 DEF IsCut
<1>3. Frame(m) \in Frames /\ Frame(m).mark = m /\ Frame(m).work = {}
  BY FrameIn DEF Frame
<1>4. h \in Seq(Frames) /\ Len(h) = c - 1 /\ \A i \in 1..(c - 1) : h[i] = f[i]
  <2> DEFINE n == c - 1
  <2>1. n \in Nat /\ 1 \in Int /\ 1 <= n /\ n \in 1..N
    BY <1>1, <1>2
  <2>2. \A i \in 1..n : f[i] \in Frames
    BY <1>1, <2>1
  <2>3. /\ SubSeq(f, 1, n) \in Seq(Frames)
        /\ Len(SubSeq(f, 1, n)) = IF 1 <= n THEN n - 1 + 1 ELSE 0
        /\ \A i \in 1..(n - 1 + 1) : SubSeq(f, 1, n)[i] = f[1 + i - 1]
    BY <2>1, <2>2, SubSeqProperties
  <2>4. n - 1 + 1 = n /\ \A i \in 1..n : 1 + i - 1 = i
    BY <2>1
  <2> HIDE DEF n
  <2>5. \A i \in 1..n : SubSeq(f, 1, n)[i] = f[i]
    BY <2>3, <2>4
  <2>6. Len(SubSeq(f, 1, n)) = n
    BY <2>1, <2>3, <2>4
  <2> QED BY <2>3, <2>5, <2>6 DEF n
<1> HIDE DEF h, N
<1>5. /\ g \in Seq(Frames) /\ Len(g) = c /\ g[c] = Frame(m)
      /\ \A i \in 1..(c - 1) : g[i] = h[i]
  <2> DEFINE x == Frame(m)
  <2>1. x \in Frames /\ g = Append(h, x)
    BY <1>3 DEF h
  <2> HIDE DEF x
  <2>2. /\ Append(h, x) \in Seq(Frames) /\ Len(Append(h, x)) = Len(h) + 1
        /\ \A i \in 1..Len(h) : Append(h, x)[i] = h[i]
        /\ Append(h, x)[Len(h) + 1] = x
    BY <1>4, <2>1, AppendProperties
  <2>3. Len(h) + 1 = c
    BY <1>1, <1>2, <1>4
  <2> QED BY <1>4, <2>1, <2>2, <2>3 DEF x
<1>6. DOMAIN g = 1..c
  BY <1>5
<1>7. \A i \in DOMAIN g : i # c => g[i] = f[i]
  <2>1. \A i \in 1..c : i # c => i \in 1..(c - 1)
    BY <1>1, <1>2
  <2> QED BY <1>4, <1>5, <1>6, <2>1
<1>8. g # <<>>
  <2>1. Len(g) # 0
    BY <1>1, <1>2, <1>5
  <2> QED BY <2>1
<1> QED BY <1>2, <1>3, <1>5, <1>6, <1>7, <1>8 DEF IsFrames, CutBack

LEMMA RollbackToGives ==
    ASSUME NEW v, NEW s, IsServed(s), NEW m \in Int
    PROVE  CutBackAs(s, m, RollbackTo(v, s, m))
<1> DEFINE c == LatestMark(s, m)
           g == Append(SubSeq(s.frames, 1, c - 1), Frame(m))
           t == [s EXCEPT !.frames = g, !.failed = FALSE]
<1>1. CutBackAs(s, m, Refuse(v, s))
  BY RefusalGives DEF CutBackAs
<1>2. \/ RollbackTo(v, s, m) = Refuse(v, s)
      \/ RollbackTo(v, s, m) = Reply(TRUE, t, {}) /\ Marked(s, m) # {}
  BY DEF RollbackTo
<1>3. ASSUME Marked(s, m) # {}
      PROVE  CutBackAs(s, m, Reply(TRUE, t, {}))
  <2>1. IsCut(s.frames, c, m)
    BY <1>3, Latest DEF IsServed
  <2> HIDE DEF c
  <2>2. IsFrames(g) /\ CutBack(s.frames, c, g) /\ g # <<>>
    BY <2>1, CutGives DEF IsServed
  <2> HIDE DEF g
  <2>3. IsSession(t) /\ t.frames = g
    BY DEF IsServed, IsSession
  <2>4. ~t.failed
    BY DEF IsServed, IsSession
  <2> HIDE DEF t
  <2>5. /\ Gives(Reply(TRUE, t, {}), {}) /\ Reply(TRUE, t, {}).session = t
    BY <2>2, <2>3, SuccessGives DEF IsServed
  <2>6. \E x : IsCut(s.frames, x, m) /\ CutBack(s.frames, x, t.frames)
    BY <2>1, <2>2, <2>3
  <2> QED BY <2>2, <2>3, <2>4, <2>5, <2>6 DEF CutBackAs
<1> QED BY <1>1, <1>2, <1>3

(***************************************************************************)
(* rollbackTransaction makes nothing durable; when it succeeds there is    *)
(* one level less.                                                         *)
(***************************************************************************)
RolledBackWith(q, s, o) ==
    /\ IsServed(o.session) /\ o.durable = {}
    /\ o.ok /\ q.depth > 1 =>
         /\ OneLess(q, o.runner, TRUE) /\ ~o.session.failed /\ o.session.frames # <<>>
         /\ \E c : /\ IsCut(s.frames, c, q.depth - 1)
                   /\ CutBack(s.frames, c, o.session.frames)
    /\ o.ok /\ q.depth <= 1 => OneLess(q, o.runner, FALSE) /\ o.session.frames = <<>>
    /\ o.ok => s.alive

LEMMA RollbackGives ==
    ASSUME NEW v, NEW q \in Runners, q.active, NEW s, IsServed(s),
           NEW o \in RollbackTransaction(v, q, s)
    PROVE  RolledBackWith(q, s, o)
<1> DEFINE outer == [q EXCEPT !.depth = q.depth - 1, !.active = FALSE]
           inner == [q EXCEPT !.depth = q.depth - 1]
           due   == IF q.depth > 1 THEN RollbackTo(v, s, q.depth - 1) ELSE Rollback(v, s)
           done  == IF q.depth > 1 THEN inner ELSE outer
           sent  == Query(q, s, due, AnsweredLate(due))
<1>1. q.depth \in Int /\ q.depth - 1 \in Int
  BY DEF Runners
<1>2. inner \in Runners /\ inner.active = q.active /\ inner.depth = q.depth - 1
  BY <1>1, DepthWritten
<1>3. outer = [inner EXCEPT !.active = FALSE]
  OBVIOUS
<1>4. ~outer.active /\ outer.depth = q.depth - 1
  BY <1>2, <1>3, ActiveWritten
<1>5. /\ q.depth > 1 => OneLess(q, done, TRUE)
      /\ q.depth <= 1 => OneLess(q, done, FALSE)
  <2>1. q.depth <= 1 => ~(q.depth > 1)
    BY <1>1
  <2>2. OneLess(q, inner, TRUE) /\ OneLess(q, outer, FALSE)
    BY <1>2, <1>4 DEF OneLess
  <2> HIDE DEF inner, outer
  <2> QED BY <2>1, <2>2
<1>6. /\ Gives(due, {})
      /\ due.ok /\ q.depth > 1 =>
           /\ ~due.session.failed /\ due.session.frames # <<>>
           /\ \E c : /\ IsCut(s.frames, c, q.depth - 1)
                     /\ CutBack(s.frames, c, due.session.frames)
      /\ q.depth <= 1 => due.session.frames = <<>>
  <2>1. CASE q.depth > 1
    <3>1. CutBackAs(s, q.depth - 1, due)
      BY <1>1, <2>1, RollbackToGives
    <3> HIDE DEF due
    <3>2. ~(q.depth <= 1)
      BY <1>1, <2>1
    <3> QED BY <3>1, <3>2 DEF CutBackAs
  <2>2. CASE ~(q.depth > 1)
    <3>1. due = Reply(TRUE, Ended(v, s), {})
      BY <2>2 DEF Rollback
    <3>2. IsServed(Ended(v, s)) /\ Ended(v, s).frames = <<>>
      BY EndedServed
    <3> HIDE DEF due
    <3>3. Gives(due, {}) /\ due.session.frames = <<>>
      BY <3>1, <3>2, SuccessGives
    <3> QED BY <2>2, <3>3
  <2> QED BY <2>1, <2>2
<1>7. \/ o = Thrown(q, s, "before")
      \/ o \in Outcomes(sent, q, done)
  BY DEF RollbackTransaction
<1> HIDE DEF outer, inner, due, done
<1>8. Gives(AnsweredLate(due), {}) /\ ~AnsweredLate(due).ok
  <2>1. /\ IsReply(AnsweredLate(due)) /\ ~AnsweredLate(due).ok
        /\ AnsweredLate(due).session = due.session
    BY <1>6, AnsweredLateIs DEF Gives
  <2>2. AnsweredLate(due).durable = due.durable /\ AnsweredLate(due).cause = due.cause
    BY <1>6 DEF Gives, IsReply, AnsweredLate
  <2> QED BY <1>6, <2>1, <2>2 DEF Gives
<1>9. ASSUME NEW r \in sent
      PROVE  /\ IsServed(r.session) /\ r.durable = {}
             /\ r.ok => s.alive /\ due.ok /\ r.session = due.session
  <2>1. /\ IsReply(r) /\ IsFrames(r.session.frames)
        /\ Sent(q, s, due, AnsweredLate(due), r)
    BY <1>6, <1>8, QueryGives DEF Gives, IsServed
  <2>2. IsServed(r.session)
    BY <2>1 DEF IsServed, IsReply
  <2> QED BY <1>6, <1>8, <2>1, <2>2 DEF Sent, Gives
<1> HIDE DEF sent
<1>10. CASE o = Thrown(q, s, "before")
  <2>1. ~o.ok /\ o.session = s
    BY <1>10, ThrownIs
  <2>2. o.durable = {}
    BY <1>10, ReplyGives DEF Thrown, Outcome
  <2> QED BY <2>1, <2>2 DEF RolledBackWith
<1>11. CASE o \in Outcomes(sent, q, done)
  <2>1. PICK r \in sent :
          /\ o.session = r.session /\ o.durable = r.durable
          /\ ~o.ok \/ (r.ok /\ o.runner = done)
    BY <1>11, OutcomesGive
  <2>2. IsServed(o.session) /\ o.durable = {}
    BY <1>9, <2>1
  <2>3. CASE ~o.ok
    BY <2>2, <2>3 DEF RolledBackWith
  <2>4. CASE o.ok
    <3>1. s.alive /\ o.session = due.session /\ due.ok /\ o.runner = done
      BY <1>9, <2>1, <2>4
    <3> QED BY <1>5, <1>6, <2>2, <3>1 DEF RolledBackWith
  <2> QED BY <2>3, <2>4
<1> QED BY <1>7, <1>10, <1>11

\* A statement does w in the transaction whose frames are f.
Written(f, w, g) ==
    /\ IsFrames(g) /\ DOMAIN g = DOMAIN f
    /\ \A i \in DOMAIN f : g[i].mark = f[i].mark
    /\ \A i \in 1..(Len(f) - 1) : g[i].work = f[i].work
    /\ g[Len(f)].work = f[Len(f)].work \cup {w}

LEMMA WrittenGives ==
    ASSUME NEW f, IsFrames(f), f # <<>>, NEW w \in Work,
           NEW g, g = [f EXCEPT ![Len(f)].work = @ \cup {w}]
    PROVE  Written(f, w, g) /\ g # <<>>
<1> DEFINE N == Len(f)
           x == [f[N] EXCEPT !.work = f[N].work \cup {w}]
<1>1. N \in Nat \ {0} /\ DOMAIN f = 1..N /\ \A i \in DOMAIN f : f[i] \in Frames
  BY FramesHave DEF IsFrames
<1>2. f \in Seq(Frames)
  BY DEF IsFrames
<1>3. g = [f EXCEPT ![N] = x]
  OBVIOUS
<1> HIDE DEF N, x
<1>4. x \in Frames /\ x.mark = f[N].mark /\ x.work = f[N].work \cup {w}
  <2>1. f[N] \in Frames /\ f[N].work \cup {w} \subseteq Work
    BY <1>1 DEF Frames
  <2> QED BY <2>1 DEF Frames, x
<1>5. /\ DOMAIN g = 1..N /\ g[N] = x
      /\ \A i \in 1..N : i # N => g[i] = f[i]
  BY <1>1, <1>3
<1>6. g \in Seq(Frames)
  <2>1. g = [i \in 1..N |-> g[i]]
    BY <1>1, <1>3
  <2>2. \A i \in 1..N : g[i] \in Frames
    BY <1>1, <1>4, <1>5
  <2>3. g \in [1..N -> Frames]
    BY <2>1, <2>2
  <2> QED BY <1>1, <2>3
<1>7. \A i \in DOMAIN f : g[i].mark = f[i].mark
  BY <1>1, <1>4, <1>5
<1>8. \A i \in 1..(N - 1) : g[i].work = f[i].work
  <2>1. \A i \in 1..(N - 1) : i \in 1..N /\ i # N
    BY <1>1
  <2> QED BY <1>5, <2>1
<1>9. g[N].work = f[N].work \cup {w}
  BY <1>4, <1>5
<1>10. Written(f, w, g)
  BY <1>1, <1>5, <1>6, <1>7, <1>8, <1>9 DEF Written, IsFrames, N
<1>11. g # <<>>
  BY <1>1, <1>5
<1> QED BY <1>10, <1>11

(***************************************************************************)
(* A statement that does w: it did nothing, or the connection is lost with *)
(* what it may have made durable by itself; it was durable at once; it is  *)
(* part of a transaction.                                                  *)
(***************************************************************************)
DoneWith(v, q, s, w, r) ==
    /\ IsServed(r.session)
    /\ \/ /\ ~r.ok /\ r.durable = {}
          /\ r.session.alive => /\ s.alive /\ r.session.frames = s.frames
                                /\ v = "oracle" /\ ~s.failed => ~r.session.failed
       \/ /\ s.alive /\ v = "postgres" /\ s.frames = <<>> /\ r.durable \subseteq {w}
          /\ ~r.ok => ~r.session.alive
          /\ r.ok => r.session.frames = <<>> /\ r.durable = {w}
       \/ /\ s.alive /\ v = "oracle" /\ ~q.active /\ r.durable \subseteq WorkOf(s) \cup {w}
          /\ ~r.ok => ~r.session.alive
          /\ r.ok => r.session.frames = <<>> /\ r.durable = WorkOf(s) \cup {w}
       \/ /\ r.ok /\ s.alive /\ r.durable = {} /\ ~r.session.failed
          /\ v = "postgres" => s.frames # <<>>
          /\ r.session.frames # <<>>
          /\ Written(FramesOf(s), w, r.session.frames)

\* The reply that is due to a statement.
DoneDue(v, q, s, w, r) ==
    /\ IsReply(r) /\ IsServed(r.session) /\ r.cause = "none"
    /\ \/ ~r.ok /\ Gives(r, {}) /\ r.session = Refuse(v, s).session
       \/ /\ r.ok /\ v = "postgres" /\ s.frames = <<>> /\ r.durable = {w}
          /\ r.session.frames = <<>>
       \/ /\ r.ok /\ v = "oracle" /\ ~q.active /\ r.durable = WorkOf(s) \cup {w}
          /\ r.session.frames = <<>>
       \/ /\ r.ok /\ r.durable = {} /\ ~r.session.failed
          /\ v = "postgres" => s.frames # <<>>
          /\ r.session.frames # <<>>
          /\ Written(FramesOf(s), w, r.session.frames)

LEMMA DoGives ==
    ASSUME NEW v \in Vendors, NEW q \in Runners, NEW s, IsServed(s), NEW w \in Work
    PROVE  DoneDue(v, q, s, w, Do(v, s, w, ~q.active))
<1> DEFINE f == FramesOf(s)
           g == [f EXCEPT ![Len(f)].work = @ \cup {w}]
           t == [s EXCEPT !.frames = g]
           all == WorkOf(s) \cup {w}
           r == Do(v, s, w, ~q.active)
<1>1. \/ r = Refuse(v, s)
      \/ v = "postgres" /\ s.frames = <<>> /\ r = Reply(TRUE, s, {w})
      \/ v = "oracle" /\ ~q.active /\ r = Reply(TRUE, Ended(v, s), all)
      \/ ~s.failed /\ (v = "postgres" => s.frames # <<>>) /\ r = Reply(TRUE, t, {})
  BY DEF Do, InTransaction
<1> HIDE DEF r, t
<1>2. ASSUME r = Refuse(v, s)
      PROVE  DoneDue(v, q, s, w, r)
  <2>1. Gives(r, {}) /\ ~r.ok
    BY <1>2, RefusalGives
  <2> QED BY <1>2, <2>1 DEF DoneDue, Gives
<1>3. ASSUME v = "postgres" /\ s.frames = <<>> /\ r = Reply(TRUE, s, {w})
      PROVE  DoneDue(v, q, s, w, r)
  <2>1. Gives(r, {w}) /\ r.ok /\ r.session = s
    BY <1>3, SuccessGives
  <2> QED BY <1>3, <2>1 DEF DoneDue, Gives
<1>4. ASSUME v = "oracle" /\ ~q.active /\ r = Reply(TRUE, Ended(v, s), all)
      PROVE  DoneDue(v, q, s, w, r)
  <2> HIDE DEF all
  <2>1. IsServed(Ended(v, s)) /\ Ended(v, s).frames = <<>>
    BY EndedServed
  <2>2. Gives(r, all) /\ r.ok /\ r.session = Ended(v, s)
    BY <1>4, <2>1, SuccessGives
  <2>3. r.session.frames = <<>> /\ r.durable = all
    BY <2>1, <2>2 DEF Gives
  <2> QED BY <1>4, <2>2, <2>3 DEF DoneDue, Gives, all
<1>5. ASSUME ~s.failed /\ (v = "postgres" => s.frames # <<>>) /\ r = Reply(TRUE, t, {})
      PROVE  DoneDue(v, q, s, w, r)
  <2>1. IsFrames(f) /\ f # <<>>
    BY FramesOfGives
  <2>2. Written(f, w, g) /\ g # <<>>
    <3> HIDE DEF f
    <3> QED BY <2>1, WrittenGives
  <2> HIDE DEF g
  <2>3. IsFrames(g)
    BY <2>2 DEF Written
  <2>4. IsServed(t) /\ t.frames = g /\ t.failed = s.failed
    BY <2>3, FramesGiven DEF t
  <2>5. Gives(r, {}) /\ r.ok /\ r.session = t
    BY <1>5, <2>4, SuccessGives
  <2> QED BY <1>5, <2>2, <2>4, <2>5 DEF DoneDue, Gives
<1> QED BY <1>1, <1>2, <1>3, <1>4, <1>5 DEF r

LEMMA ExecuteGives ==
    ASSUME NEW v \in Vendors, NEW q \in Runners, NEW s, IsServed(s), NEW w \in Work,
           NEW r \in Execute(v, q, s, w)
    PROVE  DoneWith(v, q, s, w, r)
<1> DEFINE due == Do(v, s, w, ~q.active)
<1>1. DoneDue(v, q, s, w, due)
  BY DoGives
<1>2. r \in Query(q, s, due, Refuse(v, s))
  BY DEF Execute
<1> HIDE DEF due
<1>3. Gives(Refuse(v, s), {}) /\ ~Refuse(v, s).ok /\ Refuse(v, s).session.frames = s.frames
  BY RefusalGives
<1>4. v = "oracle" /\ ~s.failed => ~Refuse(v, s).session.failed
  <2> SUFFICES ASSUME v = "oracle", ~s.failed PROVE ~Refuse(v, s).session.failed
    OBVIOUS
  <2> DEFINE t == [s EXCEPT !.failed = FALSE]
  <2>1. (s.failed \/ (v = "postgres" /\ InTransaction(s))) = FALSE
    OBVIOUS
  <2>2. Refuse(v, s) = Reply(FALSE, t, {})
    BY <2>1, Zenon DEF Refuse
  <2>3. IsSession(t)
    BY DEF IsServed, IsSession
  <2>4. ~t.failed
    BY DEF IsServed, IsSession
  <2> HIDE DEF t
  <2>5. Reply(FALSE, t, {}).session = t
    BY <2>3, RepliesAre
  <2>6. Refuse(v, s).session = t
    BY <2>2, <2>5, Zenon
  <2> QED BY <2>4, <2>6, Zenon
<1>5. /\ IsReply(r) /\ IsFrames(r.session.frames)
      /\ Sent(q, s, due, Refuse(v, s), r)
  BY <1>1, <1>2, <1>3, QueryGives DEF DoneDue, Gives, IsServed
<1>6. IsServed(r.session)
  BY <1>5 DEF IsServed, IsReply
<1>7. CASE ~r.ok /\ r.session = s /\ r.durable = {}
  BY <1>6, <1>7 DEF DoneWith
<1>8. CASE ~r.ok /\ s.alive /\ ~r.session.alive /\ r.durable \in {{}, due.durable}
  <2>1. \/ r.durable = {}
        \/ v = "postgres" /\ s.frames = <<>> /\ r.durable = {w}
        \/ v = "oracle" /\ ~q.active /\ r.durable = WorkOf(s) \cup {w}
    BY <1>1, <1>8 DEF DoneDue, Gives
  <2> QED BY <1>6, <1>8, <2>1 DEF DoneWith
<1>9. ASSUME s.alive, r.session = Refuse(v, s).session, ~r.ok, r.durable = {}
      PROVE  DoneWith(v, q, s, w, r)
  <2>1. /\ r.session.frames = s.frames
        /\ v = "oracle" /\ ~s.failed => ~r.session.failed
    BY <1>3, <1>4, <1>9
  <2> QED BY <1>6, <1>9, <2>1 DEF DoneWith
<1>10. CASE s.alive /\ r.session = due.session /\ r.ok = due.ok /\ r.durable = due.durable
  <2>1. CASE ~due.ok /\ Gives(due, {}) /\ due.session = Refuse(v, s).session
    BY <1>9, <1>10, <2>1 DEF Gives
  <2>2. CASE due.ok
    BY <1>1, <1>6, <1>10, <2>2 DEF DoneDue, DoneWith
  <2> QED BY <1>1, <2>1, <2>2 DEF DoneDue
<1>11. \/ ~r.ok /\ r.session = s /\ r.durable = {}
       \/ ~r.ok /\ s.alive /\ ~r.session.alive /\ r.durable \in {{}, due.durable}
       \/ s.alive /\ r.session = due.session /\ r.ok = due.ok /\ r.durable = due.durable
       \/ s.alive /\ r.session = Refuse(v, s).session /\ ~r.ok /\ r.durable = {}
  BY <1>3, <1>5 DEF Sent, Gives
<1> QED BY <1>7, <1>8, <1>9, <1>10, <1>11

\* Session options do not touch the transaction.
SetWith(s, r) ==
    /\ IsServed(r.session) /\ r.durable = {}
    /\ r.session.alive => s.alive /\ r.session.frames = s.frames
    /\ r.ok => s.alive /\ ~s.failed /\ ~r.session.failed

LEMMA OptionGives ==
    ASSUME NEW v, NEW q, NEW s, IsServed(s), NEW changed,
           NEW t, IsServed(t), t.frames = s.frames,
           NEW r \in Query(q, s, SetOption(v, s, changed), Refuse(v, t))
    PROVE  SetWith(s, r)
<1> DEFINE due == SetOption(v, s, changed)
           set == [s EXCEPT !.changed = changed]
<1>1. Gives(Refuse(v, t), {}) /\ ~Refuse(v, t).ok /\ Refuse(v, t).session.frames = s.frames
  BY RefusalGives
<1>2. /\ Gives(due, {}) /\ due.session.frames = s.frames
      /\ due.ok => ~s.failed /\ ~due.session.failed
  <2>1. due = Refuse(v, s) \/ (~s.failed /\ due = Reply(TRUE, set, {}))
    BY DEF SetOption
  <2>2. IsServed(set) /\ set.frames = s.frames
    BY DEF IsServed, IsSession, IsFrames
  <2>3. set.failed = s.failed
    BY DEF IsServed, IsSession
  <2> HIDE DEF due, set
  <2>4. CASE due = Refuse(v, s)
    BY <2>4, RefusalGives
  <2>5. CASE ~s.failed /\ due = Reply(TRUE, set, {})
    <3>1. Gives(due, {}) /\ due.ok /\ due.session = set
      BY <2>2, <2>5, SuccessGives
    <3> QED BY <2>2, <2>3, <2>5, <3>1
  <2> QED BY <2>1, <2>4, <2>5
<1> HIDE DEF due
<1>3. /\ IsReply(r) /\ IsFrames(r.session.frames)
      /\ Sent(q, s, due, Refuse(v, t), r)
  BY <1>1, <1>2, QueryGives DEF Gives, IsServed, due
<1>4. IsServed(r.session)
  BY <1>3 DEF IsServed, IsReply
<1> QED BY <1>1, <1>2, <1>3, <1>4 DEF Sent, Gives, SetWith

-----------------------------------------------------------------------------
(* What a call may rely on.                                                *)

\* The work of the statements that k has issued.
Mine(k) == {<<k, n>> : n \in 1..used[k]}

Working == {"running", "restoring"}

\* The runner counts the n open transaction() calls of its call.
Exact(q, n) == q.active /\ q.depth = n

\* It never counts more.
Counts(q, p, n) ==
    /\ ~q.active => q.depth <= 0
    /\ q.depth <= n
    /\ p \in Working /\ q.active => q.depth >= 1

\* The transaction of s is structured as the transaction() calls are.
Mirrors(v, p, stack, s) ==
    /\ Ordered(Len(stack), s.frames)
    /\ Covers(stack, s.frames)
    /\ p \in Working /\ v = "postgres" => s.frames # <<>>

Owned(mine, f) == \A i \in DOMAIN f : f[i].work \subseteq mine

Stored(k) ==
    /\ Owned(Mine(k), SessionOf(k).frames)
    /\ k \notin astray => Honest(open[k], SessionOf(k).frames, undone)
    /\ Exact(runner[k], Level(k)) =>
         /\ Mirrors(vendor, at[k], open[k], SessionOf(k))
         /\ at[k] \in Working /\ k \notin swallowed => ~SessionOf(k).failed

(***************************************************************************)
(* The work that resolved is durable, and that which was rejected is not,  *)
(* nor is that of a transaction() call that is open.                       *)
(***************************************************************************)
Told(k) ==
    /\ kept \cap Mine(k) \subseteq durable
    /\ k \notin astray => /\ undone \cap durable \cap Mine(k) = {}
                          /\ \A l \in DOMAIN open[k] : open[k][l] \cap durable = {}
    /\ \A l \in DOMAIN open[k] : open[k][l] \subseteq Mine(k)

\* Commits of Oracle at a depth other than 1 do not notice a lost connection.
Gone(k) ==
    vendor = "oracle" /\ holds[k] = None /\ at[k] \in Working /\ runner[k].active
      => k \in swallowed

CallTrue(k) ==
    /\ Told(k) /\ Gone(k)
    /\ invalid[k] => at[k] \in {"failing", "leaving", "done"}
    /\ holds[k] # None /\ at[k] # "leaving" =>
         /\ Counts(runner[k], at[k], Level(k))
         /\ k \notin astray /\ at[k] \in Working => Exact(runner[k], Level(k))
         /\ SessionOf(k).alive /\ ~invalid[k] => Stored(k)

OutcomeFacts ==
    ~tainted => /\ \A w \in durable \cup kept \cup undone : \E k \in Calls : w \in Mine(k)
                /\ \A k \in Calls : CallTrue(k)

FrameTypes == \A c \in Conns : IsFrames(session[c].frames)

OutcomeInv == CleanInv /\ FrameTypes /\ OutcomeFacts

LEMMA InitOutcomes == Init => FrameTypes /\ OutcomeFacts
<1> SUFFICES ASSUME Init PROVE FrameTypes /\ OutcomeFacts
  OBVIOUS
<1>1. FrameTypes
  BY DeadServed DEF Init, FrameTypes, IsServed
<1>2. ASSUME NEW k \in Calls PROVE CallTrue(k)
  <2>1. open[k] = <<>> /\ holds[k] = None /\ at[k] = "new" /\ ~invalid[k]
    BY DEF Init
  <2>2. kept = {} /\ undone = {}
    BY DEF Init
  <2>3. Told(k)
    BY <2>1, <2>2 DEF Told
  <2>4. Gone(k)
    BY <2>1 DEF Gone, Working
  <2> QED BY <2>1, <2>3, <2>4 DEF CallTrue
<1>3. durable \cup kept \cup undone = {}
  BY DEF Init
<1> QED BY <1>1, <1>2, <1>3 DEF OutcomeFacts

\* What a call k knows of its connection.
LEMMA Believed ==
    ASSUME OutcomeInv, NEW k \in Calls
    PROVE  /\ IsServed(SessionOf(k))
           /\ ~tainted => CallTrue(k)
           /\ ~tainted /\ holds[k] # None /\ SessionOf(k).alive =>
                /\ at[k] # "leaving" /\ SessionOf(k).frames # <<>> => runner[k].active
                /\ at[k] \in {"ready", "leaving"} => SessionOf(k).frames = <<>>
<1>1. CleanInv /\ FrameTypes /\ OutcomeFacts
  BY DEF OutcomeInv
<1>2. IsServed(SessionOf(k))
  <2>1. holds[k] \in Conns \cup {None}
    BY <1>1, Types
  <2>2. IsSession(SessionOf(k))
    BY <1>1, Holder
  <2>3. IsFrames(SessionOf(k).frames)
    BY <1>1, <2>1, DeadServed DEF SessionOf, FrameTypes, IsServed
  <2> QED BY <2>2, <2>3 DEF IsServed
<1>3. ~tainted => CallTrue(k)
  BY <1>1 DEF OutcomeFacts
<1>4. holds[k] # None /\ ~tainted /\ SessionOf(k).alive =>
        Fits(vendor, kind[k], runner[k], at[k], Level(k), opts[k], invalid[k], SessionOf(k))
  BY <1>1, Holder
<1> QED BY <1>2, <1>3, <1>4 DEF Fits, Knows, Clean, InTransaction

\* The calls other than k are where they were.
OthersKeep(k) ==
    \A j \in Calls \ {k} :
        /\ at'[j] = at[j] /\ runner'[j] = runner[j] /\ open'[j] = open[j]
        /\ invalid'[j] = invalid[j] /\ used'[j] = used[j] /\ holds'[j] = holds[j]
        /\ j \in astray' <=> j \in astray
        /\ j \in swallowed' <=> j \in swallowed

\* Work of k alone becomes durable, is told to be, or is told not to be.
Grown(k) ==
    /\ durable \subseteq durable' /\ Mine(k) \subseteq Mine(k)'
    /\ durable' \subseteq durable \cup Mine(k)'
    /\ kept' \subseteq kept \cup Mine(k)'
    /\ undone' \subseteq undone \cup Mine(k)'

LEMMA Disjoint ==
    ASSUME NEW j, NEW k, j # k
    PROVE  Mine(j) \cap Mine(k)' = {}
BY DEF Mine

\* The steps of k do not concern the other calls.
LEMMA OthersTrue ==
    ASSUME OutcomeInv, NEW k \in Calls, vendor' = vendor, OthersKeep(k), ~tainted,
           Grown(k), NEW j \in Calls, j # k,
           holds[j] # None => session'[holds[j]] = session[holds[j]]
    PROVE  CallTrue(j)'
<1>1. CallTrue(j)
  BY Believed
<1>2. /\ at'[j] = at[j] /\ runner'[j] = runner[j] /\ open'[j] = open[j]
      /\ invalid'[j] = invalid[j] /\ used'[j] = used[j] /\ holds'[j] = holds[j]
      /\ j \in astray' <=> j \in astray
      /\ j \in swallowed' <=> j \in swallowed
  BY DEF OthersKeep
<1>3. Mine(j)' = Mine(j) /\ Level(j)' = Level(j)
  BY <1>2 DEF Mine, Level
<1>4. SessionOf(j)' = SessionOf(j)
  BY <1>2 DEF SessionOf
<1> DEFINE mine == Mine(j)
           fresh == Mine(k)'
<1>5. mine \cap fresh = {}
  BY Disjoint
<1>6. /\ durable \subseteq durable' /\ durable' \subseteq durable \cup fresh
      /\ kept' \subseteq kept \cup fresh /\ undone' \subseteq undone \cup fresh
  BY DEF Grown
<1>7. /\ kept \cap mine \subseteq durable
      /\ j \notin astray => /\ undone \cap durable \cap mine = {}
                            /\ \A l \in DOMAIN open[j] : open[j][l] \cap durable = {}
      /\ \A l \in DOMAIN open[j] : open[j][l] \subseteq mine
  BY <1>1 DEF CallTrue, Told
<1>8. Mine(j)' = mine
  BY <1>3
<1> HIDE DEF mine, fresh
<1>9. Told(j)'
  <2>1. kept' \cap mine \subseteq durable'
    BY <1>5, <1>6, <1>7
  <2>2. j \notin astray => undone' \cap durable' \cap mine = {}
    BY <1>5, <1>6, <1>7
  <2>3. j \notin astray => \A l \in DOMAIN open[j] : open[j][l] \cap durable' = {}
    BY <1>5, <1>6, <1>7
  <2> QED BY <1>2, <1>7, <1>8, <2>1, <2>2, <2>3 DEF Told
<1>10. Gone(j)'
  BY <1>1, <1>2 DEF CallTrue, Gone
<1>11. ASSUME Stored(j) PROVE Stored(j)'
  <2> DEFINE f == SessionOf(j).frames
  <2>1. Owned(mine, f) /\ (j \notin astray => Honest(open[j], f, undone))
    BY <1>11 DEF Stored, mine
  <2> HIDE DEF f
  <2>2. j \notin astray => Honest(open[j], f, undone')
    BY <1>5, <1>6, <2>1 DEF Owned, Honest
  <2>3. Owned(Mine(j)', f)
    BY <1>8, <2>1
  <2>4. Owned(Mine(j), SessionOf(j).frames)'
    BY <1>4, <2>3 DEF f
  <2>5. (j \notin astray => Honest(open[j], SessionOf(j).frames, undone))'
    BY <1>2, <1>4, <2>2 DEF f
  <2>6. (Exact(runner[j], Level(j)) =>
           /\ Mirrors(vendor, at[j], open[j], SessionOf(j))
           /\ at[j] \in Working /\ j \notin swallowed => ~SessionOf(j).failed)'
    BY <1>2, <1>3, <1>4, <1>11 DEF Stored
  <2> QED BY <2>4, <2>5, <2>6 DEF Stored
<1> QED BY <1>1, <1>2, <1>3, <1>4, <1>9, <1>10, <1>11 DEF CallTrue

\* A step of k that writes its own entries only.
LEMMA Apart ==
    ASSUME OutcomeInv, NEW k \in Calls,
           at' = at \/ \E x : at' = [at EXCEPT ![k] = x],
           runner' = runner \/ \E x : runner' = [runner EXCEPT ![k] = x],
           open' = open \/ \E x : open' = [open EXCEPT ![k] = x],
           invalid' = invalid \/ \E x : invalid' = [invalid EXCEPT ![k] = x],
           used' = used \/ \E x : used' = [used EXCEPT ![k] = x],
           holds' = holds \/ \E x : holds' = [holds EXCEPT ![k] = x],
           astray' = astray \/ astray' = astray \cup {k},
           swallowed' \in {swallowed, swallowed \cup {k}, swallowed \ {k}}
    PROVE  OthersKeep(k)
<1> SUFFICES ASSUME NEW j \in Calls \ {k}
             PROVE  /\ at'[j] = at[j] /\ runner'[j] = runner[j] /\ open'[j] = open[j]
                    /\ invalid'[j] = invalid[j] /\ used'[j] = used[j] /\ holds'[j] = holds[j]
                    /\ j \in astray' <=> j \in astray
                    /\ j \in swallowed' <=> j \in swallowed
  BY DEF OthersKeep
<1>0. CleanInv
  BY DEF OutcomeInv
<1>1. at'[j] = at[j]
  BY <1>0, Types
<1>2. runner'[j] = runner[j]
  BY <1>0, Types
<1>3. open'[j] = open[j]
  BY <1>0, Types
<1>4. invalid'[j] = invalid[j]
  BY <1>0, Types
<1>5. used'[j] = used[j]
  BY <1>0 DEF CleanInv, LevelInv, LevelTypes
<1>6. holds'[j] = holds[j]
  BY <1>0, Types
<1>7. (j \in astray' <=> j \in astray) /\ (j \in swallowed' <=> j \in swallowed)
  OBVIOUS
<1> QED BY <1>1, <1>2, <1>3, <1>4, <1>5, <1>6, <1>7

\* Nothing but the call k and its session has changed.
LEMMA OneSession ==
    ASSUME OutcomeInv, NEW k \in Calls, vendor' = vendor, OthersKeep(k),
           tainted => tainted',
           \/ session' = session
           \/ \E t : /\ IsFrames(t.frames) /\ holds[k] # None
                     /\ session' = [session EXCEPT ![holds[k]] = t],
           ~tainted' => Grown(k) /\ CallTrue(k)'
    PROVE  FrameTypes' /\ OutcomeFacts'
<1>1. /\ CleanInv /\ FrameTypes /\ OutcomeFacts
      /\ holds \in [Calls -> Conns \cup {None}] /\ DOMAIN session = Conns
  BY Types DEF OutcomeInv, CleanInv, CleanTypes
<1>2. ASSUME NEW c \in Conns
      PROVE  /\ IsFrames(session'[c].frames)
             /\ c # holds[k] => session'[c] = session[c]
  BY <1>1 DEF FrameTypes
<1>3. FrameTypes'
  BY <1>2 DEF FrameTypes
<1>4. ASSUME ~tainted', NEW j \in Calls PROVE CallTrue(j)'
  <2>1. CASE j = k
    BY <1>4, <2>1
  <2>2. CASE j # k
    <3>1. holds[j] # None => holds[j] \in Conns /\ holds[j] # holds[k]
      BY <1>1, <2>2 DEF CleanInv, LeaseInv, LeasesAreExclusive
    <3>2. holds[j] # None => session'[holds[j]] = session[holds[j]]
      BY <1>2, <3>1
    <3> QED BY <1>4, <2>2, <3>2, OthersTrue
  <2> QED BY <2>1, <2>2
<1>5. ASSUME ~tainted', NEW w \in durable' \cup kept' \cup undone'
      PROVE  \E j \in Calls : w \in Mine(j)'
  <2>1. CASE w \in Mine(k)'
    BY <2>1
  <2>2. CASE w \notin Mine(k)'
    <3>1. w \in durable \cup kept \cup undone
      BY <1>5, <2>2 DEF Grown
    <3>2. PICK j \in Calls : w \in Mine(j)
      BY <1>1, <1>5, <3>1 DEF OutcomeFacts
    <3>3. j # k
      BY <1>5, <2>2, <3>2 DEF Grown
    <3>4. Mine(j)' = Mine(j)
      BY <3>3 DEF OthersKeep, Mine
    <3> QED BY <3>2, <3>4
  <2> QED BY <2>1, <2>2
<1> QED BY <1>3, <1>4, <1>5 DEF OutcomeFacts

\* The session of k afterwards.
LEMMA After ==
    ASSUME OutcomeInv, NEW k \in Calls, holds' = holds, NEW t,
           session' = IF holds[k] = None THEN session
                      ELSE [session EXCEPT ![holds[k]] = t]
    PROVE  /\ holds[k] # None => SessionOf(k)' = t
           /\ holds[k] = None => SessionOf(k)' = DeadSession /\ SessionOf(k) = DeadSession
<1>1. holds \in [Calls -> Conns \cup {None}] /\ DOMAIN session = Conns
  BY Types DEF OutcomeInv, CleanInv, CleanTypes
<1> QED BY <1>1 DEF SessionOf

\* The runner of k has sent something, and t is the session afterwards.
LEMMA OneAnswer ==
    ASSUME OutcomeInv, NEW k \in Calls, vendor' = vendor, OthersKeep(k),
           tainted => tainted', NEW t, IsServed(t),
           session' = IF holds[k] = None THEN session
                      ELSE [session EXCEPT ![holds[k]] = t],
           ~tainted' => Grown(k) /\ CallTrue(k)'
    PROVE  FrameTypes' /\ OutcomeFacts'
<1>1. \/ session' = session
      \/ \E x : /\ IsFrames(x.frames) /\ holds[k] # None
                /\ session' = [session EXCEPT ![holds[k]] = x]
  <2>1. IsFrames(t.frames)
    BY DEF IsServed
  <2> QED BY <2>1
<1> QED BY <1>1, OneSession

\* A call gives its connection back.
LEMMA OneGivesBack ==
    ASSUME OutcomeInv, NEW k \in Calls, vendor' = vendor, OthersKeep(k),
           tainted => tainted', NEW q, NEW s, IsServed(s), NEW error,
           ReleaseRunner(k, q, s, error),
           ~tainted' => Grown(k) /\ CallTrue(k)'
    PROVE  FrameTypes' /\ OutcomeFacts'
<1>1. /\ IsFrames(DeadSession.frames) /\ IsFrames(Ended(vendor, s).frames)
      /\ IsFrames(s.frames)
  BY DeadServed, EndedServed DEF IsServed
<1>2. \/ session' = session
      \/ \E x : /\ IsFrames(x.frames) /\ holds[k] # None
                /\ session' = [session EXCEPT ![holds[k]] = x]
  <2>1. CASE holds[k] = None
    BY <2>1 DEF ReleaseRunner
  <2>2. CASE holds[k] # None
    <3>1. \/ session' = [session EXCEPT ![holds[k]] = DeadSession]
          \/ session' = [session EXCEPT ![holds[k]] = Ended(vendor, s)]
          \/ session' = [session EXCEPT ![holds[k]] = s]
      BY <2>2 DEF ReleaseRunner, Returned
    <3> QED BY <1>1, <2>2, <3>1
  <2> QED BY <2>1, <2>2
<1> QED BY <1>2, OneSession

-----------------------------------------------------------------------------
(* The steps.                                                              *)

LEMMA MoveOutcomes ==
    ASSUME OutcomeInv, NEW k \in Calls,
           BeginCall(k) \/ StartRefused(k) \/ CallbackThrows(k) \/ OperationEnds(k)
    PROVE  FrameTypes' /\ OutcomeFacts'
<1>1. /\ vendor' = vendor /\ session' = session /\ holds' = holds /\ runner' = runner
      /\ open' = open /\ invalid' = invalid /\ used' = used /\ durable' = durable
      /\ kept' = kept /\ undone' = undone /\ swallowed' = swallowed
      /\ astray' = astray /\ tainted' = tainted
  BY DEF BeginCall, StartRefused, CallbackThrows, OperationEnds, poolVars, dataVars
<1>2. PICK x : /\ at' = [at EXCEPT ![k] = x] /\ at[k] \in {"new", "ready", "running"}
               /\ x \in Working => at[k] \in Working
  BY DEF BeginCall, StartRefused, CallbackThrows, OperationEnds, Raised, Working
<1>3. at'[k] = x
  BY <1>2, Types DEF OutcomeInv
<1>4. OthersKeep(k)
  BY <1>1, <1>2, Apart
<1>5. ASSUME ~tainted' PROVE Grown(k) /\ CallTrue(k)'
  <2>1. CallTrue(k)
    BY <1>1, <1>5, Believed
  <2>2. Mine(k)' = Mine(k) /\ Level(k)' = Level(k) /\ SessionOf(k)' = SessionOf(k)
    BY <1>1 DEF Mine, Level, SessionOf
  <2>3. Grown(k)
    BY <1>1, <2>2 DEF Grown
  <2>4. Told(k)'
    BY <1>1, <2>1, <2>2 DEF CallTrue, Told
  <2>5. Gone(k)'
    BY <1>1, <1>2, <1>3, <2>1 DEF CallTrue, Gone
  <2>6. ASSUME Stored(k) PROVE Stored(k)'
    BY <1>1, <1>2, <1>3, <2>2, <2>6 DEF Stored, Mirrors
  <2>7. ~invalid[k] /\ at[k] # "leaving"
    BY <1>2, <2>1 DEF CallTrue
  <2>8. ASSUME holds[k] # None
        PROVE  /\ Counts(runner[k], x, Level(k))
               /\ k \notin astray /\ x \in Working => Exact(runner[k], Level(k))
               /\ SessionOf(k).alive => Stored(k)'
    BY <1>2, <2>1, <2>6, <2>7, <2>8 DEF CallTrue, Counts
  <2> QED BY <1>1, <1>3, <2>2, <2>3, <2>4, <2>5, <2>7, <2>8 DEF CallTrue
<1> QED BY <1>1, <1>4, <1>5, OneSession

LEMMA ConnectOutcomes ==
    ASSUME OutcomeInv, NEW k \in Calls, Connect(k)
    PROVE  FrameTypes' /\ OutcomeFacts'
<1>1. PICK c \in Conns :
        /\ slot[c] # "leased"
        /\ session' = [session EXCEPT ![c] =
               IF slot[c] = "closed" THEN FreshSession ELSE session[c]]
        /\ holds' = [holds EXCEPT ![k] = c]
  BY DEF Connect
<1>2. /\ vendor' = vendor /\ runner' = runner /\ open' = open /\ invalid' = invalid
      /\ used' = used /\ durable' = durable /\ kept' = kept /\ undone' = undone
      /\ swallowed' = swallowed /\ astray' = astray /\ tainted' = tainted
      /\ at[k] = "connecting" /\ at' = [at EXCEPT ![k] = "ready"]
  BY DEF Connect, dataVars
<1>3. OthersKeep(k)
  BY <1>1, <1>2, Apart
<1>4. /\ CleanInv /\ FrameTypes /\ OutcomeFacts
      /\ holds \in [Calls -> Conns \cup {None}] /\ DOMAIN session = Conns
      /\ slot \in [Conns -> {"idle", "leased", "closed"}]
  BY Types DEF OutcomeInv, CleanInv, CleanTypes, LeaseInv, LeaseTypes
<1>5. /\ \A d \in Conns \ {c} : session'[d] = session[d]
      /\ session'[c] = FreshSession \/ (slot[c] = "idle" /\ session'[c] = session[c])
      /\ holds'[k] = c /\ at'[k] = "ready" /\ c # None
  BY <1>1, <1>2, <1>4, Types, ConstantsAssumption
<1>6. FreshSession.frames = <<>> /\ IsFrames(FreshSession.frames)
  <2>1. FreshSession.frames = <<>> /\ <<>> \in Seq(Frames)
    BY DEF FreshSession
  <2> QED BY <2>1 DEF IsFrames
<1>7. FrameTypes'
  BY <1>4, <1>5, <1>6 DEF FrameTypes
<1>8. Grown(k) /\ Mine(k)' = Mine(k)
  BY <1>2 DEF Grown, Mine
<1>9. ASSUME ~tainted' PROVE CallTrue(k)'
  <2>1. CallTrue(k)
    BY <1>2, <1>9, Believed
  <2>2. SessionOf(k)'.frames = <<>>
    BY <1>2, <1>4, <1>5, <1>6, <1>9 DEF SessionOf, CleanInv, IdleFacts, Clean, InTransaction
  <2>3. runner[k] = NewRunner /\ ~runner[k].active /\ runner[k].depth = 0
    BY <1>2, <1>4 DEF CleanInv, LeaseInv, NewFacts, NewRunner
  <2>4. Level(k) = 0
    BY <1>2, <1>4, Holder DEF InsideCall
  <2>5. Told(k)' /\ Gone(k)'
    BY <1>2, <1>5, <1>8, <2>1 DEF CallTrue, Told, Gone, Working
  <2>6. ~invalid[k]
    BY <1>2, <2>1 DEF CallTrue
  <2>7. Stored(k)'
    BY <1>2, <2>2, <2>3 DEF Stored, Owned, Honest, Deep, Exact
  <2>8. Counts(runner[k], "ready", 0)
    BY <2>3 DEF Counts, Working
  <2>9. Level(k)' = 0
    BY <1>2, <2>4 DEF Level
  <2> QED BY <1>2, <1>5, <2>5, <2>6, <2>7, <2>8, <2>9 DEF CallTrue, Working
<1>10. ASSUME ~tainted', NEW j \in Calls, j # k PROVE CallTrue(j)'
  <2>1. holds[j] # None => holds[j] \in Conns \ {c}
    BY <1>1, <1>4 DEF CleanInv, LeaseInv, LeasesAreExclusive
  <2> QED BY <1>2, <1>3, <1>5, <1>8, <1>10, <2>1, OthersTrue
<1>11. \A j \in Calls : Mine(j)' = Mine(j)
  BY <1>2 DEF Mine
<1> QED BY <1>2, <1>4, <1>7, <1>9, <1>10, <1>11 DEF OutcomeFacts

LEMMA LeaveOutcomes ==
    ASSUME OutcomeInv, NEW k \in Calls,
           ConnectFails(k) \/ Leave(k) \/ ConnectionError(k)
    PROVE  FrameTypes' /\ OutcomeFacts'
<1>1. /\ vendor' = vendor /\ open' = open /\ invalid' = invalid /\ used' = used
      /\ durable' = durable /\ kept' = kept /\ undone' = undone
      /\ swallowed' = swallowed /\ astray' = astray /\ tainted' = tainted
  BY DEF ConnectFails, Leave, ConnectionError, dataVars
<1>2. \/ at' = [at EXCEPT ![k] = "done"]
      \/ at' = at /\ vendor = "postgres"
  BY DEF ConnectFails, Leave, ConnectionError
<1>3. PICK q, s, error : IsServed(s) /\ ReleaseRunner(k, q, s, error)
  <2>1. CASE ConnectFails(k)
    BY <2>1, DeadServed DEF ConnectFails
  <2>2. CASE Leave(k)
    BY <2>2, Believed DEF Leave
  <2>3. CASE ConnectionError(k)
    BY <2>3, Believed DEF ConnectionError
  <2> QED BY <2>1, <2>2, <2>3
<1>4. /\ runner' = [runner EXCEPT ![k] = [q EXCEPT !.released = TRUE]]
      /\ holds' = [holds EXCEPT ![k] = None]
  BY <1>3 DEF ReleaseRunner
<1>5. OthersKeep(k)
  BY <1>1, <1>2, <1>4, Apart
<1>6. /\ holds'[k] = None
      /\ at'[k] = "done" \/ (at'[k] = at[k] /\ vendor = "postgres")
  BY <1>2, <1>4, Types DEF OutcomeInv
<1>7. ASSUME ~tainted' PROVE Grown(k) /\ CallTrue(k)'
  <2>1. CallTrue(k)
    BY <1>1, <1>7, Believed
  <2>2. Mine(k)' = Mine(k)
    BY <1>1 DEF Mine
  <2>3. Grown(k)
    BY <1>1, <2>2 DEF Grown
  <2>4. Told(k)'
    BY <1>1, <2>1, <2>2 DEF CallTrue, Told
  <2>5. Gone(k)'
    BY <1>1, <1>6 DEF Gone, Working
  <2> QED BY <1>1, <1>6, <2>1, <2>3, <2>4, <2>5 DEF CallTrue
<1> QED BY <1>1, <1>3, <1>5, <1>7, OneGivesBack

LEMMA CloseOutcomes ==
    ASSUME OutcomeInv, ClosePool
    PROVE  FrameTypes' /\ OutcomeFacts'
<1>1. /\ vendor' = vendor /\ at' = at /\ open' = open /\ invalid' = invalid
      /\ used' = used /\ durable' = durable /\ kept' = kept /\ undone' = undone
      /\ swallowed' = swallowed /\ astray' = astray /\ tainted' = tainted
      /\ session' = [c \in Conns |-> DeadSession]
      /\ holds' = [k \in Calls |-> None]
      /\ runner' = [k \in Calls |-> IF holds[k] = None THEN runner[k]
                                    ELSE [runner[k] EXCEPT !.released = TRUE]]
      /\ vendor = "oracle" => \A k \in Calls : holds[k] = None
  BY DEF ClosePool, dataVars
<1>2. FrameTypes'
  BY <1>1, DeadServed DEF FrameTypes, IsServed
<1>3. ASSUME ~tainted', NEW k \in Calls PROVE CallTrue(k)' /\ Mine(k)' = Mine(k)
  <2>1. CallTrue(k)
    BY <1>1, <1>3, Believed
  <2>2. Mine(k)' = Mine(k)
    BY <1>1 DEF Mine
  <2>3. holds'[k] = None /\ (vendor = "oracle" => runner'[k] = runner[k] /\ holds[k] = None)
    BY <1>1
  <2>4. Told(k)'
    BY <1>1, <2>1, <2>2 DEF CallTrue, Told
  <2>5. Gone(k)'
    BY <1>1, <2>1, <2>3 DEF CallTrue, Gone
  <2> QED BY <1>1, <2>1, <2>2, <2>3, <2>4, <2>5 DEF CallTrue
<1> QED BY <1>1, <1>2, <1>3 DEF OutcomeFacts, OutcomeInv

\* A step that only sets options, and moves k to x.
LEMMA OptionOutcomes ==
    ASSUME OutcomeInv, NEW k \in Calls, NEW r, SetWith(SessionOf(k), r),
           session' = IF holds[k] = None THEN session
                      ELSE [session EXCEPT ![holds[k]] = r.session],
           vendor' = vendor, holds' = holds, runner' = runner, open' = open,
           used' = used, durable' = durable \cup r.durable, kept' = kept,
           undone' = undone, swallowed' = swallowed, astray' = astray,
           tainted' = tainted, at[k] \in {"running", "restoring", "unwinding"},
           NEW x, at' = [at EXCEPT ![k] = x], x \in Working => r.ok /\ at[k] \in Working,
           invalid' = invalid \/ \E i : invalid' = [invalid EXCEPT ![k] = i],
           ~tainted /\ ~invalid[k] /\ invalid'[k] => x = "failing"
    PROVE  FrameTypes' /\ OutcomeFacts'
<1>1. at'[k] = x
  BY Types DEF OutcomeInv
<1>2. OthersKeep(k)
  BY Apart
<1>3. IsServed(r.session) /\ durable' = durable
  BY DEF SetWith
<1>4. ASSUME ~tainted' PROVE Grown(k) /\ CallTrue(k)'
  <2>1. CallTrue(k)
    BY <1>4, Believed
  <2>2. Mine(k)' = Mine(k) /\ Level(k)' = Level(k)
    BY DEF Mine, Level
  <2>3. Grown(k)
    BY <1>3, <2>2 DEF Grown
  <2>4. Told(k)'
    BY <1>3, <2>1, <2>2 DEF CallTrue, Told
  <2>5. Gone(k)'
    BY <1>1, <2>1 DEF CallTrue, Gone
  <2>6. ~invalid[k]
    BY <2>1 DEF CallTrue
  <2>7. ASSUME holds[k] # None
        PROVE  /\ Counts(runner[k], x, Level(k))
               /\ k \notin astray /\ x \in Working => Exact(runner[k], Level(k))
               /\ SessionOf(k)'.alive => Stored(k)'
    <3>1. SessionOf(k)' = r.session
      BY <2>7, After
    <3>2. /\ Counts(runner[k], x, Level(k))
          /\ k \notin astray /\ x \in Working => Exact(runner[k], Level(k))
      BY <2>1, <2>7 DEF CallTrue, Counts
    <3>3. ASSUME r.session.alive
          PROVE  /\ Stored(k) /\ r.session.frames = SessionOf(k).frames
                 /\ x \in Working => ~r.session.failed
      BY <2>1, <2>6, <2>7, <3>3 DEF CallTrue, SetWith
    <3>4. ASSUME r.session.alive PROVE Stored(k)'
      BY <1>1, <2>2, <3>1, <3>3, <3>4 DEF Stored, Mirrors
    <3> QED BY <3>1, <3>2, <3>4
  <2> QED BY <1>1, <1>4, <2>1, <2>2, <2>3, <2>4, <2>5, <2>6, <2>7 DEF CallTrue
<1> QED BY <1>2, <1>3, <1>4, OneAnswer

LEMMA ApplyOutcomes ==
    ASSUME OutcomeInv, NEW k \in Calls, ApplyOptions(k)
    PROVE  FrameTypes' /\ OutcomeFacts'
<1> DEFINE s == SessionOf(k)
           tried(b) == [s EXCEPT !.changed = s.changed \/ b]
<1>1. PICK before \in BOOLEAN, captured \in BOOLEAN :
        \E r \in Query(runner[k], s, SetOption(vendor, s, TRUE), Refuse(vendor, tried(before))) :
          /\ Answered(k, r)
          /\ at' = [at EXCEPT ![k] =
                 IF r.ok THEN "running"
                 ELSE IF captured /\ vendor = "oracle" THEN "unwinding"
                 ELSE "failing"]
  BY DEF ApplyOptions
<1>2. PICK r \in Query(runner[k], s, SetOption(vendor, s, TRUE), Refuse(vendor, tried(before))) :
        /\ Answered(k, r)
        /\ \/ r.ok /\ at' = [at EXCEPT ![k] = "running"]
           \/ ~r.ok /\ at' = [at EXCEPT ![k] = "unwinding"]
           \/ ~r.ok /\ at' = [at EXCEPT ![k] = "failing"]
  BY <1>1
<1>3. /\ vendor' = vendor /\ holds' = holds /\ runner' = runner /\ open' = open
      /\ invalid' = invalid /\ used' = used /\ kept' = kept /\ undone' = undone
      /\ swallowed' = swallowed /\ astray' = astray /\ tainted' = tainted
      /\ at[k] = "running"
  BY DEF ApplyOptions
<1>4. IsServed(s)
  BY Believed
<1> DEFINE t == tried(before)
<1>5. IsServed(t) /\ t.frames = s.frames
  BY <1>4 DEF IsServed, IsSession
<1>6. r \in Query(runner[k], s, SetOption(vendor, s, TRUE), Refuse(vendor, t))
  OBVIOUS
<1> HIDE DEF s, t
<1>7. SetWith(s, r)
  BY <1>4, <1>5, <1>6, OptionGives
<1>8. /\ session' = IF holds[k] = None THEN session
                    ELSE [session EXCEPT ![holds[k]] = r.session]
      /\ durable' = durable \cup r.durable
  BY <1>2 DEF Answered
<1>9. PICK x : at' = [at EXCEPT ![k] = x] /\ (x \in Working => r.ok)
  BY <1>2 DEF Working
<1> QED BY <1>3, <1>7, <1>8, <1>9, OptionOutcomes DEF s, Working

LEMMA RestoreOutcomes ==
    ASSUME OutcomeInv, NEW k \in Calls, RestoreOptions(k)
    PROVE  FrameTypes' /\ OutcomeFacts'
<1> DEFINE s == SessionOf(k)
<1>1. PICK r \in Query(runner[k], s, SetOption(vendor, s, FALSE), Refuse(vendor, s)) :
        /\ Answered(k, r)
        /\ invalid' = [invalid EXCEPT ![k] = ~r.ok]
        /\ at' = [at EXCEPT ![k] =
               IF r.ok /\ at[k] = "restoring" THEN "running" ELSE "failing"]
  BY DEF RestoreOptions
<1>2. /\ vendor' = vendor /\ holds' = holds /\ runner' = runner /\ open' = open
      /\ used' = used /\ kept' = kept /\ undone' = undone
      /\ swallowed' = swallowed /\ astray' = astray /\ tainted' = tainted
      /\ at[k] \in {"restoring", "unwinding"}
  BY DEF RestoreOptions
<1>3. IsServed(s)
  BY Believed
<1> HIDE DEF s
<1>4. SetWith(s, r)
  BY <1>3, OptionGives
<1>5. /\ session' = IF holds[k] = None THEN session
                    ELSE [session EXCEPT ![holds[k]] = r.session]
      /\ durable' = durable \cup r.durable
  BY <1>1 DEF Answered
<1>6. PICK x : /\ at' = [at EXCEPT ![k] = x]
               /\ (x = "running" /\ r.ok /\ at[k] = "restoring") \/ x = "failing"
  BY <1>1
<1>7. invalid'[k] = ~r.ok
  BY <1>1, Types DEF OutcomeInv
<1>8. x \in Working => r.ok /\ at[k] \in Working
  BY <1>6 DEF Working
<1>9. invalid'[k] => x = "failing"
  BY <1>6, <1>7
<1> QED BY <1>1, <1>2, <1>4, <1>5, <1>6, <1>8, <1>9, OptionOutcomes DEF s

\* The innermost level has done w.
Did(stack, w) ==
    Append(SubSeq(stack, 1, Len(stack) - 1), stack[Len(stack)] \cup {w})

DidAs(stack, w, longer) ==
    /\ longer \in Seq(Deeds) /\ Len(longer) = Len(stack)
    /\ DOMAIN longer = DOMAIN stack /\ DOMAIN stack = 1..Len(stack)
    /\ \A l \in 1..(Len(stack) - 1) : longer[l] = stack[l]
    /\ longer[Len(stack)] = stack[Len(stack)] \cup {w}
    /\ \A l \in DOMAIN stack : longer[l] \subseteq stack[l] \cup {w}

LEMMA Longer ==
    ASSUME NEW stack \in Seq(Deeds), Len(stack) # 0, NEW w \in Calls \X Nat
    PROVE  DidAs(stack, w, Did(stack, w))
<1> DEFINE n == Len(stack)
           outer == SubSeq(stack, 1, n - 1)
           last == stack[n] \cup {w}
           longer == Did(stack, w)
<1>1. n \in Nat \ {0} /\ DOMAIN stack = 1..n
  OBVIOUS
<1>2. stack[n] \in Deeds /\ outer \in Seq(Deeds) /\ Len(outer) = n - 1
  BY Stacks
<1>3. last \in Deeds
  BY <1>2 DEF Deeds
<1>4. \A l \in 1..(n - 1) : outer[l] = stack[l]
  BY <1>1
<1>5. longer = Append(outer, last)
  BY DEF Did
<1> HIDE DEF n, outer, last, longer
<1>6. /\ longer \in Seq(Deeds) /\ Len(longer) = n /\ DOMAIN longer = 1..n
      /\ \A l \in 1..(n - 1) : longer[l] = outer[l]
      /\ longer[n] = last
  <2>1. longer \in Seq(Deeds) /\ Len(longer) = Len(outer) + 1
    BY <1>2, <1>3, <1>5, AppendProperties
  <2>2. Len(longer) = n
    BY <1>1, <1>2, <2>1
  <2>3. DOMAIN longer = 1..n
    BY <2>1, <2>2
  <2>4. ASSUME NEW l \in 1..(n - 1) PROVE longer[l] = outer[l]
    BY <1>1, <1>2, <1>3, <1>5, AppendProperties
  <2>5. longer[n] = last
    BY <1>1, <1>2, <1>3, <1>5, AppendProperties
  <2> QED BY <2>1, <2>2, <2>3, <2>4, <2>5
<1>7. \A l \in 1..n : longer[l] \subseteq stack[l] \cup {w}
  <2>1. ASSUME NEW l \in 1..n PROVE l = n \/ l \in 1..(n - 1)
    BY <1>1
  <2>2. longer[n] \subseteq stack[n] \cup {w}
    BY <1>6 DEF last
  <2> QED BY <1>4, <1>6, <2>1, <2>2
<1>8. DOMAIN longer = DOMAIN stack
  BY <1>1, <1>6
<1>9. \A l \in 1..(n - 1) : longer[l] = stack[l]
  BY <1>4, <1>6
<1> QED BY <1>1, <1>6, <1>7, <1>8, <1>9, Zenon DEF n, last, longer, DidAs

\* The statement w has become part of the transaction.
LEMMA WrittenTrue ==
    ASSUME NEW s, IsServed(s), NEW stack \in Seq(Deeds), Len(stack) # 0,
           NEW w \in Calls \X Nat, NEW g, Written(FramesOf(s), w, g),
           NEW rejected, w \notin rejected,
           NEW mine, w \notin mine, Owned(mine, s.frames)
    PROVE  /\ Owned(mine \cup {w}, g)
           /\ Honest(stack, s.frames, rejected) => Honest(Did(stack, w), g, rejected)
           /\ Ordered(Len(stack), s.frames) => Ordered(Len(stack), g)
           /\ Covers(stack, s.frames) => Covers(Did(stack, w), g)
<1> DEFINE f == FramesOf(s)
           n == Len(stack)
           longer == Did(stack, w)
<1>1. IsFrames(f) /\ f # <<>> /\ (f = s.frames \/ (s.frames = <<>> /\ f = <<Frame(0)>>))
  BY FramesOfGives
<1>2. n \in Nat /\ stack # <<>>
  OBVIOUS
<1>3. /\ Owned(mine, f)
      /\ Honest(stack, s.frames, rejected) => Honest(stack, f, rejected)
      /\ Ordered(n, s.frames) => Ordered(n, f)
      /\ Covers(stack, s.frames) => Covers(stack, f)
  <2>1. CASE f = s.frames
    BY <2>1
  <2>2. CASE s.frames = <<>> /\ f = <<Frame(0)>>
    <3>1. Owned(mine, f)
      BY <2>2, FirstFrame DEF Owned, Frame
    <3>2. Honest(stack, f, rejected) /\ Ordered(n, f)
      BY <1>2, <2>2, FirstFrame
    <3>3. Covers(stack, s.frames) => Covers(stack, f)
      BY <1>2, <2>2, FirstFrame
    <3> QED BY <3>1, <3>2, <3>3
  <2> QED BY <1>1, <2>1, <2>2
<1>4. Len(f) \in Nat \ {0} /\ DOMAIN f = 1..Len(f)
  BY <1>1, FramesHave DEF IsFrames
<1>5. /\ DOMAIN g = DOMAIN f /\ \A i \in DOMAIN f : g[i].mark = f[i].mark
      /\ \A i \in 1..(Len(f) - 1) : g[i].work = f[i].work
      /\ g[Len(f)].work = f[Len(f)].work \cup {w}
  BY DEF Written
<1>6. /\ longer \in Seq(Deeds) /\ Len(longer) = n /\ DOMAIN longer = DOMAIN stack
      /\ \A l \in 1..(n - 1) : longer[l] = stack[l]
      /\ longer[n] = stack[n] \cup {w}
      /\ \A l \in DOMAIN stack : longer[l] \subseteq stack[l] \cup {w}
  BY Longer DEF DidAs
<1> HIDE DEF f, longer
<1>7. \A i \in DOMAIN f : f[i].work \subseteq g[i].work /\ g[i].work \subseteq f[i].work \cup {w}
  <2>1. ASSUME NEW i \in DOMAIN f PROVE i = Len(f) \/ i \in 1..(Len(f) - 1)
    BY <1>4
  <2> QED BY <1>5, <2>1
<1>8. Owned(mine \cup {w}, g)
  BY <1>3, <1>5, <1>7 DEF Owned
<1>9. \A i \in DOMAIN f : w \notin f[i].work
  BY <1>3 DEF Owned
<1>10. ASSUME Honest(stack, f, rejected) PROVE Honest(longer, g, rejected)
  <2>1. IsFrames(f) /\ f # <<>>
    BY <1>1
  <2>2. /\ DOMAIN longer = DOMAIN stack
        /\ \A l \in DOMAIN stack : longer[l] \subseteq stack[l] \cup {w}
    BY <1>6
  <2> QED BY <1>5, <1>9, <1>10, <2>1, <2>2, HonestWritten
<1>11. Ordered(n, f) => Ordered(n, g)
  BY <1>5, OrderedWritten
<1>12. ASSUME Covers(stack, f) PROVE Covers(longer, g)
  <2>1. /\ DOMAIN g = DOMAIN f /\ \A i \in DOMAIN f : g[i].mark = f[i].mark
        /\ \A i \in DOMAIN f : f[i].work \subseteq g[i].work
        /\ w \in g[Len(f)].work
    BY <1>5, <1>7
  <2>2. IsFrames(f) /\ f # <<>> /\ stack # <<>>
    BY <1>1, <1>2
  <2>3. /\ longer \in Seq(Deeds) /\ Len(longer) = Len(stack)
        /\ \A l \in 1..(Len(stack) - 1) : longer[l] = stack[l]
        /\ longer[Len(stack)] = stack[Len(stack)] \cup {w}
    BY <1>6
  <2> QED BY <1>12, <2>1, <2>2, <2>3, CoversWritten
<1> QED BY <1>3, <1>8, <1>10, <1>11, <1>12 DEF longer

\* The next statement of k is of nobody yet.
LEMMA Fresh ==
    ASSUME OutcomeInv, NEW k \in Calls, used[k] < MaxWork,
           used' = [used EXCEPT ![k] = used[k] + 1],
           NEW w, w = <<k, used[k] + 1>>
    PROVE  /\ w \in Work /\ w \in Calls \X Nat /\ w \notin Mine(k)
           /\ Mine(k)' = Mine(k) \cup {w}
           /\ ~tainted => w \notin durable \cup kept \cup undone
<1>1. used \in [Calls -> Nat] /\ used[k] \in Nat
  BY DEF OutcomeInv, CleanInv, LevelInv, LevelTypes
<1>2. w \in Work /\ w \in Calls \X Nat
  BY <1>1, ConstantsAssumption
<1>3. \A j \in Calls : w \notin Mine(j)
  BY <1>1 DEF Mine
<1>4. Mine(k)' = Mine(k) \cup {w}
  <2>1. used'[k] = used[k] + 1
    BY <1>1
  <2>2. 1..(used[k] + 1) = (1..used[k]) \cup {used[k] + 1}
    BY <1>1
  <2>3. \A x : x \in Mine(k)' <=> \E n \in 1..(used[k] + 1) : x = <<k, n>>
    BY <2>1 DEF Mine
  <2>4. \A x : x \in Mine(k) <=> \E n \in 1..used[k] : x = <<k, n>>
    BY DEF Mine
  <2> QED BY <2>2, <2>3, <2>4
<1>5. ~tainted => w \notin durable \cup kept \cup undone
  BY <1>3 DEF OutcomeInv, OutcomeFacts
<1> QED BY <1>2, <1>3, <1>4, <1>5

LEMMA StatementOutcomes ==
    ASSUME OutcomeInv, NEW k \in Calls, Statement(k)
    PROVE  FrameTypes' /\ OutcomeFacts'
<1> DEFINE s == SessionOf(k)
           q == runner[k]
           n == Level(k)
           w == <<k, used[k] + 1>>
<1>1. PICK r \in Execute(vendor, q, s, w) :
        /\ Answered(k, r)
        /\ \/ /\ r.ok /\ at' = at /\ swallowed' = swallowed
              /\ open' = [open EXCEPT ![k] = Append(Outer(k), Inner(k) \cup {w})]
           \/ /\ ~r.ok /\ at' = [at EXCEPT ![k] = Raised(k)]
              /\ open' = open /\ swallowed' = swallowed
           \/ /\ ~r.ok /\ at' = at /\ open' = open
              /\ swallowed' = IF vendor = "postgres" THEN swallowed \cup {k}
                              ELSE swallowed
  BY DEF Statement
<1>2. /\ vendor' = vendor /\ holds' = holds /\ runner' = runner /\ invalid' = invalid
      /\ kept' = kept /\ undone' = undone /\ astray' = astray /\ tainted' = tainted
      /\ at[k] = "running" /\ used[k] < MaxWork
      /\ used' = [used EXCEPT ![k] = used[k] + 1]
  BY DEF Statement
<1>3. /\ session' = IF holds[k] = None THEN session
                    ELSE [session EXCEPT ![holds[k]] = r.session]
      /\ durable' = durable \cup r.durable
  BY <1>1 DEF Answered
<1>4. OthersKeep(k)
  <2>1. open' = open \/ \E x : open' = [open EXCEPT ![k] = x]
    BY <1>1
  <2>2. at' = at \/ \E x : at' = [at EXCEPT ![k] = x]
    BY <1>1
  <2>3. swallowed' \in {swallowed, swallowed \cup {k}, swallowed \ {k}}
    BY <1>1
  <2>4. used' = used \/ \E x : used' = [used EXCEPT ![k] = x]
    BY <1>2
  <2> QED BY <1>2, <2>1, <2>2, <2>3, <2>4, Apart
<1>5. /\ IsServed(s) /\ vendor \in Vendors /\ q \in Runners
      /\ open[k] \in Seq(Deeds) /\ n # 0 /\ n \in Nat
  BY <1>2, Believed, Holder DEF OutcomeInv, InsideCall
<1>6. /\ w \in Work /\ w \in Calls \X Nat /\ w \notin Mine(k)
      /\ Mine(k)' = Mine(k) \cup {w}
      /\ ~tainted => w \notin durable \cup kept \cup undone
  BY <1>2, Fresh
<1>7. DoneWith(vendor, q, s, w, r)
  BY <1>5, <1>6, ExecuteGives
<1>8. /\ at'[k] = at[k] \/ at'[k] = Raised(k)
      /\ \/ /\ r.ok /\ at'[k] = "running" /\ swallowed' = swallowed
            /\ open'[k] = Did(open[k], w)
         \/ /\ ~r.ok /\ open'[k] = open[k]
            /\ at'[k] \in Working => at'[k] = "running" /\ (vendor = "postgres" => k \in swallowed')
  <2>1. r.ok => open'[k] = Append(Outer(k), Inner(k) \cup {w})
    BY <1>1, Types DEF OutcomeInv
  <2>2. ~r.ok => open'[k] = open[k]
    BY <1>1
  <2>3. r.ok => at'[k] = at[k] /\ swallowed' = swallowed
    BY <1>1
  <2>4. ~r.ok => at'[k] = Raised(k) \/ (at'[k] = at[k] /\ (vendor = "postgres" => k \in swallowed'))
    BY <1>1, Types DEF OutcomeInv
  <2>5. Raised(k) \notin Working
    BY DEF Raised, Working
  <2>6. Append(Outer(k), Inner(k) \cup {w}) = Did(open[k], w)
    BY DEF Did, Outer, Inner, Level
  <2> QED BY <1>2, <2>1, <2>2, <2>3, <2>4, <2>5, <2>6
<1>9. swallowed \subseteq swallowed'
  BY <1>1
<1>10. DOMAIN open[k] = 1..n /\ DidAs(open[k], w, Did(open[k], w))
  BY <1>5, <1>6, Longer DEF Level
<1>11. Level(k)' = n
  BY <1>8, <1>10 DEF Level, DidAs
<1> DEFINE mine == Mine(k)
           stack == open'[k]
           t == r.session
<1>12. \A l \in DOMAIN stack : l \in DOMAIN open[k] /\ stack[l] \subseteq open[k][l] \cup {w}
  BY <1>8, <1>10 DEF DidAs
<1> HIDE DEF s, q, n, w, mine, stack, t
<1>13. ASSUME ~tainted' PROVE Grown(k) /\ CallTrue(k)'
  <2>1. CallTrue(k) /\ ~invalid[k]
    BY <1>2, <1>13, Believed DEF CallTrue
  <2>2. ASSUME s.alive
        PROVE  /\ Stored(k) /\ holds[k] # None
               /\ k \notin astray => /\ Exact(q, n) /\ q.active
                                     /\ vendor = "postgres" => s.frames # <<>>
               /\ vendor = "postgres" /\ s.frames = <<>> => ~Exact(q, n)
    <3>1. holds[k] # None
      BY <2>2, Dead DEF s, SessionOf
    <3>2. Stored(k) /\ (k \notin astray => Exact(q, n))
      BY <1>2, <2>1, <2>2, <3>1 DEF CallTrue, Working, s, q, n
    <3>3. Exact(q, n) /\ vendor = "postgres" => s.frames # <<>>
      BY <1>2, <3>2 DEF Stored, Mirrors, Working, s, q, n
    <3> QED BY <3>1, <3>2, <3>3 DEF Exact
  <2>3. s.alive => WorkOf(s) \subseteq mine
    BY <2>2 DEF Stored, Owned, WorkOf, s, mine
  <2>4. r.durable \subseteq mine \cup {w}
    BY <1>7, <2>3 DEF DoneWith
  <2>5. ASSUME k \notin astray
        PROVE  /\ r.durable = {}
               /\ r.ok => /\ s.alive /\ ~t.failed /\ t.frames # <<>>
                          /\ Written(FramesOf(s), w, t.frames)
    BY <1>7, <2>2, <2>5 DEF DoneWith, t
  <2>6. Mine(k)' = mine \cup {w}
    BY <1>6 DEF mine
  <2>7. Grown(k)
    BY <1>2, <1>3, <2>4, <2>6 DEF Grown, mine
  <2>8. w \notin durable \cup kept \cup undone /\ w \notin mine
    BY <1>2, <1>6, <1>13 DEF mine
  <2>9. Told(k)'
    <3>1. /\ kept \cap mine \subseteq durable
          /\ k \notin astray => /\ undone \cap durable \cap mine = {}
                                /\ \A l \in DOMAIN open[k] : open[k][l] \cap durable = {}
          /\ \A l \in DOMAIN open[k] : open[k][l] \subseteq mine
      BY <2>1 DEF CallTrue, Told, mine
    <3>2. kept \cap (mine \cup {w}) \subseteq durable'
      BY <1>3, <2>8, <3>1
    <3>3. ASSUME k \notin astray
          PROVE  /\ undone \cap durable' \cap (mine \cup {w}) = {}
                 /\ \A l \in DOMAIN stack : stack[l] \cap durable' = {}
      <4>1. durable' = durable
        BY <1>3, <2>5, <3>3
      <4> QED BY <1>12, <2>8, <3>1, <3>3, <4>1
    <3>4. \A l \in DOMAIN stack : stack[l] \subseteq mine \cup {w}
      BY <1>12, <3>1
    <3> QED BY <1>2, <2>6, <3>2, <3>3, <3>4 DEF Told, stack
  <2>10. Gone(k)'
    BY <1>2, <1>9, <2>1 DEF CallTrue, Gone, Working
  <2>11. ASSUME holds[k] # None
         PROVE  /\ Counts(q, at'[k], n)
                /\ k \notin astray /\ at'[k] \in Working => Exact(q, n)
                /\ t.alive => Stored(k)'
    <3>1. SessionOf(k)' = t
      BY <1>2, <1>3, <2>11, After DEF t
    <3>2. Counts(q, at[k], n) /\ (k \notin astray => Exact(q, n))
      BY <1>2, <2>1, <2>11 DEF CallTrue, Working, q, n
    <3>3. Counts(q, at'[k], n)
      BY <1>2, <3>2 DEF Counts, Working
    <3>4. ASSUME t.alive PROVE Stored(k)'
      <4>1. s.alive /\ Stored(k)
        BY <1>7, <2>2, <3>4 DEF DoneWith, t
      <4>2. /\ Owned(mine, s.frames)
            /\ k \notin astray => Honest(open[k], s.frames, undone)
            /\ Exact(q, n) => /\ Ordered(n, s.frames) /\ Covers(open[k], s.frames)
                              /\ k \notin swallowed => ~s.failed
                              /\ vendor = "postgres" => s.frames # <<>>
        BY <1>2, <4>1 DEF Stored, Mirrors, Working, Level, s, q, n, mine
      <4>3. /\ Owned(mine \cup {w}, t.frames)
            /\ k \notin astray => Honest(stack, t.frames, undone)
            /\ Exact(q, n) => /\ Ordered(n, t.frames) /\ Covers(stack, t.frames)
                              /\ at'[k] \in Working /\ k \notin swallowed' => ~t.failed
                              /\ at'[k] \in Working /\ vendor = "postgres" => t.frames # <<>>
        <5>1. CASE ~r.ok
          <6>1. t.frames = s.frames /\ (vendor = "oracle" /\ ~s.failed => ~t.failed)
            BY <1>7, <3>4, <5>1 DEF DoneWith, t
          <6>2. stack = open[k] /\ (at'[k] \in Working => vendor = "oracle" \/ k \in swallowed')
            BY <1>5, <1>8, <5>1 DEF stack, Vendors
          <6>3. Owned(mine \cup {w}, s.frames)
            BY <4>2 DEF Owned
          <6> QED BY <1>9, <4>2, <6>1, <6>2, <6>3
        <5>2. CASE /\ r.ok /\ ~t.failed /\ t.frames # <<>>
                   /\ Written(FramesOf(s), w, t.frames)
          <6> DEFINE g == t.frames
          <6>1. stack = Did(open[k], w) /\ Len(open[k]) = n
            BY <1>8, <5>2 DEF stack, n, Level
          <6>2. Written(FramesOf(s), w, g)
            BY <5>2
          <6> HIDE DEF g
          <6>3. /\ Owned(mine \cup {w}, g)
                /\ Honest(open[k], s.frames, undone) => Honest(Did(open[k], w), g, undone)
                /\ Ordered(n, s.frames) => Ordered(n, g)
                /\ Covers(open[k], s.frames) => Covers(Did(open[k], w), g)
            BY <1>5, <1>6, <2>8, <4>2, <6>1, <6>2, WrittenTrue
          <6> QED BY <4>2, <5>2, <6>1, <6>3 DEF g
        <5>3. CASE r.ok /\ t.frames = <<>> /\ k \in astray /\ ~Exact(q, n)
          BY <5>3 DEF Owned
        <5>4. \/ /\ r.ok /\ ~t.failed /\ t.frames # <<>>
                 /\ Written(FramesOf(s), w, t.frames)
              \/ ~r.ok
              \/ r.ok /\ t.frames = <<>> /\ k \in astray /\ ~Exact(q, n)
          BY <1>7, <2>2, <2>5, <4>1 DEF DoneWith, Exact, t
        <5> QED BY <5>1, <5>2, <5>3, <5>4
      <4>4. Level(k)' = Len(stack) /\ Len(stack) = n
        BY <1>11 DEF Level, stack
      <4> QED BY <1>2, <1>11, <2>6, <3>1, <4>3, <4>4 DEF Stored, Mirrors, stack, q
    <3> QED BY <1>2, <3>2, <3>3, <3>4, Zenon DEF Working
  <2> QED BY <1>2, <1>11, <1>3, <2>1, <2>7, <2>9, <2>10, <2>11, After DEF CallTrue, Stored, q, t
<1>14. IsServed(t)
  BY <1>7 DEF DoneWith, t
<1> QED BY <1>2, <1>3, <1>4, <1>13, <1>14, OneAnswer DEF t

\* A level without work.
LEMMA Emptier ==
    ASSUME NEW stack \in Seq(Deeds)
    PROVE  /\ Len(Append(stack, {})) = Len(stack) + 1
           /\ \A l \in DOMAIN Append(stack, {}) :
                \/ l \in DOMAIN stack /\ Append(stack, {})[l] = stack[l]
                \/ Append(stack, {})[l] = {}
           /\ \A f, rejected : Honest(stack, f, rejected)
                                 => Honest(Append(stack, {}), f, rejected)
<1>1. Len(Append(stack, {})) = Len(stack) + 1
  OBVIOUS
<1>2. \A l \in DOMAIN Append(stack, {}) :
        \/ l \in DOMAIN stack /\ Append(stack, {})[l] = stack[l]
        \/ Append(stack, {})[l] = {}
  OBVIOUS
<1> DEFINE deeper == Append(stack, {})
<1> HIDE DEF deeper
<1>3. ASSUME NEW f, NEW rejected, Honest(stack, f, rejected)
      PROVE  Honest(deeper, f, rejected)
  <2>1. \A l \in DOMAIN deeper : (l \in DOMAIN stack /\ deeper[l] = stack[l]) \/ deeper[l] = {}
    BY <1>2 DEF deeper
  <2> QED BY <1>3, <2>1 DEF Honest, Deep
<1> QED BY <1>1, <1>2, <1>3 DEF deeper

\* A savepoint is set for one more level.
LEMMA DeeperTrue ==
    ASSUME NEW s, IsServed(s), NEW m \in Int, NEW stack \in Seq(Deeds),
           NEW mine, Owned(mine, s.frames), NEW rejected
    PROVE  /\ Owned(mine, Append(FramesOf(s), Frame(m)))
           /\ m >= Len(stack) /\ Honest(stack, s.frames, rejected)
                => Honest(Append(stack, {}), Append(FramesOf(s), Frame(m)), rejected)
           /\ m = Len(stack) /\ Ordered(Len(stack), s.frames)
                => Ordered(Len(stack) + 1, Append(FramesOf(s), Frame(m)))
           /\ m = Len(stack) /\ Covers(stack, s.frames)
                => Covers(Append(stack, {}), Append(FramesOf(s), Frame(m)))
<1> DEFINE f == FramesOf(s)
           n == Len(stack)
           g == Append(f, Frame(m))
<1>1. IsFrames(f) /\ (f = s.frames \/ (s.frames = <<>> /\ f = <<Frame(0)>>))
  BY FramesOfGives
<1>2. n \in Nat
  OBVIOUS
<1>3. /\ Owned(mine, f)
      /\ Honest(stack, s.frames, rejected) => Honest(stack, f, rejected)
      /\ Ordered(n, s.frames) => Ordered(n, f)
      /\ Covers(stack, s.frames) => Covers(stack, f)
  <2>1. CASE f = s.frames
    BY <2>1
  <2>2. CASE s.frames = <<>> /\ f = <<Frame(0)>>
    <3>1. Owned(mine, f)
      BY <2>2, FirstFrame DEF Owned, Frame
    <3>2. Honest(stack, f, rejected) /\ Ordered(n, f)
      BY <1>2, <2>2, FirstFrame
    <3>3. Covers(stack, s.frames) => Covers(stack, f)
      BY <1>2, <2>2, FirstFrame
    <3> QED BY <3>1, <3>2, <3>3
  <2> QED BY <1>1, <2>1, <2>2
<1> HIDE DEF f, g
<1>4. /\ Len(f) \in Nat /\ DOMAIN f = 1..Len(f) /\ DOMAIN g = 1..(Len(f) + 1)
      /\ \A i \in 1..Len(f) : g[i] = f[i]
      /\ g[Len(f) + 1] = Frame(m)
  <2>1. f \in Seq(Frames) /\ Frame(m) \in Frames
    BY <1>1, FrameIn DEF IsFrames
  <2>2. g = Append(f, Frame(m))
    BY DEF g
  <2> QED BY <2>1, <2>2, FramesHave, AppendProperties
<1>5. Frame(m).work = {}
  BY DEF Frame
<1>6. Owned(mine, g)
  BY <1>3, <1>4, <1>5 DEF Owned
<1>7. m >= n /\ Honest(stack, f, rejected) => Honest(Append(stack, {}), g, rejected)
  BY <1>1, <1>4, HonestDeeper
<1>8. ASSUME m = n
      PROVE  /\ Ordered(n, f) => Ordered(n + 1, g)
             /\ Covers(stack, f) => Covers(Append(stack, {}), g)
  <2>1. g[Len(f) + 1] = Frame(n)
    BY <1>4, <1>8
  <2> QED BY <1>1, <1>2, <1>4, <2>1, OrderedDeeper, CoversDeeper
<1> QED BY <1>3, <1>6, <1>7, <1>8 DEF f, g

LEMMA StartOutcomes ==
    ASSUME OutcomeInv, NEW k \in Calls, Start(k)
    PROVE  FrameTypes' /\ OutcomeFacts'
<1> DEFINE s == SessionOf(k)
           q == runner[k]
           n == Level(k)
           mine == Mine(k)
<1>1. PICK o \in StartTransaction(vendor, q, s) :
        /\ Answered(k, o)
        /\ runner' = [runner EXCEPT ![k] = o.runner]
        /\ at' = [at EXCEPT ![k] = IF o.ok THEN "running" ELSE "failing"]
        /\ tainted' = (tainted \/ (o.cause = "before" /\ q.depth # 0))
  BY DEF Start
<1>2. /\ vendor' = vendor /\ holds' = holds /\ invalid' = invalid /\ used' = used
      /\ kept' = kept /\ undone' = undone /\ swallowed' = swallowed /\ astray' = astray
      /\ open' = [open EXCEPT ![k] = Append(open[k], {})]
      /\ at[k] \in {"ready", "running"}
  BY DEF Start, MayStart
<1>3. /\ session' = IF holds[k] = None THEN session
                    ELSE [session EXCEPT ![holds[k]] = o.session]
      /\ durable' = durable \cup o.durable
  BY <1>1 DEF Answered
<1>4. OthersKeep(k)
  BY <1>1, <1>2, Apart
<1>5. /\ IsServed(s) /\ q \in Runners /\ q.depth \in Int
      /\ open[k] \in Seq(Deeds) /\ n \in Nat /\ Len(open[k]) = n
      /\ at[k] = "ready" => n = 0
      /\ holds[k] # None => ~q.released
  BY <1>2, Believed, Holder DEF OutcomeInv, InsideCall, Level
<1>6. /\ holds[k] = None => IsServed(DeadSession) /\ ~o.ok /\ o.durable = {}
      /\ holds[k] # None => /\ StartedWith(vendor, q, s, o)
                            /\ o.session.alive => s.alive
  <2>1. CASE holds[k] = None
    <3>1. ~s.alive
      BY <2>1, Dead DEF SessionOf
    <3>2. ~o.ok /\ o.durable = {}
      <4> HIDE DEF s, q
      <4> QED BY <1>5, <3>1, StartFails
    <3> QED BY <2>1, <3>2, DeadServed
  <2>2. CASE holds[k] # None
    <3> HIDE DEF s, q
    <3>1. StartedWith(vendor, q, s, o)
      BY <1>5, <2>2, StartGives
    <3>2. o.session.alive => StartedAs(q, s, o)
      BY <1>5, <2>2, StartOutcome DEF IsServed
    <3> QED BY <2>2, <3>1, <3>2 DEF StartedAs
  <2> QED BY <2>1, <2>2
<1>7. /\ runner'[k] = o.runner /\ at'[k] = (IF o.ok THEN "running" ELSE "failing")
      /\ open'[k] = Append(open[k], {})
  BY <1>1, <1>2, Types DEF OutcomeInv
<1>8. durable' = durable
  BY <1>3, <1>6 DEF StartedWith
<1>9. Level(k)' = n + 1 /\ Mine(k)' = mine
  BY <1>2, <1>5, <1>7, Emptier DEF Level, Mine
<1>10. \A l \in DOMAIN open'[k] :
         (l \in DOMAIN open[k] /\ open'[k][l] = open[k][l]) \/ open'[k][l] = {}
  BY <1>5, <1>7, Emptier
<1> DEFINE t == o.session
           p == o.runner
<1> HIDE DEF s, q, n, mine, t, p
<1>11. ASSUME ~tainted' PROVE Grown(k) /\ CallTrue(k)'
  <2>1. CallTrue(k) /\ ~invalid[k] /\ ~tainted
    <3>1. ~tainted
      BY <1>1, <1>11
    <3> QED BY <1>2, <3>1, Believed DEF CallTrue
  <2>2. Grown(k)
    BY <1>2, <1>8, <1>9 DEF Grown, mine
  <2>3. Told(k)'
    BY <1>2, <1>8, <1>9, <1>10, <2>1 DEF CallTrue, Told, mine
  <2>4. Gone(k)'
    BY <1>2, <1>6, <1>7 DEF Gone, Working
  <2>5. ASSUME holds[k] # None
        PROVE  /\ Counts(p, at'[k], n + 1)
               /\ k \notin astray /\ at'[k] \in Working => Exact(p, n + 1)
               /\ t.alive => Stored(k)'
    <3>1. SessionOf(k)' = t
      BY <1>2, <1>3, <2>5, After DEF t
    <3>2. /\ Counts(q, at[k], n)
          /\ k \notin astray /\ at[k] = "running" => Exact(q, n)
          /\ s.alive => Stored(k)
      BY <1>2, <2>1, <2>5 DEF CallTrue, Working, q, n, s
    <3>3. \/ /\ ~o.ok /\ t = s /\ ~p.active /\ p.depth = 0
          \/ /\ ~o.ok /\ p.active /\ p.depth = q.depth
             /\ t.alive => t.frames = s.frames \/ t.frames = <<Frame(0)>>
          \/ /\ p.active /\ p.depth = q.depth + 1 /\ q.depth >= 0 /\ ~t.failed
             /\ vendor = "postgres" => t.frames # <<>>
             /\ q.depth = 0 => t.frames \in {s.frames, <<Frame(0)>>}
             /\ q.depth # 0 => t.frames = Append(FramesOf(s), Frame(q.depth))
      <4>1. o.cause = "before" => q.depth = 0
        BY <1>1, <1>11 DEF q
      <4>2. StartedWith(vendor, q, s, o)
        BY <1>6, <2>5
      <4> QED BY <4>1, <4>2 DEF StartedWith, t, p
    <3>4. q.depth <= n /\ (~q.active => q.depth <= 0)
      BY <3>2 DEF Counts
    <3>5. Counts(p, at'[k], n + 1)
      BY <1>5, <1>7, <3>3, <3>4 DEF Counts, Working
    <3>6. k \notin astray /\ q.depth >= 0 => q.depth = n
      BY <1>2, <1>5, <3>2, <3>4 DEF Exact
    <3>7. k \notin astray /\ at'[k] \in Working => Exact(p, n + 1)
      BY <1>5, <1>7, <3>3, <3>6 DEF Exact, Working
    <3>8. ASSUME t.alive PROVE Stored(k)'
      <4> DEFINE stack == open[k]
                 deeper == Append(open[k], {})
      <4>1. /\ Owned(mine, s.frames)
            /\ k \notin astray => Honest(stack, s.frames, undone)
            /\ Exact(q, n) => Ordered(n, s.frames) /\ Covers(stack, s.frames)
        BY <1>6, <2>5, <3>2, <3>8 DEF Stored, Mirrors, s, q, n, Level, mine, t
      <4>2. ASSUME t.frames = s.frames \/ t.frames = <<Frame(0)>>
            PROVE  /\ Owned(mine, t.frames)
                   /\ k \notin astray => Honest(deeper, t.frames, undone)
        <5>1. Owned(mine, <<Frame(0)>>)
          BY FirstFrame DEF Owned, Frame
        <5>2. Honest(deeper, <<Frame(0)>>, undone)
          BY FirstFrame
        <5>3. Honest(stack, s.frames, undone) => Honest(deeper, s.frames, undone)
          BY <1>5, Emptier
        <5> QED BY <4>1, <4>2, <5>1, <5>2, <5>3
      <4>3. /\ Owned(mine, t.frames)
            /\ k \notin astray => Honest(deeper, t.frames, undone)
            /\ Exact(p, n + 1) => /\ Ordered(n + 1, t.frames) /\ Covers(deeper, t.frames)
                                  /\ ~t.failed
                                  /\ vendor = "postgres" => t.frames # <<>>
        <5>1. CASE t.frames = s.frames \/ t.frames = <<Frame(0)>>
          <6>1. ASSUME Exact(p, n + 1)
                PROVE  /\ n = 0 /\ ~t.failed /\ (vendor = "postgres" => t.frames # <<>>)
            <7>1. p.depth = n + 1 /\ q.depth = n /\ q.depth >= 0
              BY <1>5, <3>3, <3>4, <6>1 DEF Exact
            <7>2. /\ ~t.failed /\ (vendor = "postgres" => t.frames # <<>>)
                  /\ q.depth # 0 => t.frames = Append(FramesOf(s), Frame(q.depth))
              BY <1>5, <3>3, <7>1
            <7>3. ASSUME q.depth # 0 PROVE FALSE
              <8>1. FramesOf(s) \in Seq(Frames) /\ FramesOf(s) # <<>>
                BY <1>5, FramesOfGives DEF IsFrames
              <8>2. FramesOf(s) = s.frames \/ s.frames = <<>>
                BY DEF FramesOf, InTransaction
              <8>3. Frame(q.depth) \in Frames
                BY <1>5, FrameIn
              <8>4. Len(t.frames) = Len(FramesOf(s)) + 1 /\ Len(FramesOf(s)) > 0
                BY <7>2, <7>3, <8>1, <8>3, AppendProperties
              <8>5. t.frames # <<Frame(0)>>
                BY <8>1, <8>4
              <8>6. t.frames # s.frames
                BY <8>1, <8>2, <8>4
              <8> QED BY <5>1, <8>5, <8>6
            <7> QED BY <7>1, <7>2, <7>3
          <6>2. n = 0 => Ordered(n + 1, t.frames)
            BY DEF Ordered
          <6>3. n = 0 => Covers(deeper, t.frames)
            <7>1. ASSUME n = 0 PROVE \A l \in DOMAIN deeper : deeper[l] = {}
              BY <1>5, <7>1, Emptier
            <7> QED BY <7>1 DEF Covers
          <6> QED BY <4>2, <5>1, <6>1, <6>2, <6>3
        <5>2. CASE /\ q.depth >= 0 /\ q.depth # 0 /\ p.active /\ p.depth = q.depth + 1
                   /\ ~t.failed /\ (vendor = "postgres" => t.frames # <<>>)
                   /\ t.frames = Append(FramesOf(s), Frame(q.depth))
          <6> DEFINE m == q.depth
                     g == Append(FramesOf(s), Frame(m))
          <6>1. m \in Int /\ q.active /\ m <= n
            BY <1>5, <3>4, <5>2
          <6>2. Exact(p, n + 1) => m = n /\ Exact(q, n)
            BY <1>5, <5>2, <6>1 DEF Exact
          <6>3. t.frames = g
            BY <5>2
          <6>4. k \notin astray => m = n
            BY <3>6, <5>2
          <6> HIDE DEF m
          <6>5. /\ Owned(mine, g)
                /\ m >= n /\ Honest(stack, s.frames, undone) => Honest(deeper, g, undone)
                /\ m = n /\ Ordered(n, s.frames) => Ordered(n + 1, g)
                /\ m = n /\ Covers(stack, s.frames) => Covers(deeper, g)
            BY <1>5, <4>1, <6>1, DeeperTrue
          <6> HIDE DEF g, deeper, stack
          <6>6. k \notin astray => Honest(deeper, g, undone)
            BY <1>5, <4>1, <6>1, <6>4, <6>5
          <6>7. Exact(p, n + 1) => Ordered(n + 1, g) /\ Covers(deeper, g)
            BY <4>1, <6>2, <6>5
          <6>8. ~t.failed /\ (vendor = "postgres" => t.frames # <<>>)
            BY <5>2
          <6> QED BY <6>3, <6>5, <6>6, <6>7, <6>8
        <5> QED BY <3>3, <3>8, <5>1, <5>2
      <4>4. Len(deeper) = n + 1
        BY <1>5, Emptier
      <4> HIDE DEF deeper
      <4>5. open'[k] = deeper
        BY <1>7 DEF deeper
      <4> QED BY <1>2, <1>7, <1>9, <3>1, <4>3, <4>4, <4>5 DEF Stored, Mirrors, p
    <3> QED BY <3>5, <3>7, <3>8
  <2> QED BY <1>2, <1>3, <1>7, <1>9, <2>1, <2>2, <2>3, <2>4, <2>5, After DEF CallTrue, p, t
<1>12. FrameTypes' /\ OutcomeFacts'
  <2>1. CASE holds[k] = None
    <3>1. session' = session
      BY <1>3, <2>1
    <3>2. tainted => tainted'
      BY <1>1
    <3> QED BY <1>2, <1>4, <1>11, <3>1, <3>2, OneSession
  <2>2. CASE holds[k] # None
    <3>1. IsServed(t)
      BY <1>6, <2>2 DEF StartedWith, t
    <3>2. tainted => tainted'
      BY <1>1
    <3> QED BY <1>2, <1>3, <1>4, <1>11, <3>1, <3>2, OneAnswer DEF t
  <2> QED BY <2>1, <2>2
<1> QED BY <1>12

\* The innermost level has resolved: its work is that of the one around it.
Folded(stack) ==
    [SubSeq(stack, 1, Len(stack) - 1) EXCEPT
        ![Len(stack) - 1] = @ \cup stack[Len(stack)]]

LEMMA FoldedJoins ==
    ASSUME NEW stack \in Seq(Deeds), Len(stack) > 1
    PROVE  Joined(stack, Folded(stack)) /\ Len(Folded(stack)) = Len(stack) - 1
<1> DEFINE n == Len(stack)
           outer == SubSeq(stack, 1, n - 1)
           folded == Folded(stack)
<1>1. n \in Nat /\ DOMAIN stack = 1..n /\ Len(stack) # 0
  OBVIOUS
<1>2. outer \in Seq(Deeds) /\ Len(outer) = n - 1
  BY <1>1, Stacks
<1>3. \A l \in 1..(n - 1) : outer[l] = stack[l]
  BY <1>1
<1>4. folded = [outer EXCEPT ![n - 1] = outer[n - 1] \cup stack[n]]
  BY DEF Folded
<1>a. n > 1
  OBVIOUS
<1> HIDE DEF n, outer, folded
<1>5. DOMAIN outer = 1..(n - 1) /\ n - 1 \in DOMAIN outer /\ n - 1 \in 1..(n - 1)
  BY <1>1, <1>2, <1>a
<1>6. DOMAIN folded = 1..(n - 1) /\ \A l \in DOMAIN folded : l # n - 1 => folded[l] = outer[l]
  BY <1>4, <1>5
<1>7. folded[n - 1] = stack[n - 1] \cup stack[n]
  BY <1>3, <1>4, <1>5
<1>8. Len(folded) = n - 1
  BY <1>1, <1>4, <1>5, <1>2
<1> QED BY <1>1, <1>3, <1>6, <1>7, <1>8, <1>a DEF Joined, n, folded

\* A savepoint is released: the work is still that of k.
LEMMA OwnedMerged ==
    ASSUME NEW f, IsFrames(f), NEW mark, NEW c, IsCut(f, c, mark),
           NEW g, Merged(f, c, g), NEW mine, Owned(mine, f)
    PROVE  Owned(mine, g)
<1>1. DOMAIN f = 1..Len(f) /\ Len(f) \in Nat
  BY FramesHave
<1>2. c \in 1..Len(f) /\ c > 1
  BY <1>1 DEF IsCut
<1>3. /\ DOMAIN g = 1..(c - 1)
      /\ \A i \in DOMAIN g : i # c - 1 => g[i].work = f[i].work
      /\ \A w \in g[c - 1].work : \E i \in DOMAIN f : w \in f[i].work
  BY DEF Merged
<1>4. ASSUME NEW i \in DOMAIN g PROVE g[i].work \subseteq mine
  <2>1. CASE i = c - 1
    BY <1>3, <2>1 DEF Owned
  <2>2. CASE i # c - 1
    <3>1. i \in DOMAIN f
      BY <1>1, <1>2, <1>3
    <3> QED BY <1>3, <2>2, <3>1 DEF Owned
  <2> QED BY <2>1, <2>2
<1> QED BY <1>4 DEF Owned

\* The same for a rollback to a savepoint.
LEMMA OwnedBack ==
    ASSUME NEW f, IsFrames(f), NEW mark, NEW c, IsCut(f, c, mark),
           NEW g, CutBack(f, c, g), NEW mine, Owned(mine, f)
    PROVE  Owned(mine, g)
<1>1. DOMAIN f = 1..Len(f) /\ Len(f) \in Nat
  BY FramesHave
<1>2. c \in 1..Len(f) /\ c > 1
  BY <1>1 DEF IsCut
<1>3. /\ DOMAIN g = 1..c /\ g[c].work = {}
      /\ \A i \in DOMAIN g : i # c => g[i] = f[i]
  BY DEF CutBack
<1> QED BY <1>1, <1>2, <1>3 DEF Owned

\* COMMIT makes the work of a whole call durable.
LEMMA CoversAll ==
    ASSUME NEW s, NEW stack, Covers(stack, s.frames), NEW l \in DOMAIN stack
    PROVE  stack[l] \subseteq WorkOf(s)
BY DEF Covers, WorkOf

\* What the server keeps for a call is not rejected work.
LEMMA HonestWork ==
    ASSUME NEW s, NEW stack, NEW rejected, Honest(stack, s.frames, rejected)
    PROVE  WorkOf(s) \cap rejected = {}
BY DEF Honest, WorkOf

\* A commit that succeeds.
SucceededAs(v, q, s, o) ==
    \/ /\ q.depth <= 1 /\ s.alive /\ OneLess(q, o.runner, FALSE)
       /\ o.session.frames = <<>>
    \/ /\ v = "postgres" /\ q.depth > 1 /\ s.alive /\ OneLess(q, o.runner, TRUE)
       /\ o.durable = {} /\ ~o.session.failed /\ o.session.frames # <<>>
       /\ \E c : /\ IsCut(s.frames, c, q.depth - 1)
                 /\ Merged(s.frames, c, o.session.frames)
    \/ /\ v = "oracle" /\ q.depth # 1 /\ o.durable = {}
       /\ o.session = s /\ OneLess(q, o.runner, TRUE)

LEMMA Succeeded ==
    ASSUME NEW v, NEW q, NEW s, NEW o, CommittedWith(v, q, s, o), o.ok
    PROVE  q.active /\ SucceededAs(v, q, s, o)
BY Zenon DEF CommittedWith, SucceededAs

\* A nested transaction() resolves.
LEMMA NestedCounts ==
    ASSUME NEW v, NEW q \in Runners, NEW s, NEW o, CommittedWith(v, q, s, o), o.ok,
           NEW n \in Nat, n > 1, Counts(q, "running", n)
    PROVE  /\ Counts(o.runner, "running", n - 1)
           /\ Exact(o.runner, n - 1) => Exact(q, n)
           /\ Exact(q, n) => Exact(o.runner, n - 1)
<1>1. q.depth \in Int
  BY DEF Runners
<1>2. /\ q.active /\ q.depth <= n /\ q.depth >= 1
      /\ \/ q.depth <= 1 /\ OneLess(q, o.runner, FALSE)
         \/ q.depth # 1 /\ OneLess(q, o.runner, TRUE)
  <2>1. q.active /\ SucceededAs(v, q, s, o)
    BY Succeeded
  <2>2. q.depth <= n /\ q.depth >= 1
    BY <2>1 DEF Counts, Working
  <2>3. q.depth > 1 => q.depth # 1
    BY <1>1
  <2> QED BY <2>1, <2>2, <2>3, Zenon DEF SucceededAs
<1> QED BY <1>1, <1>2 DEF Counts, Exact, OneLess

LEMMA NestedTrue ==
    ASSUME NEW v, NEW q \in Runners, NEW s, IsServed(s), NEW o,
           CommittedWith(v, q, s, o), o.ok,
           NEW stack \in Seq(Deeds), Len(stack) > 1, Exact(q, Len(stack)),
           NEW rejected
    PROVE  /\ Honest(stack, s.frames, rejected)
                => Honest(Folded(stack), o.session.frames, rejected)
           /\ Ordered(Len(stack), s.frames) => Ordered(Len(stack) - 1, o.session.frames)
           /\ Ordered(Len(stack), s.frames) /\ Covers(stack, s.frames)
                => Covers(Folded(stack), o.session.frames)
           /\ v = "postgres" => o.session.frames # <<>>
           /\ ~s.failed => ~o.session.failed
<1> DEFINE n == Len(stack)
           f == s.frames
           g == o.session.frames
           folded == Folded(stack)
<1>1. n \in Nat /\ n > 1 /\ IsFrames(f)
  BY DEF IsServed
<1>2. Joined(stack, folded)
  BY FoldedJoins
<1>3. q.depth = n
  BY DEF Exact
<1>4. \/ /\ ~o.session.failed /\ g # <<>>
         /\ \E c : IsCut(f, c, q.depth - 1) /\ Merged(f, c, g)
      \/ v = "oracle" /\ o.session = s
  <2>1. ~(q.depth <= 1)
    BY <1>1, <1>3
  <2>2. SucceededAs(v, q, s, o)
    BY Succeeded
  <2> HIDE DEF f, g
  <2>3. \/ /\ ~o.session.failed /\ g # <<>>
           /\ \E c : IsCut(f, c, q.depth - 1) /\ Merged(f, c, g)
        \/ v = "oracle" /\ o.session = s
    BY <2>1, <2>2, Zenon DEF SucceededAs, f, g
  <2> QED BY <2>3 DEF f, g
<1>5. CASE /\ ~o.session.failed /\ g # <<>>
           /\ \E c : IsCut(f, c, q.depth - 1) /\ Merged(f, c, g)
  <2>1. PICK c : IsCut(f, c, n - 1) /\ Merged(f, c, g)
    BY <1>3, <1>5
  <2> HIDE DEF g, folded, f
  <2>2. Honest(stack, f, rejected) => Honest(folded, g, rejected)
    BY <1>1, <1>2, <2>1, HonestMerged
  <2>3. Ordered(n, f) => Ordered(n - 1, g)
    <3>1. /\ \A i \in DOMAIN g : g[i].mark = f[i].mark
          /\ DOMAIN g = 1..(c - 1)
      BY <2>1 DEF Merged
    <3> QED BY <1>1, <2>1, <3>1, OrderedMerged
  <2>4. Ordered(n, f) /\ Covers(stack, f) => Covers(folded, g)
    BY <1>1, <1>2, <2>1, CoversMerged
  <2> QED BY <1>5, <2>2, <2>3, <2>4 DEF g, folded, f
<1>6. CASE v = "oracle" /\ o.session = s
  <2>1. g = f
    BY <1>6
  <2>2. Honest(stack, f, rejected) => Honest(folded, f, rejected)
    BY <1>1, <1>2, HonestJoined
  <2>3. Ordered(n, f) => Ordered(n - 1, f)
    BY <1>1, OrderedLess
  <2>4. Covers(stack, f) => Covers(folded, f)
    BY <1>2, CoversJoined
  <2> QED BY <1>6, <2>1, <2>2, <2>3, <2>4
<1> QED BY <1>4, <1>5, <1>6

\* What a commit makes durable, whatever its outcome.
LEMMA CommitDurable ==
    ASSUME NEW v, NEW q, NEW s, NEW o, CommittedWith(v, q, s, o)
    PROVE  /\ o.durable \subseteq WorkOf(s)
           /\ ~s.alive => o.durable = {}
           /\ o.durable # {} => q.depth <= 1 /\ o.cause # "before"
<1>1. CASE o.durable = {}
  BY <1>1
<1>2. CASE o.durable # {}
  <2>1. /\ q.depth <= 1 /\ o.cause # "before"
        /\ o.ok => s.alive /\ o.durable = IF s.failed THEN {} ELSE WorkOf(s)
        /\ ~o.ok => o.durable \subseteq WorkOf(s) /\ (~s.alive => o.durable = {})
    BY <1>2, Zenon DEF CommittedWith
  <2> QED BY <1>2, <2>1
<1> QED BY <1>1, <1>2

LEMMA ResolvedDurable ==
    ASSUME NEW v, NEW q, NEW s, NEW o, CommittedWith(v, q, s, o), o.ok,
           q.depth = 1, ~s.failed
    PROVE  o.durable = WorkOf(s)
<1>1. \/ o.durable = IF s.failed THEN {} ELSE WorkOf(s)
      \/ q.depth > 1
      \/ q.depth # 1
  BY Zenon DEF CommittedWith
<1> QED BY <1>1

\* A commit that fails.
LEMMA CommitFailed ==
    ASSUME NEW v, NEW q \in Runners, NEW s, NEW o, CommittedWith(v, q, s, o), ~o.ok,
           NEW n \in Nat, Counts(q, "running", n)
    PROVE  Counts(o.runner, "failing", n)
<1>1. \/ o.runner = q
      \/ q.depth <= 1 /\ OneLess(q, o.runner, FALSE)
      \/ OneLess(q, o.runner, TRUE)
  BY Zenon DEF CommittedWith
<1>2. q.depth \in Int /\ q.depth <= n /\ (~q.active => q.depth <= 0)
  BY DEF Runners, Counts
<1> QED BY <1>1, <1>2 DEF Counts, OneLess, Working

LEMMA ReturnOutcomes ==
    ASSUME OutcomeInv, NEW k \in Calls, Return(k)
    PROVE  FrameTypes' /\ OutcomeFacts'
<1> DEFINE s == SessionOf(k)
           q == runner[k]
           n == Level(k)
           mine == Mine(k)
           stack == open[k]
           failed(c) == IF n = 1 /\ c # "before" THEN <<{}>> ELSE stack
<1>1. PICK o \in CommitTransaction(vendor, q, s) :
        /\ Answered(k, o)
        /\ runner' = [runner EXCEPT ![k] = o.runner]
        /\ \/ /\ o.ok /\ n > 1
              /\ open' = [open EXCEPT ![k] = [Outer(k) EXCEPT ![n - 1] = @ \cup Inner(k)]]
              /\ at' = at /\ invalid' = invalid /\ kept' = kept /\ swallowed' = swallowed
           \/ /\ o.ok /\ n = 1
              /\ open' = [open EXCEPT ![k] = <<>>]
              /\ at' = [at EXCEPT ![k] = Outside(k)]
              /\ kept' = IF k \in swallowed THEN kept ELSE kept \cup Inner(k)
              /\ swallowed' = swallowed \ {k} /\ invalid' = invalid
           \/ /\ ~o.ok
              /\ open' = IF n = 1 /\ o.cause # "before"
                         THEN [open EXCEPT ![k] = <<{}>>] ELSE open
              /\ at' = [at EXCEPT ![k] = "failing"]
              /\ invalid' = [invalid EXCEPT ![k] = TRUE]
              /\ kept' = kept /\ swallowed' = swallowed
  BY DEF Return
<1>2. /\ vendor' = vendor /\ holds' = holds /\ used' = used /\ undone' = undone
      /\ astray' = astray /\ tainted' = tainted /\ at[k] = "running"
  BY DEF Return
<1>3. /\ session' = IF holds[k] = None THEN session
                    ELSE [session EXCEPT ![holds[k]] = o.session]
      /\ durable' = durable \cup o.durable
  BY <1>1 DEF Answered
<1>4. OthersKeep(k)
  <2>1. open' = open \/ \E x : open' = [open EXCEPT ![k] = x]
    BY <1>1
  <2>2. at' = at \/ \E x : at' = [at EXCEPT ![k] = x]
    BY <1>1
  <2>3. swallowed' \in {swallowed, swallowed \cup {k}, swallowed \ {k}}
    BY <1>1
  <2>4. invalid' = invalid \/ \E x : invalid' = [invalid EXCEPT ![k] = x]
    BY <1>1
  <2>5. runner' = runner \/ \E x : runner' = [runner EXCEPT ![k] = x]
    BY <1>1
  <2> QED BY <1>2, <2>1, <2>2, <2>3, <2>4, <2>5, Apart
<1>5. /\ IsServed(s) /\ vendor \in Vendors /\ q \in Runners /\ q.depth \in Int
      /\ stack \in Seq(Deeds) /\ Len(stack) = n /\ DOMAIN stack = 1..n
      /\ n # 0 /\ n \in Nat
      /\ s.alive => ~q.released /\ holds[k] # None
  <2>1. s.alive => holds[k] # None
    BY Dead DEF SessionOf
  <2> QED BY <1>2, <2>1, Believed, Holder DEF OutcomeInv, InsideCall, Level
<1>6. CommittedWith(vendor, q, s, o)
  <2> HIDE DEF s, q
  <2> QED BY <1>5, CommitGives
<1>7. runner'[k] = o.runner
  BY <1>1, Types DEF OutcomeInv
<1>8. \/ /\ o.ok /\ n > 1 /\ at'[k] = "running" /\ invalid'[k] = invalid[k]
         /\ open'[k] = Folded(stack) /\ kept' = kept /\ swallowed' = swallowed
      \/ /\ o.ok /\ n = 1 /\ at'[k] \in {"ready", "leaving"} /\ invalid'[k] = invalid[k]
         /\ open'[k] = <<>> /\ (k \notin swallowed => kept' = kept \cup stack[1])
         /\ (k \in swallowed => kept' = kept)
      \/ /\ ~o.ok /\ at'[k] = "failing" /\ invalid'[k] /\ kept' = kept
         /\ open'[k] = failed(o.cause)
  <2>1. CASE /\ o.ok /\ n > 1
             /\ open' = [open EXCEPT ![k] = [Outer(k) EXCEPT ![n - 1] = @ \cup Inner(k)]]
             /\ at' = at /\ invalid' = invalid /\ kept' = kept /\ swallowed' = swallowed
    <3>1. [Outer(k) EXCEPT ![n - 1] = @ \cup Inner(k)] = Folded(stack)
      BY DEF Outer, Inner, Folded, Level
    <3>2. open'[k] = [Outer(k) EXCEPT ![n - 1] = @ \cup Inner(k)]
      BY <2>1, Types DEF OutcomeInv
    <3> QED BY <1>2, <2>1, <3>1, <3>2
  <2>2. CASE /\ o.ok /\ n = 1
             /\ open' = [open EXCEPT ![k] = <<>>]
             /\ at' = [at EXCEPT ![k] = Outside(k)]
             /\ kept' = IF k \in swallowed THEN kept ELSE kept \cup Inner(k)
             /\ swallowed' = swallowed \ {k} /\ invalid' = invalid
    <3>1. open'[k] = <<>> /\ at'[k] \in {"ready", "leaving"}
      BY <2>2, Types DEF OutcomeInv, Outside
    <3>2. Inner(k) = stack[1]
      BY <2>2 DEF Inner
    <3> QED BY <2>2, <3>1, <3>2
  <2>3. CASE /\ ~o.ok
             /\ open' = IF n = 1 /\ o.cause # "before"
                        THEN [open EXCEPT ![k] = <<{}>>] ELSE open
             /\ at' = [at EXCEPT ![k] = "failing"]
             /\ invalid' = [invalid EXCEPT ![k] = TRUE]
             /\ kept' = kept /\ swallowed' = swallowed
    <3>1. at'[k] = "failing" /\ invalid'[k]
      BY <2>3, Types DEF OutcomeInv
    <3>2. open'[k] = failed(o.cause)
      BY <2>3, Types DEF OutcomeInv
    <3> QED BY <2>3, <3>1, <3>2
  <2> QED BY <1>1, <2>1, <2>2, <2>3
<1>9. Mine(k)' = mine /\ (n > 1 => Joined(stack, Folded(stack)) /\ Len(Folded(stack)) = n - 1)
  BY <1>2, <1>5, FoldedJoins DEF Mine
<1>10. Level(k)' = IF ~o.ok THEN n ELSE n - 1
  <2>1. Len(<<{}>>) = 1 /\ Len(<<>>) = 0
    OBVIOUS
  <2> HIDE DEF n, stack
  <2> QED BY <1>5, <1>8, <1>9, <2>1 DEF Level
<1> DEFINE t == o.session
           p == o.runner
<1> HIDE DEF s, q, n, mine, stack, t, p
<1>11. ASSUME ~tainted' PROVE Grown(k) /\ CallTrue(k)'
  <2>1. CallTrue(k) /\ ~invalid[k]
    BY <1>2, <1>11, Believed DEF CallTrue
  <2>2. holds[k] # None => Counts(q, "running", n) /\ (k \notin astray => Exact(q, n))
    BY <1>2, <2>1 DEF CallTrue, Working, q, n
  <2>3. s.alive =>
          /\ Owned(mine, s.frames)
          /\ k \notin astray => Honest(stack, s.frames, undone)
          /\ Exact(q, n) => /\ Ordered(n, s.frames) /\ Covers(stack, s.frames)
                            /\ k \notin swallowed => ~s.failed
    <3>1. s.alive => Stored(k)
      BY <1>2, <1>5, <2>1 DEF CallTrue, s
    <3> QED BY <1>2, <1>5, <3>1 DEF Stored, Mirrors, Working, Level, s, q, n, mine, stack
  <2>4. /\ o.durable \subseteq WorkOf(s) /\ (~s.alive => o.durable = {})
        /\ o.durable # {} => q.depth <= 1 /\ o.cause # "before"
    BY <1>6, CommitDurable
  <2>5. o.durable \subseteq mine
    BY <2>3, <2>4 DEF Owned, WorkOf
  <2>6. k \notin astray => o.durable \cap undone = {}
    BY <2>3, <2>4, HonestWork
  <2>7. k \notin astray /\ o.durable # {} => n = 1 /\ o.cause # "before"
    BY <1>5, <2>2, <2>4 DEF Exact
  <2>8. ASSUME o.ok, n = 1, k \notin swallowed
        PROVE  stack[1] \subseteq durable'
    <3>1. q.active /\ SucceededAs(vendor, q, s, o)
      BY <1>6, <2>8, Succeeded
    <3>2. holds[k] # None
      <4>1. s.alive \/ vendor = "oracle"
        BY <3>1 DEF SucceededAs
      <4> QED BY <1>2, <1>5, <2>1, <2>8, <3>1, <4>1 DEF CallTrue, Gone, Working, q
    <3>3. q.depth = 1 /\ Exact(q, n)
      BY <1>5, <2>2, <2>8, <3>1, <3>2 DEF Counts, Working, Exact
    <3>4. s.alive
      BY <3>1, <3>3 DEF SucceededAs
    <3>5. Covers(stack, s.frames) /\ ~s.failed
      BY <2>3, <2>8, <3>3, <3>4
    <3>6. o.durable = WorkOf(s)
      BY <1>6, <2>8, <3>3, <3>5, ResolvedDurable
    <3>7. stack[1] \subseteq WorkOf(s)
      BY <1>5, <2>8, <3>5, CoversAll
    <3> QED BY <1>3, <3>6, <3>7
  <2>9. Grown(k)
    <3>1. \A l \in DOMAIN stack : stack[l] \subseteq mine
      BY <2>1 DEF CallTrue, Told, mine, stack
    <3>2. kept' \subseteq kept \cup mine
      BY <1>5, <1>8, <3>1
    <3> QED BY <1>2, <1>3, <1>9, <2>5, <3>2 DEF Grown, mine
  <2>10. Told(k)'
    <3>1. /\ kept \cap mine \subseteq durable
          /\ k \notin astray => /\ undone \cap durable \cap mine = {}
                                /\ \A l \in DOMAIN stack : stack[l] \cap durable = {}
          /\ \A l \in DOMAIN stack : stack[l] \subseteq mine
      BY <2>1 DEF CallTrue, Told, mine, stack
    <3>2. kept' \cap mine \subseteq durable'
      BY <1>3, <1>8, <2>8, <3>1
    <3>3. k \notin astray => undone \cap durable' \cap mine = {}
      BY <1>3, <2>6, <3>1
    <3>4. \A l \in DOMAIN open'[k] :
            /\ open'[k][l] \subseteq mine
            /\ k \notin astray => open'[k][l] \cap durable' = {}
      <4>1. CASE o.ok /\ n > 1 /\ open'[k] = Folded(stack)
        <5>1. ASSUME NEW l \in DOMAIN Folded(stack)
              PROVE  \/ l \in DOMAIN stack /\ Folded(stack)[l] = stack[l]
                     \/ /\ n - 1 \in DOMAIN stack /\ n \in DOMAIN stack
                        /\ Folded(stack)[l] = stack[n - 1] \cup stack[n]
          BY <1>5, <1>9, <4>1 DEF Joined
        <5>2. k \notin astray => durable' = durable
          BY <1>3, <1>5, <2>7, <4>1
        <5> QED BY <3>1, <4>1, <5>1, <5>2
      <4>2. CASE open'[k] = <<>>
        BY <4>2
      <4>3. CASE open'[k] = failed(o.cause)
        <5>1. CASE n = 1 /\ o.cause # "before"
          BY <4>3, <5>1
        <5>2. CASE ~(n = 1 /\ o.cause # "before")
          <6>1. k \notin astray => durable' = durable
            BY <1>3, <2>7, <5>2
          <6>2. open'[k] = stack
            BY <4>3, <5>2
          <6> QED BY <3>1, <6>1, <6>2
        <5> QED BY <5>1, <5>2
      <4> QED BY <1>8, <4>1, <4>2, <4>3
    <3> QED BY <1>2, <1>9, <3>2, <3>3, <3>4 DEF Told
  <2>11. Gone(k)'
    <3>1. ASSUME at'[k] \in Working PROVE q.active /\ swallowed' = swallowed
      BY <1>6, <1>8, <3>1, Succeeded DEF Working
    <3> QED BY <1>2, <2>1, <3>1 DEF CallTrue, Gone, Working, q
  <2>12. ASSUME holds[k] # None
         PROVE  /\ at'[k] # "leaving" => Counts(p, at'[k], Level(k)')
                /\ k \notin astray /\ at'[k] \in Working => Exact(p, Level(k)')
                /\ t.alive /\ ~invalid'[k] => Stored(k)'
    <3>1. SessionOf(k)' = t
      BY <1>2, <1>3, <2>12, After DEF t
    <3>2. CASE o.ok /\ n > 1
      <4>1. /\ at'[k] = "running" /\ open'[k] = Folded(stack) /\ swallowed' = swallowed
            /\ Level(k)' = n - 1
        BY <1>8, <1>10, <3>2, <1>5
      <4>2. /\ Counts(p, "running", n - 1)
            /\ Exact(p, n - 1) => Exact(q, n)
            /\ Exact(q, n) => Exact(p, n - 1)
        BY <1>5, <1>6, <2>2, <2>12, <3>2, NestedCounts DEF p
      <4>3. ASSUME t.alive PROVE Stored(k)'
        <5>1. SucceededAs(vendor, q, s, o) /\ s.alive
          <6>1. SucceededAs(vendor, q, s, o)
            BY <1>6, <3>2, Succeeded
          <6> QED BY <4>3, <6>1 DEF SucceededAs, t
        <5>2. Owned(mine, t.frames)
          <6>1. CASE t.frames = <<>>
            BY <6>1 DEF Owned
          <6>2. CASE \E c : IsCut(s.frames, c, q.depth - 1) /\ Merged(s.frames, c, t.frames)
            BY <1>5, <2>3, <5>1, <6>2, OwnedMerged DEF IsServed
          <6>3. CASE t = s
            BY <2>3, <5>1, <6>3
          <6> QED BY <5>1, <6>1, <6>2, <6>3 DEF SucceededAs, t
        <5>3. Exact(q, n) =>
                /\ Honest(stack, s.frames, undone) => Honest(Folded(stack), t.frames, undone)
                /\ Ordered(n, s.frames) => Ordered(n - 1, t.frames)
                /\ Ordered(n, s.frames) /\ Covers(stack, s.frames)
                     => Covers(Folded(stack), t.frames)
                /\ vendor = "postgres" => t.frames # <<>>
                /\ ~s.failed => ~t.failed
          BY <1>5, <1>6, <3>2, NestedTrue DEF t
        <5>4. /\ Owned(mine, t.frames)
              /\ k \notin astray => Honest(Folded(stack), t.frames, undone)
              /\ Exact(p, n - 1) =>
                   /\ Ordered(n - 1, t.frames) /\ Covers(Folded(stack), t.frames)
                   /\ vendor = "postgres" => t.frames # <<>>
                   /\ k \notin swallowed => ~t.failed
          BY <2>2, <2>3, <2>12, <4>2, <5>1, <5>2, <5>3
        <5>5. Len(Folded(stack)) = n - 1
          BY <1>9, <3>2
        <5>6. (Owned(Mine(k), SessionOf(k).frames))'
          BY <1>9, <3>1, <5>4
        <5>7. (k \notin astray => Honest(open[k], SessionOf(k).frames, undone))'
          BY <1>2, <3>1, <4>1, <5>4
        <5>8. Mirrors(vendor', at'[k], Folded(stack), t) <=>
                /\ Ordered(n - 1, t.frames) /\ Covers(Folded(stack), t.frames)
                /\ at'[k] \in Working /\ vendor' = "postgres" => t.frames # <<>>
          BY <5>5 DEF Mirrors
        <5>9. (Exact(runner[k], Level(k)) =>
                 /\ Mirrors(vendor, at[k], open[k], SessionOf(k))
                 /\ at[k] \in Working /\ k \notin swallowed => ~SessionOf(k).failed)'
          <6> DEFINE folded == Folded(stack)
                     v == vendor'
          <6> HIDE DEF folded, v
          <6>1. ASSUME Exact(p, n - 1) PROVE Mirrors(v, at'[k], folded, t)
            BY <1>2, <5>4, <5>8, <6>1 DEF folded, v
          <6>2. Exact(p, n - 1) /\ k \notin swallowed' => ~t.failed
            BY <4>1, <5>4
          <6>3. open'[k] = folded /\ Level(k)' = n - 1 /\ runner'[k] = p
            BY <1>7, <4>1 DEF folded, p
          <6>4. Mirrors(vendor, at[k], open[k], SessionOf(k))'
                  <=> Mirrors(v, at'[k], folded, t)
            BY <3>1, <6>3 DEF v
          <6> QED BY <3>1, <6>1, <6>2, <6>3, <6>4
        <5> QED BY <5>6, <5>7, <5>9 DEF Stored
      <4> QED BY <2>2, <2>12, <4>1, <4>2, <4>3
    <3>3. CASE o.ok /\ n = 1
      <4>1. at'[k] \in {"ready", "leaving"} /\ Level(k)' = 0 /\ open'[k] = <<>>
        BY <1>8, <1>10, <3>3
      <4>2. q.active /\ SucceededAs(vendor, q, s, o)
        BY <1>6, <3>3, Succeeded
      <4>3. q.depth = 1
        BY <1>5, <2>2, <2>12, <3>3, <4>2 DEF Counts, Working
      <4>4. ~p.active /\ p.depth = 0 /\ t.frames = <<>>
        BY <4>2, <4>3 DEF SucceededAs, OneLess, p, t
      <4>5. Counts(p, at'[k], 0)
        BY <4>1, <4>4 DEF Counts
      <4>6. Stored(k)'
        BY <1>2, <1>7, <3>1, <4>4 DEF Stored, Owned, Honest, Deep, Exact, p
      <4> QED BY <4>1, <4>5, <4>6 DEF Working
    <3>4. CASE ~o.ok
      <4>1. at'[k] = "failing" /\ invalid'[k] /\ Level(k)' = n
        BY <1>8, <1>10, <3>4
      <4>2. Counts(p, "failing", n)
        BY <1>5, <1>6, <2>2, <2>12, <3>4, CommitFailed DEF p
      <4> QED BY <4>1, <4>2 DEF Working
    <3> QED BY <1>5, <1>8, <3>2, <3>3, <3>4
  <2>13. invalid'[k] => at'[k] = "failing"
    BY <1>8, <2>1
  <2> QED BY <1>2, <1>3, <1>7, <2>9, <2>10, <2>11, <2>12, <2>13, After DEF CallTrue, p, t
<1>12. IsServed(t)
  BY <1>6 DEF CommittedWith, t
<1> QED BY <1>2, <1>3, <1>4, <1>11, <1>12, OneAnswer DEF t

\* The innermost level is rejected.
LEMMA OuterPopped ==
    ASSUME NEW stack \in Seq(Deeds), Len(stack) # 0
    PROVE  Popped(stack, SubSeq(stack, 1, Len(stack) - 1))
<1> DEFINE n == Len(stack)
           outer == SubSeq(stack, 1, n - 1)
<1>1. n \in Nat \ {0} /\ DOMAIN stack = 1..n
  OBVIOUS
<1>2. outer \in Seq(Deeds) /\ Len(outer) = n - 1
  BY <1>1, Stacks
<1>3. \A l \in 1..(n - 1) : outer[l] = stack[l]
  BY <1>1
<1> HIDE DEF n, outer
<1>4. DOMAIN outer = 1..(n - 1)
  BY <1>1, <1>2
<1> QED BY <1>1, <1>2, <1>3, <1>4 DEF Popped, n, outer

\* The rollback in the catch block of transaction().
CaughtWith(q, s, o) ==
    /\ IsServed(o.session) /\ o.durable = {}
    /\ ~q.active => o.ok /\ o.runner = q /\ o.session = s
    /\ q.active => RolledBackWith(q, s, o)

LEMMA CaughtGives ==
    ASSUME OutcomeInv, NEW k \in Calls, NEW o \in CatchOutcomes(k)
    PROVE  CaughtWith(runner[k], SessionOf(k), o)
<1> DEFINE s == SessionOf(k)
           q == runner[k]
<1>1. IsServed(s) /\ vendor \in Vendors /\ q \in Runners
  BY Believed, Holder DEF OutcomeInv
<1>2. CASE q.active
  <2>1. o \in RollbackTransaction(vendor, q, s)
    BY <1>2 DEF CatchOutcomes
  <2> HIDE DEF s, q
  <2>2. RolledBackWith(q, s, o)
    BY <1>1, <1>2, <2>1, RollbackGives
  <2> QED BY <1>2, <2>2 DEF RolledBackWith, CaughtWith, s, q
<1>3. CASE ~q.active
  <2>1. o = Outcome(TRUE, q, Reply(TRUE, s, {}), "none")
    BY <1>3 DEF CatchOutcomes
  <2>2. o.ok /\ o.runner = q
    BY <2>1 DEF Outcome
  <2>3. o.session = s /\ o.durable = {}
    BY <2>1 DEF Outcome, Reply
  <2> QED BY <1>1, <1>3, <2>2, <2>3 DEF CaughtWith
<1> QED BY <1>2, <1>3

\* One level less after a rollback that was due.
LEMMA CaughtCounts ==
    ASSUME NEW q \in Runners, NEW s, NEW o, CaughtWith(q, s, o), o.ok,
           NEW n \in Nat, n # 0, Counts(q, "failing", n), NEW p
    PROVE  /\ Counts(o.runner, p, n - 1)
           /\ Exact(o.runner, n - 1) => n > 1 /\ Exact(q, n)
<1>1. q.depth \in Int
  BY DEF Runners
<1>2. \/ ~q.active /\ o.runner = q
      \/ q.active /\ q.depth > 1 /\ OneLess(q, o.runner, TRUE)
      \/ q.active /\ q.depth <= 1 /\ OneLess(q, o.runner, FALSE)
  <2>1. q.depth > 1 \/ q.depth <= 1
    BY <1>1
  <2> QED BY <2>1, Zenon DEF CaughtWith, RolledBackWith
<1>3. (~q.active => q.depth <= 0) /\ q.depth <= n
  BY DEF Counts
<1>4. CASE ~q.active /\ o.runner = q
  BY <1>1, <1>3, <1>4 DEF Counts, Exact
<1>5. CASE q.active /\ q.depth > 1 /\ OneLess(q, o.runner, TRUE)
  BY <1>1, <1>3, <1>5 DEF Counts, Exact, OneLess
<1>6. CASE q.active /\ q.depth <= 1 /\ OneLess(q, o.runner, FALSE)
  BY <1>1, <1>3, <1>6 DEF Counts, Exact, OneLess
<1> QED BY <1>2, <1>4, <1>5, <1>6

(***************************************************************************)
(* What the transaction holds after a rollback that was due: the rejected  *)
(* work is gone, that of the outer levels is where it was.                 *)
(***************************************************************************)
LEMMA CaughtTrue ==
    ASSUME NEW q \in Runners, NEW s, IsServed(s), NEW o, CaughtWith(q, s, o), o.ok,
           ~q.active => o.session.frames = <<>>,
           NEW stack, NEW outer, Popped(stack, outer), NEW rejected, NEW mine,
           Counts(q, "failing", Len(stack)),
           Owned(mine, s.frames)
    PROVE  /\ Owned(mine, o.session.frames)
           /\ Honest(stack, s.frames, rejected)
                => Honest(outer, o.session.frames, rejected \cup stack[Len(stack)])
           /\ /\ Exact(q, Len(stack)) /\ Len(stack) > 1
              /\ Ordered(Len(stack), s.frames) /\ Covers(stack, s.frames)
              => /\ Ordered(Len(stack) - 1, o.session.frames)
                 /\ Covers(outer, o.session.frames)
                 /\ o.session.frames # <<>> /\ ~o.session.failed
<1> DEFINE f == s.frames
           g == o.session.frames
           n == Len(stack)
<1>1. q.depth \in Int /\ IsFrames(f) /\ n \in Nat \ {0}
  BY DEF Runners, IsServed, Popped
<1>2. \/ g = <<>> /\ (q.active => q.depth <= 1)
      \/ /\ q.active /\ q.depth > 1 /\ ~o.session.failed /\ g # <<>>
         /\ \E c : IsCut(f, c, q.depth - 1) /\ CutBack(f, c, g)
  <2>1. q.depth > 1 \/ q.depth <= 1
    BY <1>1
  <2> QED BY <2>1, Zenon DEF CaughtWith, RolledBackWith
<1>3. q.depth <= n
  BY DEF Counts
<1> HIDE DEF f, g, n
<1>4. CASE g = <<>> /\ (q.active => q.depth <= 1)
  <2>1. Owned(mine, g) /\ Honest(outer, g, rejected \cup stack[n])
    BY <1>4 DEF Owned, Honest, Deep
  <2>2. ~(Exact(q, n) /\ n > 1)
    BY <1>1, <1>4 DEF Exact
  <2> QED BY <2>1, <2>2 DEF f, g, n
<1>5. CASE /\ q.active /\ q.depth > 1 /\ ~o.session.failed /\ g # <<>>
           /\ \E c : IsCut(f, c, q.depth - 1) /\ CutBack(f, c, g)
  <2>1. PICK c : IsCut(f, c, q.depth - 1) /\ CutBack(f, c, g)
    BY <1>5
  <2>2. Owned(mine, g)
    BY <1>1, <2>1, OwnedBack DEF f
  <2>3. Honest(stack, f, rejected) => Honest(outer, g, rejected \cup stack[n])
    BY <1>1, <1>3, <2>1, HonestBack DEF n
  <2>4. Exact(q, n) /\ n > 1 /\ Ordered(n, f) /\ Covers(stack, f)
          => Ordered(n - 1, g) /\ Covers(outer, g)
    <3>1. Exact(q, n) => IsCut(f, c, n - 1)
      BY <2>1 DEF Exact
    <3> QED BY <1>1, <2>1, <3>1, CoversBack DEF n
  <2> QED BY <1>5, <2>2, <2>3, <2>4 DEF f, g, n
<1> QED BY <1>2, <1>4, <1>5

\* What a rejected transaction() changes in what was told.
LEMMA RejectedTold ==
    ASSUME NEW k \in Calls, Told(k), Popped(open[k], open'[k]), kept' = kept,
           durable' = durable, used' = used, astray \subseteq astray',
           undone' = undone \cup open[k][Len(open[k])]
    PROVE  Told(k)' /\ Grown(k)
<1> DEFINE mine == Mine(k)
           stack == open[k]
           outer == open'[k]
           n == Len(stack)
           top == stack[n]
<1>1. /\ kept \cap mine \subseteq durable
      /\ k \notin astray => /\ undone \cap durable \cap mine = {}
                            /\ \A l \in DOMAIN stack : stack[l] \cap durable = {}
      /\ \A l \in DOMAIN stack : stack[l] \subseteq mine
  BY DEF Told
<1>2. Mine(k)' = mine
  BY DEF Mine
<1>3. n \in DOMAIN stack /\ \A l \in DOMAIN outer : l \in DOMAIN stack /\ outer[l] = stack[l]
  <2>1. /\ n \in Nat \ {0} /\ DOMAIN stack = 1..n /\ DOMAIN outer = 1..(n - 1)
        /\ \A l \in DOMAIN outer : outer[l] = stack[l]
    BY DEF Popped
  <2> HIDE DEF n, stack, outer
  <2> QED BY <2>1
<1>4. undone' = undone \cup top
  OBVIOUS
<1>5. top \subseteq mine /\ (k \notin astray => top \cap durable = {})
  BY <1>1, <1>3
<1> HIDE DEF mine, top, n, stack
<1>6. Grown(k)
  BY <1>2, <1>4, <1>5 DEF Grown, mine
<1>7. k \notin astray' => undone' \cap durable \cap mine = {}
  BY <1>1, <1>4, <1>5
<1>8. \A l \in DOMAIN outer : /\ outer[l] \subseteq mine
                              /\ k \notin astray' => outer[l] \cap durable = {}
  BY <1>1, <1>3
<1> QED BY <1>1, <1>2, <1>6, <1>7, <1>8 DEF Told

LEMMA CaughtOutcomes ==
    ASSUME OutcomeInv, NEW k \in Calls, Catch(k)
    PROVE  FrameTypes' /\ OutcomeFacts'
<1> DEFINE s == SessionOf(k)
           q == runner[k]
           n == Level(k)
           stack == open[k]
<1>1. PICK o \in CatchOutcomes(k), next \in Rethrown(k) :
        /\ durable' = durable \cup o.durable
        /\ IF Distrusted(k, o)
           THEN ReleaseRunner(k, o.runner, o.session, TRUE)
           ELSE /\ runner' = [runner EXCEPT ![k] = o.runner]
                /\ session' = IF holds[k] = None THEN session
                              ELSE [session EXCEPT ![holds[k]] = o.session]
                /\ UNCHANGED <<slot, holds>>
        /\ at' = [at EXCEPT ![k] = next]
        /\ swallowed' = IF Level(k) = 1 THEN swallowed \ {k}
                        ELSE IF Distrusted(k, o) /\ next = "running"
                        THEN swallowed \cup {k} ELSE swallowed
        /\ astray' = IF /\ next = "running" /\ ~Distrusted(k, o)
                        /\ ~o.runner.active \/ o.runner.depth # Level(k) - 1
                     THEN astray \cup {k} ELSE astray
  BY DEF Catch
<1>2. /\ vendor' = vendor /\ used' = used /\ kept' = kept /\ tainted' = tainted
      /\ undone' = undone \cup stack[n] /\ open' = [open EXCEPT ![k] = Outer(k)]
      /\ invalid' = [invalid EXCEPT ![k] = FALSE] /\ at[k] = "failing"
  BY DEF Catch, Inner
<1>3. /\ IsServed(s) /\ vendor \in Vendors /\ q \in Runners /\ q.depth \in Int
      /\ stack \in Seq(Deeds) /\ Len(stack) = n /\ n # 0 /\ n \in Nat
      /\ s.alive => holds[k] # None
  <2>1. s.alive => holds[k] # None
    BY Dead DEF SessionOf
  <2> QED BY <1>2, <2>1, Believed, Holder DEF OutcomeInv, InsideCall, Level
<1>4. CaughtWith(q, s, o)
  BY CaughtGives
<1>5. durable' = durable /\ IsServed(o.session)
  BY <1>1, <1>4 DEF CaughtWith
<1>6. OthersKeep(k)
  <2>1. runner' = runner \/ \E x : runner' = [runner EXCEPT ![k] = x]
    BY <1>1 DEF ReleaseRunner
  <2>2. holds' = holds \/ \E x : holds' = [holds EXCEPT ![k] = x]
    BY <1>1 DEF ReleaseRunner
  <2>3. swallowed' \in {swallowed, swallowed \cup {k}, swallowed \ {k}}
    BY <1>1
  <2>4. astray' = astray \/ astray' = astray \cup {k}
    BY <1>1
  <2>5. at' = at \/ \E x : at' = [at EXCEPT ![k] = x]
    BY <1>1
  <2>6. open' = open \/ \E x : open' = [open EXCEPT ![k] = x]
    BY <1>2
  <2>7. invalid' = invalid \/ \E x : invalid' = [invalid EXCEPT ![k] = x]
    BY <1>2
  <2> QED BY <1>2, <2>1, <2>2, <2>3, <2>4, <2>5, <2>6, <2>7, Apart
<1>7. at'[k] = next /\ ~invalid'[k] /\ open'[k] = Outer(k)
  BY <1>1, <1>2, Types DEF OutcomeInv
<1>8. Popped(stack, open'[k])
  <2>1. Outer(k) = SubSeq(stack, 1, Len(stack) - 1)
    BY DEF Outer, Level
  <2> HIDE DEF stack
  <2> QED BY <1>3, <1>7, <2>1, OuterPopped
<1>9. /\ next \in {"ready", "leaving", "running", "failing"}
      /\ next \in Working => next = "running" /\ n # 1
  BY DEF Rethrown, Outside, Working
<1>10. astray \subseteq astray' /\ Mine(k)' = Mine(k)
  BY <1>1, <1>2 DEF Mine
<1>11. Level(k)' = n - 1
  BY <1>3, <1>8 DEF Popped, Level
<1>12. ASSUME ~tainted PROVE Grown(k) /\ Told(k)' /\ CallTrue(k)
  <2>1. CallTrue(k)
    BY <1>12, Believed
  <2>2. undone' = undone \cup open[k][Len(open[k])]
    BY <1>2, <1>3
  <2> QED BY <1>2, <1>5, <1>8, <1>10, <2>1, <2>2, RejectedTold DEF CallTrue
<1>13. CASE Distrusted(k, o)
  <2>1. ReleaseRunner(k, o.runner, o.session, TRUE)
    BY <1>1, <1>13
  <2>2. holds'[k] = None
    BY <2>1, Types DEF OutcomeInv, ReleaseRunner
  <2>3. next \in Working => k \in swallowed'
    BY <1>1, <1>9, <1>13
  <2>4. ASSUME ~tainted' PROVE Grown(k) /\ CallTrue(k)'
    <3>1. Gone(k)'
      BY <1>7, <2>3 DEF Gone
    <3> QED BY <1>2, <1>7, <1>12, <2>2, <2>4, <3>1 DEF CallTrue
  <2> DEFINE p == o.runner
             t == o.session
  <2>5. IsServed(t) /\ \E error \in BOOLEAN : ReleaseRunner(k, p, t, error)
    BY <1>5, <2>1
  <2> HIDE DEF p, t
  <2> QED BY <1>2, <1>6, <2>4, <2>5, OneGivesBack
<1>14. CASE ~Distrusted(k, o)
  <2> DEFINE t == o.session
             p == o.runner
             outer == open'[k]
  <2>1. /\ runner'[k] = p /\ holds' = holds /\ o.ok /\ ~invalid[k]
        /\ session' = IF holds[k] = None THEN session
                      ELSE [session EXCEPT ![holds[k]] = t]
        /\ next = "running" /\ k \notin astray' => Exact(p, n - 1)
    <3>1. /\ runner' = [runner EXCEPT ![k] = p] /\ holds' = holds /\ o.ok /\ ~invalid[k]
          /\ session' = IF holds[k] = None THEN session
                        ELSE [session EXCEPT ![holds[k]] = t]
      BY <1>1, <1>14 DEF Distrusted
    <3>2. next = "running" /\ k \notin astray' => p.active /\ p.depth = n - 1
      BY <1>1, <1>14
    <3>3. runner'[k] = p
      BY <3>1, Types DEF OutcomeInv
    <3> QED BY <3>1, <3>2, <3>3 DEF Exact
  <2> HIDE DEF t, p, s, q, n, stack, outer
  <2>2. q.active => s.alive
    BY <1>4, <2>1 DEF CaughtWith, RolledBackWith
  <2>3. Gone(k)'
    <3>1. p.active => holds[k] # None
      BY <1>3, <1>4, <2>1, <2>2 DEF CaughtWith, p
    <3> QED BY <2>1, <3>1 DEF Gone
  <2>4. ASSUME ~tainted', holds[k] # None
        PROVE  /\ Counts(p, next, n - 1)
               /\ k \notin astray' /\ next \in Working => Exact(p, n - 1)
               /\ t.alive => Stored(k)'
    <3>1. CallTrue(k) /\ SessionOf(k)' = t
      BY <1>2, <1>12, <2>1, <2>4, After
    <3>2. Counts(q, "failing", n)
      BY <1>2, <2>4, <3>1 DEF CallTrue, q, n
    <3>3. /\ Counts(p, next, n - 1)
          /\ Exact(p, n - 1) => n > 1 /\ Exact(q, n)
      BY <1>3, <1>4, <2>1, <3>2, CaughtCounts DEF p
    <3>4. ASSUME t.alive PROVE Stored(k)'
      <4>1. s.alive /\ (~q.active => t.frames = <<>>)
        <5>1. s.alive
          BY <1>4, <2>2, <3>4 DEF CaughtWith, t
        <5>2. s.frames # <<>> => q.active
          BY <1>2, <2>4, <5>1, Believed DEF s, q
        <5> QED BY <1>4, <5>1, <5>2 DEF CaughtWith, t
      <4>2. /\ Owned(Mine(k), s.frames)
            /\ k \notin astray => Honest(stack, s.frames, undone)
            /\ Exact(q, n) => Ordered(n, s.frames) /\ Covers(stack, s.frames)
        <5>1. Stored(k)
          BY <1>2, <2>1, <2>4, <3>1, <4>1 DEF CallTrue, s
        <5>2. n = Len(open[k])
          BY DEF n, Level
        <5> QED BY <5>1 DEF Stored, Mirrors, s, q, stack, n, Level
      <4>3. /\ Owned(Mine(k), t.frames)
            /\ Honest(stack, s.frames, undone) => Honest(outer, t.frames, undone')
            /\ /\ Exact(q, n) /\ n > 1
               /\ Ordered(n, s.frames) /\ Covers(stack, s.frames)
               => /\ Ordered(n - 1, t.frames) /\ Covers(outer, t.frames)
                  /\ t.frames # <<>> /\ ~t.failed
        <5> DEFINE mine == Mine(k)
                   rejected == undone
        <5>1. Popped(stack, outer) /\ Counts(q, "failing", Len(stack)) /\ Owned(mine, s.frames)
          BY <1>3, <1>8, <3>2, <4>2 DEF outer
        <5>2. ~q.active => o.session.frames = <<>>
          BY <4>1 DEF t
        <5> HIDE DEF mine, rejected
        <5>3. /\ Owned(mine, o.session.frames)
              /\ Honest(stack, s.frames, rejected)
                   => Honest(outer, o.session.frames, rejected \cup stack[Len(stack)])
              /\ /\ Exact(q, Len(stack)) /\ Len(stack) > 1
                 /\ Ordered(Len(stack), s.frames) /\ Covers(stack, s.frames)
                 => /\ Ordered(Len(stack) - 1, o.session.frames)
                    /\ Covers(outer, o.session.frames)
                    /\ o.session.frames # <<>> /\ ~o.session.failed
          BY <1>3, <1>4, <2>1, <5>1, <5>2, CaughtTrue
        <5> QED BY <1>2, <1>3, <5>3 DEF mine, rejected, t
      <4>4. (Owned(Mine(k), SessionOf(k).frames))'
        BY <1>10, <3>1, <4>3
      <4>5. (k \notin astray => Honest(open[k], SessionOf(k).frames, undone))'
        BY <1>10, <3>1, <4>2, <4>3 DEF outer
      <4>6. (Exact(runner[k], Level(k)) =>
               /\ Mirrors(vendor, at[k], open[k], SessionOf(k))
               /\ at[k] \in Working /\ k \notin swallowed => ~SessionOf(k).failed)'
        <5>1. Exact(p, n - 1) =>
                /\ Ordered(n - 1, t.frames) /\ Covers(outer, t.frames)
                /\ t.frames # <<>> /\ ~t.failed
          BY <3>3, <4>2, <4>3
        <5>2. Len(outer) = n - 1
          BY <1>3, <1>8 DEF Popped, outer
        <5>3. Exact(p, n - 1) => Mirrors(vendor', at'[k], outer, t) /\ ~t.failed
          BY <5>1, <5>2 DEF Mirrors
        <5> QED BY <1>11, <2>1, <3>1, <5>3 DEF outer
      <4> QED BY <4>4, <4>5, <4>6 DEF Stored
    <3>5. k \notin astray' /\ next \in Working => Exact(p, n - 1)
      BY <1>9, <2>1
    <3> QED BY <3>3, <3>4, <3>5
  <2>5. ASSUME ~tainted' PROVE Grown(k) /\ CallTrue(k)'
    <3>1. Grown(k) /\ Told(k)'
      BY <1>2, <1>12, <2>5
    <3>2. holds[k] # None => SessionOf(k)' = t
      BY <2>1, After
    <3> QED BY <1>7, <1>11, <2>1, <2>3, <2>4, <2>5, <3>1, <3>2 DEF CallTrue
  <2> QED BY <1>2, <1>5, <1>6, <2>1, <2>5, OneAnswer DEF t
<1> QED BY <1>13, <1>14

LEMMA PersistOutcomes ==
    ASSUME OutcomeInv, NEW k \in Calls, PersistCatch(k)
    PROVE  FrameTypes' /\ OutcomeFacts'
<1> DEFINE s == SessionOf(k)
           q == runner[k]
           stack == open[k]
<1>1. PICK o \in RollbackTransaction(vendor, q, s) :
        /\ Answered(k, o)
        /\ runner' = [runner EXCEPT ![k] = o.runner]
        /\ tainted => tainted'
  BY DEF PersistCatch
<1>2. /\ vendor' = vendor /\ holds' = holds /\ used' = used /\ kept' = kept
      /\ invalid' = invalid /\ swallowed' = swallowed /\ astray' = astray
      /\ undone' = undone \cup stack[Level(k)] /\ open' = [open EXCEPT ![k] = Outer(k)]
      /\ at' = [at EXCEPT ![k] = "leaving"] /\ at[k] = "failing"
  BY DEF PersistCatch, Inner
<1>3. /\ IsServed(s) /\ vendor \in Vendors /\ q \in Runners
      /\ stack \in Seq(Deeds) /\ Len(stack) # 0
  BY <1>2, Believed, Holder DEF OutcomeInv, InsideCall, Level
<1>4. IsServed(o.session) /\ o.durable = {}
  <2>1. CASE q.active
    <3> HIDE DEF s, q
    <3>1. RolledBackWith(q, s, o)
      BY <1>3, <2>1, RollbackGives
    <3> QED BY <3>1 DEF RolledBackWith
  <2>2. CASE ~q.active
    <3>1. o = Thrown(q, s, "none")
      BY <2>2 DEF RollbackTransaction
    <3> HIDE DEF s, q
    <3>2. o.session = s
      BY <3>1, ThrownIs
    <3>3. o.durable = {}
      BY <3>1, ReplyGives DEF Thrown, Outcome
    <3> QED BY <1>3, <3>2, <3>3
  <2> QED BY <2>1, <2>2
<1>5. /\ session' = IF holds[k] = None THEN session
                    ELSE [session EXCEPT ![holds[k]] = o.session]
      /\ durable' = durable
  BY <1>1, <1>4 DEF Answered
<1>6. OthersKeep(k)
  <2>1. runner' = runner \/ \E x : runner' = [runner EXCEPT ![k] = x]
    BY <1>1
  <2>2. at' = at \/ \E x : at' = [at EXCEPT ![k] = x]
    BY <1>2
  <2>3. open' = open \/ \E x : open' = [open EXCEPT ![k] = x]
    BY <1>2
  <2> QED BY <1>2, <2>1, <2>2, <2>3, Apart
<1>7. at'[k] = "leaving" /\ open'[k] = Outer(k)
  BY <1>2, Types DEF OutcomeInv
<1>8. Popped(stack, open'[k])
  <2>1. Outer(k) = SubSeq(stack, 1, Len(stack) - 1)
    BY DEF Outer, Level
  <2> HIDE DEF stack
  <2> QED BY <1>3, <1>7, <2>1, OuterPopped
<1>9. ASSUME ~tainted' PROVE Grown(k) /\ CallTrue(k)'
  <2>1. CallTrue(k)
    BY <1>1, <1>9, Believed
  <2>2. undone' = undone \cup open[k][Len(open[k])] /\ astray \subseteq astray'
    BY <1>2 DEF Level
  <2>3. Grown(k) /\ Told(k)'
    BY <1>2, <1>5, <1>8, <2>1, <2>2, RejectedTold DEF CallTrue
  <2>4. Gone(k)'
    BY <1>7 DEF Gone, Working
  <2> QED BY <1>7, <2>3, <2>4 DEF CallTrue
<1> DEFINE t == o.session
<1>10. /\ IsServed(t)
       /\ session' = IF holds[k] = None THEN session
                     ELSE [session EXCEPT ![holds[k]] = t]
  BY <1>4, <1>5
<1> HIDE DEF t
<1> QED BY <1>1, <1>2, <1>6, <1>9, <1>10, OneAnswer

-----------------------------------------------------------------------------
(* What the calls were told.                                               *)

LEMMA OutcomeStep == OutcomeInv /\ [Next]_vars => OutcomeInv'
<1> SUFFICES ASSUME OutcomeInv, [Next]_vars PROVE FrameTypes' /\ OutcomeFacts'
  BY CleanStep DEF OutcomeInv
<1>1. CASE UNCHANGED vars
  <2>1. FrameTypes'
    BY <1>1 DEF OutcomeInv, FrameTypes, vars
  <2>2. ASSUME ~tainted', NEW k \in Calls PROVE CallTrue(k)'
    <3>1. CallTrue(k)
      BY <1>1, <2>2, Believed DEF vars
    <3>2. /\ SessionOf(k)' = SessionOf(k) /\ Level(k)' = Level(k) /\ Mine(k)' = Mine(k)
      BY <1>1 DEF vars, SessionOf, Level, Mine
    <3>3. Told(k)' /\ Gone(k)'
      BY <1>1, <3>1, <3>2 DEF CallTrue, Told, Gone, vars
    <3>4. Stored(k) => Stored(k)'
      BY <1>1, <3>2 DEF Stored, vars
    <3> QED BY <1>1, <3>1, <3>2, <3>3, <3>4 DEF CallTrue, vars
  <2>3. (\A w \in durable \cup kept \cup undone : \E k \in Calls : w \in Mine(k))
          => (\A w \in durable \cup kept \cup undone : \E k \in Calls : w \in Mine(k))'
    BY <1>1 DEF vars, Mine
  <2>4. tainted' = tainted
    BY <1>1 DEF vars
  <2> QED BY <2>1, <2>2, <2>3, <2>4 DEF OutcomeInv, OutcomeFacts
<1>2. ASSUME NEW k \in Calls, BeginCall(k) \/ CallStep(k) \/ ConnectionError(k)
      PROVE  FrameTypes' /\ OutcomeFacts'
  <2>1. CASE BeginCall(k) \/ StartRefused(k) \/ CallbackThrows(k) \/ OperationEnds(k)
    BY <2>1, MoveOutcomes
  <2>2. CASE Connect(k)
    BY <2>2, ConnectOutcomes
  <2>3. CASE ConnectFails(k) \/ Leave(k) \/ ConnectionError(k)
    BY <2>3, LeaveOutcomes
  <2>4. CASE Start(k)
    BY <2>4, StartOutcomes
  <2>5. CASE ApplyOptions(k)
    BY <2>5, ApplyOutcomes
  <2>6. CASE RestoreOptions(k)
    BY <2>6, RestoreOutcomes
  <2>7. CASE Statement(k)
    BY <2>7, StatementOutcomes
  <2>8. CASE Return(k)
    BY <2>8, ReturnOutcomes
  <2>9. CASE Catch(k)
    BY <2>9, CaughtOutcomes
  <2>10. CASE PersistCatch(k)
    BY <2>10, PersistOutcomes
  <2> QED
    BY <1>2, <2>1, <2>2, <2>3, <2>4, <2>5, <2>6, <2>7, <2>8, <2>9, <2>10 DEF CallStep
<1>3. CASE ClosePool
  BY <1>3, CloseOutcomes
<1> QED BY <1>1, <1>2, <1>3 DEF Next

(***************************************************************************)
(* What a call was told of a transaction is what became of it, in every    *)
(* interleaving of any number of calls, at any depth of nesting, whatever  *)
(* fails in the database: the work of a transaction() that resolved is     *)
(* durable, unless the callback had gone on in a transaction that was      *)
(* lost, and the work of one that was rejected never becomes durable, not  *)
(* even through a later user of the connection, unless the callback went   *)
(* on after its transaction had been rolled back further than to its       *)
(* savepoint (EntityManager.transaction over the query runners).           *)
(***************************************************************************)
THEOREM CallsAreToldTheTruth == Spec => []OutcomesAreTrue
<1>1. Init => OutcomeInv
  BY InitLeases, InitLevels, InitClean, InitOutcomes DEF OutcomeInv, CleanInv
<1>2. OutcomeInv => OutcomesAreTrue
  <2> SUFFICES ASSUME OutcomeInv, ~tainted
               PROVE  /\ kept \subseteq durable
                      /\ \A w \in undone \cap durable : w[1] \in astray
    BY DEF OutcomesAreTrue
  <2>1. /\ \A w \in durable \cup kept \cup undone : \E k \in Calls : w \in Mine(k)
        /\ \A k \in Calls : Told(k)
    BY DEF OutcomeInv, OutcomeFacts, CallTrue
  <2>2. kept \subseteq durable
    BY <2>1 DEF Told
  <2>3. ASSUME NEW w \in undone \cap durable PROVE w[1] \in astray
    <3>1. PICK k \in Calls : w \in Mine(k)
      BY <2>1
    <3>2. k \in astray
      BY <2>1, <3>1 DEF Told
    <3>3. w[1] = k
      BY <3>1 DEF Mine
    <3> QED BY <3>2, <3>3
  <2> QED BY <2>2, <2>3
<1> QED BY <1>1, <1>2, OutcomeStep, PTL DEF Spec

=============================================================================
