----------------------------- MODULE DerivProofs -----------------------------
(***************************************************************************)
(* The derivative program of Deriv for every grid, number of ranks and set *)
(* of command lines.                                                       *)
(***************************************************************************)
EXTENDS Deriv, FiniteSetTheorems, TLAPS

----------------------------------------------------------------------------
(* The blocks of the ranks: they follow each other without gap or      *)
(* overlap from the first point to the last, and differ by at most one.    *)

share == NGRID \div numproc
extra == NGRID % numproc

\* Division with remainder, as lines 77-86 use it.
LEMMA Division ==
    /\ share \in Nat /\ extra \in Nat
    /\ extra < numproc
    /\ NGRID = share * numproc + extra
  BY NGRIDAssumption, numprocAssumption, SMT DEF share, extra

\* The quotient is the last multiple that fits.
LEMMA Quotient ==
    ASSUME NEW a \in Nat, NEW b \in Nat \ {0}
    PROVE  a \div b \in Nat /\ (a \div b) * b <= a /\ a < (a \div b) * b + b
  OBVIOUS

\* start and end without division: each rank before r has share points, the
\* first extra have one more.
LEMMA Blocks ==
    ASSUME NEW r \in Rank
    PROVE  /\ r < extra => start(r) = 1 + share * r + r /\ end(r) = start(r) + share
           /\ r >= extra => start(r) = 1 + share * r + extra /\ end(r) = start(r) + share - 1
           /\ start(r) \in Int /\ end(r) \in Int
  <1>1. r \in Nat /\ share * r \in Nat
    BY Division DEF Rank
  <1> QED
    BY <1>1, Division DEF start, end, share, extra

\* The first block begins at point 1, the last one ends at NGRID, and each
\* begins after the one before it: the loop of lines 75-91 leaves out no point
\* and gives none to two ranks.
THEOREM BlocksFollow ==
    /\ start(0) = 1
    /\ end(numproc - 1) = NGRID
    /\ \A r \in Rank : r + 1 \in Rank => start(r + 1) = end(r) + 1
  <1> DEFINE n == numproc - 1
  <1>1. 0 \in Rank /\ n \in Rank
    BY numprocAssumption DEF Rank
  <1>2. start(0) = 1
    BY <1>1, Blocks, Division
  <1>3. end(n) = NGRID
    <2>1. n \in Nat /\ NGRID = share * n + share + extra
      BY Division, numprocAssumption
    <2>2. share * n \in Nat
      BY <2>1, Division
    <2> QED
      BY <1>1, <2>1, <2>2, Blocks, Division, numprocAssumption
  <1>4. ASSUME NEW r \in Rank, r + 1 \in Rank
        PROVE  start(r + 1) = end(r) + 1
    <2>1. r \in Nat
      BY DEF Rank
    <2>2. share * r \in Nat /\ share * (r + 1) = share * r + share
      BY <2>1, Division
    <2> QED
      BY <1>4, <2>1, <2>2, Blocks, Division
  <1> QED
    BY <1>2, <1>3, <1>4

\* No block is more than a point longer than another, and MPI_Gatherv's
\* displacements are those of the blocks (lines 89-90).
THEOREM BlocksBalanced ==
    \A r \in Rank :
        /\ counts(r) \in {share, share + 1}
        /\ disp(r) + counts(r) = end(r)
        /\ disp(r) >= 0
  <1> SUFFICES ASSUME NEW r \in Rank
               PROVE  /\ counts(r) \in {share, share + 1}
                      /\ disp(r) + counts(r) = end(r)
                      /\ disp(r) >= 0
    OBVIOUS
  <1>1. r \in Nat /\ share * r \in Nat
    BY Division DEF Rank
  <1> QED
    BY <1>1, Blocks, Division DEF counts, disp

\* With two points for every rank each block has the two that dx needs
\* (line 108).
THEOREM BlocksHaveDx ==
    ASSUME NGRID >= 2 * numproc
    PROVE  \A r \in Rank : counts(r) >= 2
  <1>1. share >= 2
    <2>1. SUFFICES ASSUME share <= 1 PROVE FALSE
      BY Division
    <2>2. share * numproc <= numproc
      BY <2>1, Division, numprocAssumption
    <2> QED
      BY <2>2, Division, numprocAssumption, NGRIDAssumption
  <1> QED
    BY <1>1, BlocksBalanced, Division DEF share

\* Blocks of different ranks are disjoint.
LEMMA BlocksOrdered ==
    ASSUME NEW r \in Rank, NEW s \in Rank, r < s
    PROVE  end(r) < start(s)
  <1>1. r \in Nat /\ s \in Nat /\ share * r \in Nat /\ share * s \in Nat
    BY Division DEF Rank
  <1>2. share * r + share <= share * s
    <2>1. share * (r + 1) <= share * s
      BY <1>1, Division
    <2> QED
      BY <2>1, <1>1, Division
  <1> QED
    BY <1>1, <1>2, Blocks, Division

\* Every grid point is in the block of exactly one rank.
THEOREM PointsOwned ==
    \A p \in 1 .. NGRID :
        /\ \E r \in Rank : start(r) <= p /\ p <= end(r)
        /\ \A r, s \in Rank :
             start(r) <= p /\ p <= end(r) /\ start(s) <= p /\ p <= end(s) => r = s
  <1> SUFFICES ASSUME NEW p \in 1 .. NGRID
               PROVE  /\ \E r \in Rank : start(r) <= p /\ p <= end(r)
                      /\ \A r, s \in Rank :
                           start(r) <= p /\ p <= end(r) /\ start(s) <= p /\ p <= end(s)
                           => r = s
    OBVIOUS
  <1>1. \E r \in Rank : start(r) <= p /\ p <= end(r)
    <2>1. CASE p <= extra * (share + 1)
      <3> DEFINE r == (p - 1) \div (share + 1)
      <3>1. r \in Nat /\ r * (share + 1) <= p - 1 /\ p - 1 < r * (share + 1) + share + 1
        <4>1. p - 1 \in Nat /\ share + 1 \in Nat \ {0}
          BY Division, NGRIDAssumption
        <4>2. /\ r \in Nat /\ r * (share + 1) <= p - 1
              /\ p - 1 < r * (share + 1) + (share + 1)
          BY <4>1, Quotient
        <4>3. r * (share + 1) \in Nat
          BY <4>1, <4>2
        <4> HIDE DEF r
        <4> QED
          BY <4>1, <4>2, <4>3, Division
      <3>2. r < extra
        <4>1. SUFFICES ASSUME r >= extra PROVE FALSE
          BY <3>1, Division
        <4>2. r * (share + 1) >= extra * (share + 1)
          BY <4>1, <3>1, Division
        <4> QED
          BY <4>2, <3>1, <2>1, Division
      <3>3. r \in Rank
        BY <3>1, <3>2, Division, numprocAssumption DEF Rank
      <3>4. r * (share + 1) = share * r + r /\ share * r \in Nat
        BY <3>1, Division
      <3>5. start(r) <= p /\ p <= end(r)
        BY <3>1, <3>2, <3>3, <3>4, Blocks, Division
      <3> QED
        BY <3>3, <3>5
    <2>2. CASE p > extra * (share + 1)
      <3> DEFINE t == p - extra * (share + 1) - 1
                 k == t \div share
                 r == extra + k
      <3>1. extra * (share + 1) = share * extra + extra /\ share * extra \in Nat /\ t \in Nat
        BY <2>2, Division, NGRIDAssumption
      <3>2. t < share * (numproc - extra)
        <4>1. share * (numproc - extra) = share * numproc - share * extra
          BY Division, numprocAssumption
        <4> QED
          BY <4>1, <3>1, Division, NGRIDAssumption, numprocAssumption
      <3>3. share > 0
        BY <3>1, <3>2, Division, numprocAssumption
      <3>4. k \in Nat /\ k * share <= t /\ t < k * share + share
        BY <3>1, <3>3, Division
      <3>5. k < numproc - extra
        <4>1. SUFFICES ASSUME k >= numproc - extra PROVE FALSE
          BY <3>4, Division, numprocAssumption
        <4>2. k * share >= share * (numproc - extra)
          BY <4>1, <3>4, Division, numprocAssumption
        <4> QED
          BY <4>2, <3>4, <3>2, <3>1, Division, numprocAssumption
      <3>6. r \in Rank /\ r >= extra
        BY <3>4, <3>5, Division, numprocAssumption DEF Rank
      <3>7. share * r = share * extra + k * share /\ k * share \in Nat
        BY <3>4, Division
      <3>8. start(r) = 1 + share * r + extra /\ end(r) = start(r) + share - 1
        BY <3>6, Blocks
      <3>9. start(r) <= p /\ p <= end(r)
        BY <3>1, <3>4, <3>7, <3>8, Division, NGRIDAssumption
      <3> QED
        BY <3>6, <3>9
    <2> QED
      BY <2>1, <2>2, Division, NGRIDAssumption
  <1>2. ASSUME NEW r \in Rank, NEW s \in Rank,
               start(r) <= p, p <= end(r), start(s) <= p, p <= end(s)
        PROVE  r = s
    <2>1. r \in Nat /\ s \in Nat
      BY DEF Rank
    <2>2. ~(r < s)
      BY <1>2, BlocksOrdered, Blocks
    <2>3. ~(s < r)
      BY <1>2, BlocksOrdered, Blocks
    <2> QED
      BY <2>1, <2>2, <2>3
  <1> QED
    BY <1>1, <1>2

----------------------------------------------------------------------------
(* Induction and folds.  *)

\* A set of naturals with 0 and the successor of each of its elements has all naturals:
\* otherwise the successor, on its elements below one it lacks, is an injection that misses 0.
LEMMA Induction ==
    ASSUME NEW S, 0 \in S, \A n \in Nat : n \in S => n + 1 \in S
    PROVE  Nat \subseteq S
<1> SUFFICES ASSUME NEW n \in Nat, n \notin S
             PROVE  FALSE
  OBVIOUS
<1> DEFINE A == {k \in 0 .. n : k \in S}
           f == [k \in A |-> k + 1]
<1>1. IsFiniteSet(A)
  <2>1. IsFiniteSet(0 .. n)
    BY FS_Interval
  <2> QED
    BY <2>1, FS_Subset
<1>2. \A k \in A : k + 1 \in A
  OBVIOUS
<1>3. f \in Injection(A, A)
  BY <1>2 DEF Injection, IsInjective
<1>4. f \in Surjection(A, A)
  BY <1>1, <1>3, FS_Injection
<1>5. 0 \in A
  OBVIOUS
<1>6. \A t \in A : \E k \in A : f[k] = t
  BY <1>4 DEF Surjection
<1>7. \E k \in A : f[k] = 0
  BY ONLY <1>5, <1>6
<1> QED
  BY <1>7

\* A set of naturals that is not empty has a least element.
LEMMA LeastNatural ==
    ASSUME NEW S \in SUBSET Nat, S # {}
    PROVE  /\ Min(S) \in S
           /\ \A x \in S : Min(S) <= x
<1> DEFINE Q == {n \in Nat : \A T \in SUBSET Nat :
                   (\E x \in T : x <= n) => \E x \in T : \A y \in T : x <= y}
<1>1. 0 \in Q
  OBVIOUS
<1>2. \A n \in Nat : n \in Q => n + 1 \in Q
  <2> SUFFICES ASSUME NEW n \in Nat, n \in Q, NEW T \in SUBSET Nat,
                      NEW x \in T, x <= n + 1
               PROVE  \E z \in T : \A y \in T : z <= y
    OBVIOUS
  <2>1. CASE \E y \in T : y <= n
    BY <2>1
  <2>2. CASE ~ \E y \in T : y <= n
    <3>1. \A y \in T : n + 1 <= y
      BY <2>2
    <3> QED
      BY <3>1
  <2> QED
    BY <2>1, <2>2
<1>3. Nat \subseteq Q
  BY <1>1, <1>2, Induction
<1>4. PICK n \in S : TRUE
  OBVIOUS
<1>5. n \in Q
  BY <1>3
<1>6. \E x \in S : \A y \in S : x <= y
  BY <1>4, <1>5
<1> QED
  BY <1>6 DEF Min

\* What InTurn folds with: one sequence after the other.
OneByOne(it, body) ==
    it = [s \in SUBSET DOMAIN body |->
             IF s = {} THEN << >> ELSE body[Min(s)] \o it[s \ {Min(s)}]]

\* InTurn as the recursive function it is.
LEMMA InTurnFold ==
    ASSUME NEW body
    PROVE  InTurn(body) = (CHOOSE it : OneByOne(it, body))[DOMAIN body]
  BY DEF InTurn, FoldRight, MapThenFoldSet, OneByOne

\* There is such a function.
LEMMA InTurnDefined ==
    ASSUME NEW body, DOMAIN body = Others
    PROVE  \E it : OneByOne(it, body)
<1> DEFINE Small(n) == {s \in SUBSET Others : Cardinality(s) <= n}
           Is(it, n) == it = [s \in Small(n) |->
                          IF s = {} THEN << >> ELSE body[Min(s)] \o it[s \ {Min(s)}]]
           Q == {n \in Nat : \E it : Is(it, n)}
<1>0. /\ IsFiniteSet(Others) /\ Cardinality(Others) \in Nat
      /\ \A s \in SUBSET Others : IsFiniteSet(s) /\ Cardinality(s) \in Nat /\ Cardinality(s) <= Cardinality(Others)
  <2>1. IsFiniteSet(Others)
    BY FS_Interval, numprocAssumption DEF Others
  <2> QED
    BY <2>1, FS_Subset, FS_CardinalityType
<1>1. \A s \in SUBSET Others : s # {} =>
         Min(s) \in s /\ Cardinality(s \ {Min(s)}) = Cardinality(s) - 1
  <2> SUFFICES ASSUME NEW s \in SUBSET Others, s # {}
               PROVE  Min(s) \in s /\ Cardinality(s \ {Min(s)}) = Cardinality(s) - 1
    OBVIOUS
  <2>1. s \in SUBSET Nat
    BY DEF Others
  <2>2. Min(s) \in s
    BY <2>1, LeastNatural
  <2> QED
    BY <2>2, <1>0, FS_RemoveElement
<1>2. 0 \in Q
  <2>1. \A s \in Small(0) : s = {}
    BY <1>0, FS_EmptySet
  <2>2. Is([s \in Small(0) |-> << >>], 0)
    BY <2>1
  <2> QED
    BY <2>2
<1>3. \A n \in Nat : n \in Q => n + 1 \in Q
  <2> SUFFICES ASSUME NEW n \in Nat, n \in Q
               PROVE  n + 1 \in Q
    OBVIOUS
  <2>0. PICK g : Is(g, n)
    OBVIOUS
  <2> DEFINE Put(s) == IF s = {} THEN << >> ELSE body[Min(s)] \o g[s \ {Min(s)}]
             h == [s \in Small(n + 1) |-> Put(s)]
  <2>1. \A s \in Small(n) : g[s] = Put(s)
    BY <2>0
  <2>2. \A s \in Small(n + 1) : s # {} => s \ {Min(s)} \in Small(n)
    BY <1>0, <1>1
  <2>3. Small(n) \subseteq Small(n + 1)
    BY <1>0
  <2>4. \A s \in Small(n) : h[s] = g[s]
    BY <2>1, <2>3
  <2>5. \A s \in Small(n + 1) :
           Put(s) = IF s = {} THEN << >> ELSE body[Min(s)] \o h[s \ {Min(s)}]
    BY <2>2, <2>4
  <2>6. Is(h, n + 1)
    BY <2>5
  <2>7. \E it : Is(it, n + 1)
    <3> HIDE DEF h
    <3> QED
      BY <2>6
  <2> HIDE DEF Is
  <2> QED
    BY <2>7
<1>4. Nat \subseteq Q
  <2> HIDE DEF Q
  <2> QED
    BY <1>2, <1>3, Induction
<1>5. PICK it : Is(it, Cardinality(Others))
  BY <1>4, <1>0
<1>6. Small(Cardinality(Others)) = SUBSET Others
  BY <1>0
<1>7. OneByOne(it, body)
  BY <1>5, <1>6 DEF OneByOne
<1> QED
  BY <1>7
----------------------------------------------------------------------------
(* The calls of a program.  *)

Arrays   == {"xc", "yc", "dyc"}
Early(a) == Manual(a) /\ NonBlocking(a)

\* Rank s sends its buffer b to rank d.
Sends(s, d, b) ==
    CASE b = "first" -> s # Root /\ d = s - 1
      [] b = "last"  -> s # LastRank /\ d = s + 1
      [] OTHER       -> s # Root /\ d = Root

\* Where it is received, and its tag.
Into(b) == CASE b = "first" -> "right" [] b = "last" -> "left" [] OTHER -> b
Tag(a, s, b) ==
    CASE b = "time" -> -4
      [] b = "first" -> IF NonBlocking(a) THEN 123456 ELSE 123
      [] b = "last" -> IF NonBlocking(a) THEN 123457 ELSE 123
      [] b = "xc" -> IF Early(a) THEN XC_TAG * s ELSE IF Manual(a) THEN 123 ELSE -1
      [] b = "yc" -> IF Early(a) THEN YC_TAG * s ELSE IF Manual(a) THEN 124 ELSE -2
      [] b = "dyc" -> IF Early(a) THEN 5678 ELSE IF Manual(a) THEN 125 ELSE -3

\* The calls that concern it, and those that concern no other rank.
CallOf(what, peer, tag, b) == [call |-> what, peer |-> peer, tag |-> tag, buf |-> b]
Posting(a, s, d, b)  == CallOf("Isend", d, Tag(a, s, b), b)
Awaiting(a, s, b)    == CallOf("Irecv", s, Tag(a, s, b), Into(b))
Posted(d, b)         == CallOf("WaitSend", d, 0, b)
Received(s, b)       == CallOf("WaitRecv", s, 0, Into(b))
Own(what)            == CallOf(what, Root, 0, "time")

WaitsForSend(a, b) ==
    \/ b = "yc"
    \/ b \in {"xc", "dyc"} /\ ~Early(a)
    \/ b \in {"first", "last"} /\ ~NonBlocking(a)
WaitsForRecv(a, b) == b \in Arrays => ~Early(a)

OwnCalls(a, r) ==
    {"ghosts", "yc", "dyc", "free", "finalize"}
    \union (IF r = Root THEN {"copy", "print"} ELSE {})
    \union (IF r = Root /\ numproc # 1 /\ Early(a) THEN {"test"} ELSE {})

\* Rank r makes the call c.
InProgram(a, r, c) ==
    \/ \E d \in Rank, b \in SendBufs :
         /\ Sends(r, d, b)
         /\ c = Posting(a, r, d, b) \/ (WaitsForSend(a, b) /\ c = Posted(d, b))
    \/ \E s \in Rank, b \in SendBufs :
         /\ Sends(s, r, b)
         /\ c = Awaiting(a, s, b) \/ (WaitsForRecv(a, b) /\ c = Received(s, b))
    \/ \E what \in OwnCalls(a, r) : c = Own(what)

\* Where a call stands in a program: every part of the program has a number, and in a loop
\* of the root the calls for one rank follow those for the rank before.
Messages == {"Isend", "Irecv", "WaitSend", "WaitRecv"}
Block(b) == CASE b = "xc" -> 0 [] b = "yc" -> 1 [] OTHER -> 2
Part(a, c) ==
    CASE c.call \notin Messages ->
           (CASE c.call = "ghosts" -> 2 [] c.call = "yc" -> 5 [] c.call = "dyc" -> 16
              [] c.call = "copy" -> 22 [] c.call = "test" -> 23 [] c.call = "print" -> 25
              [] c.call = "free" -> 26 [] OTHER -> 27)
      [] c.call \in Messages /\ c.buf = "first" -> IF c.call = "Isend" THEN 8 ELSE 9
      [] c.call \in Messages /\ c.buf = "left" ->
           IF c.call = "WaitRecv" THEN 11 ELSE IF NonBlocking(a) THEN 3 ELSE 10
      [] c.call \in Messages /\ c.buf = "last" ->
           IF c.call = "WaitSend" THEN 13 ELSE IF NonBlocking(a) THEN 9 ELSE 12
      [] c.call \in Messages /\ c.buf = "right" ->
           IF c.call = "WaitRecv" THEN 15 ELSE IF NonBlocking(a) THEN 4 ELSE 14
      [] c.call \in Messages /\ c.buf = "time" -> 24
      [] c.call \in Messages /\ c.buf \in Arrays /\ Early(a) ->
           IF c.buf = "xc" THEN 1 ELSE IF c.buf = "dyc" THEN 17
           ELSE IF c.call = "WaitSend" THEN 7 ELSE 6
      [] c.call \in Messages /\ c.buf \in Arrays /\ ~Early(a) ->
           IF Manual(a) THEN 18 ELSE 19 + Block(c.buf)
InLoop(a, c) ==
    IF c.call \in Messages /\ c.buf \in Arrays \union {"time"}
    THEN 6 * c.peer + (IF c.call \in {"Isend", "Irecv"} THEN 0 ELSE 1)
         + (IF Part(a, c) = 18 THEN 2 * Block(c.buf) ELSE 0)
    ELSE 0

\* There is room in each part for six calls for every rank.
Width       == 6 * numproc
Order(a, c) == Part(a, c) * Width + InLoop(a, c)

\* The sets of buffers, written out.
LEMMA Buffers ==
    /\ Range(Array) = Arrays
    /\ SendBufs = Arrays \union {"first", "last", "time"}
    /\ RecvBufs = Arrays \union {"left", "right", "time"}
<1>1. Range(Array) = Arrays
  BY DEF Range, Array, Arrays
<1> QED
  BY <1>1 DEF SendBufs, RecvBufs

\* A receive is for one buffer of the sender.
LEMMA IntoFacts ==
    /\ \A b \in SendBufs : Into(b) \in RecvBufs
    /\ \A b, e \in SendBufs : Into(b) = Into(e) => b = e
    /\ \A b \in SendBufs : b \in Arrays \union {"time"} => Into(b) = b
    /\ Into("first") = "right" /\ Into("last") = "left"
  BY Buffers DEF Into, Arrays

\* Ranks and the root.
LEMMA RankFacts ==
    /\ Root \in Rank /\ LastRank \in Rank /\ Root = 0 /\ LastRank = numproc - 1
    /\ \A r \in Rank : r \in Nat /\ r < numproc
    /\ Others = Rank \ {Root}
    /\ Width \in Nat
  BY numprocAssumption DEF Root, LastRank, Rank, Others, Width

\* Tags are numbers.
LEMMA TagFacts ==
    ASSUME NEW a, NEW s \in Rank, NEW b \in SendBufs
    PROVE  Tag(a, s, b) \in Int
  BY Buffers, RankFacts DEF Tag, Arrays, XC_TAG, YC_TAG

\* The position of each call.
LEMMA Orders ==
    ASSUME NEW a, NEW s \in Rank, NEW d \in Rank
    PROVE  /\ Order(a, Own("ghosts")) = 2 * Width
           /\ Order(a, Own("yc")) = 5 * Width
           /\ Order(a, Own("dyc")) = 16 * Width
           /\ Order(a, Own("copy")) = 22 * Width
           /\ Order(a, Own("test")) = 23 * Width
           /\ Order(a, Own("print")) = 25 * Width
           /\ Order(a, Own("free")) = 26 * Width
           /\ Order(a, Own("finalize")) = 27 * Width
           /\ Order(a, Posting(a, s, d, "first")) = 8 * Width
           /\ Order(a, Posted(d, "first")) = 9 * Width
           /\ Order(a, Awaiting(a, s, "last")) = IF NonBlocking(a) THEN 3 * Width ELSE 10 * Width
           /\ Order(a, Received(s, "last")) = 11 * Width
           /\ Order(a, Posting(a, s, d, "last")) = IF NonBlocking(a) THEN 9 * Width ELSE 12 * Width
           /\ Order(a, Posted(d, "last")) = 13 * Width
           /\ Order(a, Awaiting(a, s, "first")) = IF NonBlocking(a) THEN 4 * Width ELSE 14 * Width
           /\ Order(a, Received(s, "first")) = 15 * Width
           /\ Order(a, Posting(a, s, d, "time")) = 24 * Width + 6 * d
           /\ Order(a, Awaiting(a, s, "time")) = 24 * Width + 6 * s
           /\ Order(a, Received(s, "time")) = 24 * Width + 6 * s + 1
<1>1. Width \in Int /\ s \in Int /\ d \in Int
  BY RankFacts
<1> QED
  BY <1>1 DEF Root, Order, Part, InLoop, Own, Posting, Posted, Awaiting, Received, CallOf, Into, Messages, Arrays

\* The positions of the calls for an array, by how the arrays are gathered.
LEMMA ArrayOrders ==
    ASSUME NEW a, NEW s \in Rank, NEW d \in Rank, NEW b \in Arrays
    PROVE  /\ Order(a, Posting(a, s, d, b)) =
                IF Early(a) THEN (IF b = "xc" THEN 1 ELSE IF b = "yc" THEN 6 ELSE 17) * Width + 6 * d
                ELSE IF Manual(a) THEN 18 * Width + 6 * d + 2 * Block(b)
                ELSE (19 + Block(b)) * Width + 6 * d
           /\ Order(a, Awaiting(a, s, b)) =
                IF Early(a) THEN (IF b = "xc" THEN 1 ELSE IF b = "yc" THEN 6 ELSE 17) * Width + 6 * s
                ELSE IF Manual(a) THEN 18 * Width + 6 * s + 2 * Block(b)
                ELSE (19 + Block(b)) * Width + 6 * s
           /\ Order(a, Posted(d, "yc")) =
                IF Early(a) THEN 7 * Width + 6 * d + 1
                ELSE IF Manual(a) THEN 18 * Width + 6 * d + 3 ELSE 20 * Width + 6 * d + 1
           /\ ~Early(a) => Order(a, Posted(d, b)) =
                IF Manual(a) THEN 18 * Width + 6 * d + 2 * Block(b) + 1
                ELSE (19 + Block(b)) * Width + 6 * d + 1
           /\ ~Early(a) => Order(a, Received(s, b)) =
                IF Manual(a) THEN 18 * Width + 6 * s + 2 * Block(b) + 1
                ELSE (19 + Block(b)) * Width + 6 * s + 1
<1>1. Width \in Int /\ s \in Int /\ d \in Int
  BY RankFacts
<1>2. CASE b = "xc"
  BY <1>1, <1>2 DEF Order, Part, InLoop, Posting, Posted, Awaiting, Received, CallOf, Into, Messages, Arrays, Block
<1>3. CASE b = "yc"
  BY <1>1, <1>3 DEF Order, Part, InLoop, Posting, Posted, Awaiting, Received, CallOf, Into, Messages, Arrays, Block
<1>4. CASE b = "dyc"
  BY <1>1, <1>4 DEF Order, Part, InLoop, Posting, Posted, Awaiting, Received, CallOf, Into, Messages, Arrays, Block
<1> QED
  BY <1>2, <1>3, <1>4 DEF Arrays

----------------------------------------------------------------------------
(* A part of a program lists some calls in their order.  *)

Lists(a, s, S, lo, hi) ==
    /\ s \in Seq(Calls)
    /\ \A k \in 1 .. Len(s) : s[k] \in S
    /\ \A c \in S : \E k \in 1 .. Len(s) : s[k] = c
    /\ \A k \in 1 .. Len(s) : lo <= Order(a, s[k]) /\ Order(a, s[k]) < hi
    /\ \A k, l \in 1 .. Len(s) : k < l => Order(a, s[k]) < Order(a, s[l])

\* The position of any call is a number.
LEMMA OrderType ==
    ASSUME NEW a, NEW c \in Calls
    PROVE  Order(a, c) \in Int
<1>1. c.peer \in Int /\ Width \in Int
  <2>1. c.peer \in Rank
    BY DEF Calls
  <2>2. \A r \in Rank : r \in Int
    BY DEF Rank
  <2>3. Width \in Int
    BY numprocAssumption DEF Width
  <2> QED
    BY <2>1, <2>2, <2>3
<1>2. Block(c.buf) \in Int
  BY DEF Block
<1>3. Part(a, c) \in {1, 2, 3, 4, 5, 6, 7, 8, 9, 10, 11, 12, 13, 14, 15, 16, 17, 18, 19, 20, 21, 22, 23, 24, 25, 26, 27}
  <2>1. c.buf \in Arrays \union {"first", "last", "left", "right", "time"}
    BY Buffers DEF Calls
  <2> QED
    BY <2>1 DEF Part, Arrays, Block
<1>4. InLoop(a, c) \in Int
  BY <1>1, <1>2 DEF InLoop
<1>5. Part(a, c) * Width \in Int
  BY <1>1, <1>3
<1> QED
  BY <1>4, <1>5 DEF Order

\* No call.
LEMMA ListsNone ==
    ASSUME NEW a, NEW lo, NEW hi
    PROVE  Lists(a, << >>, {}, lo, hi)
  BY DEF Lists

\* One call.
LEMMA ListsOne ==
    ASSUME NEW a, NEW c \in Calls, NEW lo \in Int, NEW hi \in Int,
           lo <= Order(a, c), Order(a, c) < hi
    PROVE  Lists(a, <<c>>, {c}, lo, hi)
<1> DEFINE s == <<c>>
<1>1. s \in Seq(Calls) /\ Len(s) = 1 /\ s[1] = c
  OBVIOUS
<1>2. \A k \in 1 .. Len(s) : k = 1
  BY <1>1
<1> HIDE DEF s
<1>3. \A e \in {c} : \E k \in 1 .. Len(s) : s[k] = e
  <2>1. 1 \in 1 .. Len(s) /\ s[1] = c
    BY <1>1
  <2> QED
    BY <2>1
<1>4. Lists(a, s, {c}, lo, hi)
  BY <1>1, <1>2, <1>3 DEF Lists
<1> QED
  BY <1>4 DEF s

\* The elements of two sequences in a row.
LEMMA Joining ==
    ASSUME NEW S, NEW s \in Seq(S), NEW t \in Seq(S)
    PROVE  /\ s \o t \in Seq(S)
           /\ Len(s \o t) = Len(s) + Len(t)
           /\ \A k \in 1 .. Len(s) : k \in 1 .. Len(s \o t) /\ (s \o t)[k] = s[k]
           /\ \A k \in 1 .. Len(t) : Len(s) + k \in 1 .. Len(s \o t) /\ (s \o t)[Len(s) + k] = t[k]
           /\ \A k \in 1 .. Len(s \o t) :
                \/ k \in 1 .. Len(s)
                \/ k - Len(s) \in 1 .. Len(t) /\ (s \o t)[k] = t[k - Len(s)]
  OBVIOUS

\* Two parts in a row.
LEMMA ListsThen ==
    ASSUME NEW a, NEW s, NEW t, NEW S, NEW T, NEW lo \in Int, NEW mid \in Int, NEW hi \in Int,
           Lists(a, s, S, lo, mid), Lists(a, t, T, mid, hi), lo <= mid, mid <= hi
    PROVE  Lists(a, s \o t, S \union T, lo, hi)
<1>1. s \in Seq(Calls) /\ t \in Seq(Calls)
  BY DEF Lists
<1>2. PICK u : u = s \o t
  OBVIOUS
<1>3. /\ u \in Seq(Calls)
      /\ \A k \in 1 .. Len(s) : k \in 1 .. Len(u) /\ u[k] = s[k]
      /\ \A k \in 1 .. Len(t) : Len(s) + k \in 1 .. Len(u) /\ u[Len(s) + k] = t[k]
      /\ \A k \in 1 .. Len(u) :
           \/ k \in 1 .. Len(s)
           \/ k - Len(s) \in 1 .. Len(t) /\ u[k] = t[k - Len(s)]
      /\ Len(s) \in Nat /\ Len(t) \in Nat
  BY <1>1, <1>2, Joining
<1>4. \A k \in 1 .. Len(u) : u[k] \in S \union T
  BY <1>3 DEF Lists
<1>5. \A c \in S \union T : \E k \in 1 .. Len(u) : u[k] = c
  <2>1. ASSUME NEW c \in S PROVE \E k \in 1 .. Len(u) : u[k] = c
    <3>1. PICK k \in 1 .. Len(s) : s[k] = c
      BY DEF Lists
    <3> QED
      BY <3>1, <1>3
  <2>2. ASSUME NEW c \in T PROVE \E k \in 1 .. Len(u) : u[k] = c
    <3>1. PICK k \in 1 .. Len(t) : t[k] = c
      BY DEF Lists
    <3> QED
      BY <3>1, <1>3
  <2> QED
    BY <2>1, <2>2
<1>6. /\ \A k \in 1 .. Len(s) : Order(a, s[k]) \in Int /\ lo <= Order(a, s[k]) /\ Order(a, s[k]) < mid
      /\ \A k \in 1 .. Len(t) : Order(a, t[k]) \in Int /\ mid <= Order(a, t[k]) /\ Order(a, t[k]) < hi
  BY <1>1, OrderType DEF Lists
<1>7. \A k \in 1 .. Len(u) : lo <= Order(a, u[k]) /\ Order(a, u[k]) < hi
  <2> SUFFICES ASSUME NEW k \in 1 .. Len(u)
               PROVE  lo <= Order(a, u[k]) /\ Order(a, u[k]) < hi
    OBVIOUS
  <2>1. CASE k \in 1 .. Len(s)
    BY <2>1, <1>3, <1>6
  <2>2. CASE k - Len(s) \in 1 .. Len(t) /\ u[k] = t[k - Len(s)]
    BY <2>2, <1>6
  <2> QED
    BY <1>3, <2>1, <2>2
<1>8. ASSUME NEW k \in 1 .. Len(u), NEW l \in 1 .. Len(u), k < l
      PROVE  Order(a, u[k]) < Order(a, u[l])
  <2>1. CASE k \in 1 .. Len(s) /\ l \in 1 .. Len(s)
    BY <1>8, <2>1, <1>3 DEF Lists
  <2>2. CASE k \in 1 .. Len(s) /\ l - Len(s) \in 1 .. Len(t) /\ u[l] = t[l - Len(s)]
    <3>1. Order(a, u[k]) < mid /\ Order(a, u[k]) \in Int
      BY <2>2, <1>3, <1>6
    <3>2. mid <= Order(a, u[l]) /\ Order(a, u[l]) \in Int
      BY <2>2, <1>6
    <3> QED
      BY <3>1, <3>2
  <2>3. CASE /\ k - Len(s) \in 1 .. Len(t) /\ u[k] = t[k - Len(s)]
             /\ l - Len(s) \in 1 .. Len(t) /\ u[l] = t[l - Len(s)]
    <3>1. k - Len(s) < l - Len(s)
      BY <1>8, <1>3
    <3> QED
      BY <2>3, <3>1 DEF Lists
  <2>4. CASE l \in 1 .. Len(s) /\ k - Len(s) \in 1 .. Len(t)
    BY <1>8, <2>4, <1>3
  <2> QED
    BY <1>3, <2>1, <2>2, <2>3, <2>4
<1>9. Lists(a, u, S \union T, lo, hi)
  BY <1>3, <1>4, <1>5, <1>7, <1>8 DEF Lists
<1> QED
  BY <1>2, <1>9

\* Wider limits.
LEMMA ListsWithin ==
    ASSUME NEW a, NEW s, NEW S, NEW lo \in Int, NEW hi \in Int, NEW low \in Int, NEW high \in Int,
           Lists(a, s, S, lo, hi), low <= lo, hi <= high
    PROVE  Lists(a, s, S, low, high)
<1>1. \A k \in 1 .. Len(s) : Order(a, s[k]) \in Int
  BY OrderType DEF Lists
<1> QED
  BY <1>1 DEF Lists

\* A part that only some ranks have.
LEMMA ListsIf ==
    ASSUME NEW a, NEW c \in BOOLEAN, NEW s, NEW S, NEW lo, NEW hi, c => Lists(a, s, S, lo, hi)
    PROVE  Lists(a, If(c, s), IF c THEN S ELSE {}, lo, hi)
<1>1. CASE c
  BY <1>1 DEF If
<1>2. CASE ~c
  BY <1>2, ListsNone DEF If
<1> QED
  BY <1>1, <1>2

\* A loop of the root.
LEMMA ListsInTurn ==
    ASSUME NEW a, NEW body, NEW T, NEW lo \in Int, DOMAIN body = Others,
           \A k \in Others : Lists(a, body[k], T[k], lo + 6 * k, lo + 6 * k + 6)
    PROVE  Lists(a, InTurn(body), UNION {T[k] : k \in Others}, lo, lo + Width)
<1> DEFINE it == CHOOSE it : OneByOne(it, body)
           From(n) == {k \in Others : k >= n}
           Listed(n) == Lists(a, it[From(n)], UNION {T[k] : k \in From(n)}, lo + 6 * n, lo + Width)
           Q == {j \in Nat : j < numproc => Listed(numproc - j)}
<1>1. OneByOne(it, body)
  BY InTurnDefined
<1> HIDE DEF it
<1>2. /\ it[{}] = << >>
      /\ \A s \in SUBSET Others : s # {} => it[s] = body[Min(s)] \o it[s \ {Min(s)}]
  BY <1>1 DEF OneByOne
<1>3. 0 \in Q
  <2>1. From(numproc - 0) = {}
    BY numprocAssumption DEF Others
  <2>2. UNION {T[k] : k \in From(numproc - 0)} = {}
    BY <2>1
  <2>4. Lists(a, it[{}], {}, lo + 6 * (numproc - 0), lo + Width)
    BY <1>2, ListsNone
  <2>3. Listed(numproc - 0)
    BY ONLY <2>1, <2>2, <2>4
  <2> QED
    BY <2>3
<1>4. ASSUME NEW j \in Nat, j \in Q
      PROVE  j + 1 \in Q
  <2> DEFINE n == numproc - (j + 1)
  <2> SUFFICES ASSUME j + 1 < numproc
               PROVE  Listed(n)
    BY <1>4
  <2>1. n \in Others /\ numproc - j = n + 1 /\ n \in Nat
    BY numprocAssumption DEF Others
  <2>a. Listed(numproc - j)
    BY <1>4, numprocAssumption
  <2> HIDE DEF n
  <2>2. Listed(n + 1)
    <3> HIDE DEF Listed
    <3> QED
      BY <2>a, <2>1
  <2>3. From(n) \in SUBSET Others /\ From(n) # {} /\ From(n) \in SUBSET Nat /\ n \in From(n)
    BY <2>1 DEF Others
  <2>4. Min(From(n)) = n
    <3>1. Min(From(n)) \in From(n) /\ \A x \in From(n) : Min(From(n)) <= x
      BY <2>3, LeastNatural
    <3>2. Min(From(n)) <= n /\ Min(From(n)) >= n /\ Min(From(n)) \in Nat
      BY <3>1, <2>3
    <3> QED
      BY <3>2, <2>1
  <2>5. From(n) \ {n} = From(n + 1)
    BY <2>1 DEF Others
  <2>6. it[From(n)] = body[n] \o it[From(n + 1)]
    BY <1>2, <2>3, <2>4, <2>5
  <2>7. UNION {T[k] : k \in From(n)} = T[n] \union UNION {T[k] : k \in From(n + 1)}
    <3>1. From(n) = {n} \union From(n + 1)
      BY <2>3, <2>5
    <3> QED
      BY <3>1
  <2>8. Lists(a, body[n], T[n], lo + 6 * n, lo + 6 * (n + 1))
    <3>1. lo + 6 * n + 6 = lo + 6 * (n + 1)
      BY <2>1
    <3> QED
      BY <2>1, <3>1
  <2>9. PICK p \in Int, m \in Int, h \in Int : p = lo + 6 * n /\ m = lo + 6 * (n + 1) /\ h = lo + Width /\ p <= m /\ m <= h
    <3>1. n \in Nat /\ n + 1 <= numproc /\ numproc \in Nat
      BY <2>1, numprocAssumption DEF Others
    <3> QED
      BY <3>1 DEF Width
  <2>10. PICK b, t, B, S : b = body[n] /\ t = it[From(n + 1)] /\ B = T[n] /\ S = UNION {T[k] : k \in From(n + 1)}
    OBVIOUS
  <2>11. Lists(a, b, B, p, m) /\ Lists(a, t, S, m, h)
    BY <2>2, <2>8, <2>9, <2>10
  <2>12. Lists(a, b \o t, B \union S, p, h)
    BY <2>9, <2>11, ListsThen
  <2> QED
    BY <2>6, <2>7, <2>9, <2>10, <2>12
<1>5. Nat \subseteq Q
  <2> HIDE DEF Q
  <2> QED
    BY <1>3, <1>4, Induction
<1>6. Listed(1)
  <2>1. numproc - 1 \in Nat /\ numproc - 1 < numproc /\ numproc - (numproc - 1) = 1
    BY numprocAssumption
  <2>2. Listed(numproc - (numproc - 1))
    BY <1>5, <2>1
  <2> HIDE DEF Listed
  <2> QED
    BY <2>1, <2>2
<1>7. From(1) = Others
  BY DEF Others
<1>8. Lists(a, it[Others], UNION {T[k] : k \in Others}, lo + 6 * 1, lo + Width)
  BY <1>6, <1>7
<1>9. InTurn(body) = it[Others]
  BY InTurnFold DEF it
<1>10. PICK l \in Int, h \in Int : l = lo + 6 * 1 /\ h = lo + Width
  BY RankFacts
<1>11. Lists(a, it[Others], UNION {T[k] : k \in Others}, lo, h)
  <2>1. Lists(a, it[Others], UNION {T[k] : k \in Others}, l, h) /\ lo <= l /\ h <= h
    BY <1>8, <1>10
  <2> QED
    BY <2>1, ListsWithin
<1> QED
  BY <1>9, <1>10, <1>11

----------------------------------------------------------------------------
(* The program of a rank lists its calls in their order.  *)

\* The records of the calls.
LEMMA CallFacts ==
    ASSUME NEW a, NEW s \in Rank, NEW d \in Rank, NEW b \in SendBufs
    PROVE  /\ Posting(a, s, d, b) \in Calls /\ Posted(d, b) \in Calls
           /\ Awaiting(a, s, b) \in Calls /\ Received(s, b) \in Calls
           /\ Isend(d, Tag(a, s, b), b) = <<Posting(a, s, d, b)>>
           /\ WaitSend(d, b) = <<Posted(d, b)>>
           /\ Irecv(s, Tag(a, s, b), Into(b)) = <<Awaiting(a, s, b)>>
           /\ WaitRecv(s, Into(b)) = <<Received(s, b)>>
<1>1. Tag(a, s, b) \in Int /\ Into(b) \in RecvBufs
  BY TagFacts, IntoFacts
<1>2. /\ Isend(d, Tag(a, s, b), b) = <<Posting(a, s, d, b)>>
      /\ WaitSend(d, b) = <<Posted(d, b)>>
      /\ Irecv(s, Tag(a, s, b), Into(b)) = <<Awaiting(a, s, b)>>
      /\ WaitRecv(s, Into(b)) = <<Received(s, b)>>
  BY DEF Isend, WaitSend, Irecv, WaitRecv, Make, Posting, Posted, Awaiting, Received, CallOf
<1>3. Posting(a, s, d, b) \in Calls /\ Posted(d, b) \in Calls
  BY <1>1 DEF Posting, Posted, CallOf, Calls, CallNames
<1>4. Awaiting(a, s, b) \in Calls /\ Received(s, b) \in Calls
  BY <1>1 DEF Awaiting, Received, CallOf, Calls, CallNames
<1> QED
  BY <1>2, <1>3, <1>4

OwnNames == {"ghosts", "yc", "dyc", "copy", "test", "print", "free", "finalize"}

\* A call of a rank's own is one call.
LEMMA OwnFacts ==
    ASSUME NEW what \in OwnNames
    PROVE  Own(what) \in Calls /\ Local(what) = <<Own(what)>>
<1>1. "time" \in SendBufs /\ Root \in Rank
  BY Buffers, RankFacts
<1> QED
  BY <1>1 DEF Own, CallOf, Calls, CallNames, Local, Make, OwnNames

\* One call.
LEMMA OwnLists ==
    ASSUME NEW a, NEW what \in OwnNames, NEW lo \in Int, NEW hi \in Int,
           lo <= Order(a, Own(what)), Order(a, Own(what)) < hi
    PROVE  Lists(a, Local(what), {Own(what)}, lo, hi)
  BY OwnFacts, ListsOne

\* MPI_Isend.
LEMMA PostLists ==
    ASSUME NEW a, NEW s \in Rank, NEW d \in Rank, NEW b \in SendBufs, NEW lo \in Int, NEW hi \in Int,
           lo <= Order(a, Posting(a, s, d, b)), Order(a, Posting(a, s, d, b)) < hi
    PROVE  Lists(a, Isend(d, Tag(a, s, b), b), {Posting(a, s, d, b)}, lo, hi)
  BY CallFacts, ListsOne

\* MPI_Irecv.
LEMMA AwaitLists ==
    ASSUME NEW a, NEW s \in Rank, NEW b \in SendBufs, NEW lo \in Int, NEW hi \in Int,
           lo <= Order(a, Awaiting(a, s, b)), Order(a, Awaiting(a, s, b)) < hi
    PROVE  Lists(a, Irecv(s, Tag(a, s, b), Into(b)), {Awaiting(a, s, b)}, lo, hi)
  BY CallFacts, ListsOne

\* The wait for a send.
LEMMA PostedLists ==
    ASSUME NEW a, NEW d \in Rank, NEW b \in SendBufs, NEW lo \in Int, NEW hi \in Int,
           lo <= Order(a, Posted(d, b)), Order(a, Posted(d, b)) < hi
    PROVE  Lists(a, WaitSend(d, b), {Posted(d, b)}, lo, hi)
  BY CallFacts, ListsOne

\* The wait for a receive.
LEMMA ReceivedLists ==
    ASSUME NEW a, NEW s \in Rank, NEW b \in SendBufs, NEW lo \in Int, NEW hi \in Int,
           lo <= Order(a, Received(s, b)), Order(a, Received(s, b)) < hi
    PROVE  Lists(a, WaitRecv(s, Into(b)), {Received(s, b)}, lo, hi)
  BY CallFacts, ListsOne

\* A blocking call is a call and a wait.
LEMMA SendLists ==
    ASSUME NEW a, NEW s \in Rank, NEW d \in Rank, NEW b \in SendBufs, NEW lo \in Int, NEW hi \in Int,
           lo <= Order(a, Posting(a, s, d, b)),
           Order(a, Posting(a, s, d, b)) < Order(a, Posted(d, b)), Order(a, Posted(d, b)) < hi
    PROVE  Lists(a, Send(d, Tag(a, s, b), b), {Posting(a, s, d, b), Posted(d, b)}, lo, hi)
<1>1. PICK m \in Int : m = Order(a, Posted(d, b))
  BY CallFacts, OrderType
<1>2. Order(a, Posting(a, s, d, b)) \in Int /\ lo <= m /\ m <= hi
  BY <1>1, CallFacts, OrderType
<1>3. Lists(a, Isend(d, Tag(a, s, b), b), {Posting(a, s, d, b)}, lo, m)
  BY <1>1, PostLists
<1>4. Lists(a, WaitSend(d, b), {Posted(d, b)}, m, hi)
  BY <1>1, PostedLists
<1>5. Lists(a, Isend(d, Tag(a, s, b), b) \o WaitSend(d, b),
            {Posting(a, s, d, b)} \union {Posted(d, b)}, lo, hi)
  BY <1>2, <1>3, <1>4, ListsThen
<1>6. {Posting(a, s, d, b)} \union {Posted(d, b)} = {Posting(a, s, d, b), Posted(d, b)}
  OBVIOUS
<1> QED
  BY <1>5, <1>6 DEF Send

\* MPI_Recv.
LEMMA RecvLists ==
    ASSUME NEW a, NEW s \in Rank, NEW b \in SendBufs, NEW lo \in Int, NEW hi \in Int,
           lo <= Order(a, Awaiting(a, s, b)),
           Order(a, Awaiting(a, s, b)) < Order(a, Received(s, b)), Order(a, Received(s, b)) < hi
    PROVE  Lists(a, Recv(s, Tag(a, s, b), Into(b)), {Awaiting(a, s, b), Received(s, b)}, lo, hi)
<1>1. PICK m \in Int : m = Order(a, Received(s, b))
  BY CallFacts, OrderType
<1>2. Order(a, Awaiting(a, s, b)) \in Int /\ lo <= m /\ m <= hi
  BY <1>1, CallFacts, OrderType
<1>3. Lists(a, Irecv(s, Tag(a, s, b), Into(b)), {Awaiting(a, s, b)}, lo, m)
  BY <1>1, AwaitLists
<1>4. Lists(a, WaitRecv(s, Into(b)), {Received(s, b)}, m, hi)
  BY <1>1, ReceivedLists
<1>5. Lists(a, Irecv(s, Tag(a, s, b), Into(b)) \o WaitRecv(s, Into(b)),
            {Awaiting(a, s, b)} \union {Received(s, b)}, lo, hi)
  BY <1>2, <1>3, <1>4, ListsThen
<1>6. {Awaiting(a, s, b)} \union {Received(s, b)} = {Awaiting(a, s, b), Received(s, b)}
  OBVIOUS
<1> QED
  BY <1>5, <1>6 DEF Recv

\* Collecting an array during the computation.
CollectCalls(a, r, b) ==
    IF ~Early(a) THEN {} ELSE IF r # Root THEN {Posting(a, r, Root, b)}
    ELSE {Awaiting(a, k, b) : k \in Others}

\* The other ranks send a block each, and the root asks for all of them (lines 113-121, for xc).
LEMMA CollectLists ==
    ASSUME NEW a, NEW r \in Rank, NEW b \in Arrays, NEW tag, NEW lo \in Int,
           \A k \in Rank : tag[k] = Tag(a, k, b),
           Early(a) => lo = (IF b = "xc" THEN 1 ELSE IF b = "yc" THEN 6 ELSE 17) * Width
    PROVE  Lists(a, Collect(a, r, tag, b), CollectCalls(a, r, b), lo, lo + Width)
<1>0. b \in SendBufs /\ Into(b) = b /\ Width \in Nat /\ Width > 0 /\ Others \subseteq Rank /\ lo + Width \in Int
  BY Buffers, IntoFacts, RankFacts, numprocAssumption DEF Width
<1>1. CASE ~Early(a)
  BY <1>1, ListsNone DEF Collect, CollectCalls, If, Early
<1>2. CASE Early(a) /\ r # Root
  <2>1. Order(a, Posting(a, r, Root, b)) = lo
    BY <1>2, ArrayOrders, RankFacts
  <2>2. Lists(a, Isend(Root, Tag(a, r, b), b), {Posting(a, r, Root, b)}, lo, lo + Width)
    BY <1>0, <2>1, PostLists, RankFacts
  <2> QED
    BY <1>2, <2>2 DEF Collect, CollectCalls, If, Early
<1>3. CASE Early(a) /\ r = Root
  <2> DEFINE body == [k \in Others |-> Irecv(k, tag[k], b)]
             T == [k \in Others |-> {Awaiting(a, k, b)}]
  <2>1. ASSUME NEW k \in Others
        PROVE  Lists(a, body[k], T[k], lo + 6 * k, lo + 6 * k + 6)
    <3>1. k \in Rank /\ k \in Int
      BY <1>0 DEF Others
    <3>2. Order(a, Awaiting(a, k, b)) = lo + 6 * k
      BY <1>3, <3>1, ArrayOrders
    <3>3. PICK m \in Int : m = lo + 6 * k
      BY <3>1
    <3>4. Lists(a, Irecv(k, Tag(a, k, b), Into(b)), {Awaiting(a, k, b)}, m, m + 6)
      BY <1>0, <3>1, <3>2, <3>3, AwaitLists
    <3> QED
      BY <1>0, <3>1, <3>3, <3>4
  <2>2. DOMAIN body = Others
    OBVIOUS
  <2> HIDE DEF body
  <2>3. Lists(a, InTurn(body), UNION {T[k] : k \in Others}, lo, lo + Width)
    <3> HIDE DEF T
    <3> QED
      BY <2>1, <2>2, ListsInTurn
  <2>4. UNION {T[k] : k \in Others} = {Awaiting(a, k, b) : k \in Others}
    OBVIOUS
  <2> QED
    BY <1>3, <2>3, <2>4 DEF Collect, CollectCalls, If, Early, body
<1> QED
  BY <1>1, <1>2, <1>3

\* A part has room for two calls.
LEMMA Widths == Width \in Int /\ Width >= 6
  BY numprocAssumption DEF Width

GhostCalls(a, r) ==
    {Own("ghosts")} \union
    (IF NonBlocking(a)
     THEN (IF r # Root THEN {Awaiting(a, r - 1, "last")} ELSE {})
          \union (IF r # LastRank THEN {Awaiting(a, r + 1, "first")} ELSE {})
     ELSE {})

\* The neighbours of a rank.
LEMMA Neighbours ==
    ASSUME NEW r \in Rank
    PROVE  /\ r # Root => \E s \in Rank : s = r - 1
           /\ r # LastRank => \E s \in Rank : s = r + 1
  BY numprocAssumption DEF Rank, Root, LastRank

\* The receives of the edges (lines 127-135).
LEMMA GhostLists ==
    ASSUME NEW a, NEW r \in Rank
    PROVE  Lists(a, PostGhosts(a, r), GhostCalls(a, r), 2 * Width, 5 * Width)
<1> DEFINE left == If(r # Root, Irecv(r - 1, 123457, "left"))
           right == If(r # LastRank, Irecv(r + 1, 123456, "right"))
           L == IF r # Root THEN {Awaiting(a, r - 1, "last")} ELSE {}
           R == IF r # LastRank THEN {Awaiting(a, r + 1, "first")} ELSE {}
<1>0. Width \in Int /\ Width > 0 /\ "first" \in SendBufs /\ "last" \in SendBufs
  BY Widths, Buffers
<1>1. Lists(a, Local("ghosts"), {Own("ghosts")}, 2 * Width, 3 * Width)
  <2>1. Order(a, Own("ghosts")) = 2 * Width
    BY Orders
  <2>2. "ghosts" \in OwnNames
    BY DEF OwnNames
  <2> QED
    BY <1>0, <2>1, <2>2, OwnLists
<1>2. NonBlocking(a) => Lists(a, left, L, 3 * Width, 4 * Width)
  <2> SUFFICES ASSUME NonBlocking(a) PROVE Lists(a, left, L, 3 * Width, 4 * Width)
    OBVIOUS
  <2>1. ASSUME r # Root PROVE Lists(a, Irecv(r - 1, 123457, "left"), {Awaiting(a, r - 1, "last")}, 3 * Width, 4 * Width)
    <3>1. PICK s \in Rank : s = r - 1
      BY <2>1, Neighbours
    <3>2. Tag(a, s, "last") = 123457 /\ Into("last") = "left"
      BY IntoFacts DEF Tag
    <3>3. Order(a, Awaiting(a, s, "last")) = 3 * Width
      BY Orders
    <3>4. Lists(a, Irecv(s, Tag(a, s, "last"), Into("last")), {Awaiting(a, s, "last")}, 3 * Width, 4 * Width)
      BY <1>0, <3>3, AwaitLists
    <3> QED
      BY <3>1, <3>2, <3>4
  <2>2. CASE r # Root
    BY <2>1, <2>2 DEF If
  <2>3. CASE r = Root
    BY <2>3, ListsNone DEF If
  <2> QED
    BY <2>2, <2>3
<1>3. NonBlocking(a) => Lists(a, right, R, 4 * Width, 5 * Width)
  <2> SUFFICES ASSUME NonBlocking(a) PROVE Lists(a, right, R, 4 * Width, 5 * Width)
    OBVIOUS
  <2>1. ASSUME r # LastRank PROVE Lists(a, Irecv(r + 1, 123456, "right"), {Awaiting(a, r + 1, "first")}, 4 * Width, 5 * Width)
    <3>1. PICK s \in Rank : s = r + 1
      BY <2>1, Neighbours
    <3>2. Tag(a, s, "first") = 123456 /\ Into("first") = "right"
      BY IntoFacts DEF Tag
    <3>3. Order(a, Awaiting(a, s, "first")) = 4 * Width
      BY Orders
    <3>4. Lists(a, Irecv(s, Tag(a, s, "first"), Into("first")), {Awaiting(a, s, "first")}, 4 * Width, 5 * Width)
      BY <1>0, <3>3, AwaitLists
    <3> QED
      BY <3>1, <3>2, <3>4
  <2>2. CASE r # LastRank
    BY <2>1, <2>2 DEF If
  <2>3. CASE r = LastRank
    BY <2>3, ListsNone DEF If
  <2> QED
    BY <2>2, <2>3
<1> HIDE DEF left, right, L, R
<1>4. NonBlocking(a) => Lists(a, left \o right, L \union R, 3 * Width, 5 * Width)
  <2>1. 3 * Width \in Int /\ 4 * Width \in Int /\ 5 * Width \in Int /\ 3 * Width <= 4 * Width /\ 4 * Width <= 5 * Width
    BY <1>0
  <2> QED
    BY <1>2, <1>3, <2>1, ListsThen
<1>5. Lists(a, If(NonBlocking(a), left \o right), IF NonBlocking(a) THEN L \union R ELSE {}, 3 * Width, 5 * Width)
  <2>1. NonBlocking(a) \in BOOLEAN
    BY DEF NonBlocking
  <2> QED
    BY <1>4, <2>1, ListsIf
<1>6. Lists(a, Local("ghosts") \o If(NonBlocking(a), left \o right),
            {Own("ghosts")} \union (IF NonBlocking(a) THEN L \union R ELSE {}), 2 * Width, 5 * Width)
  <2>1. 2 * Width \in Int /\ 3 * Width \in Int /\ 5 * Width \in Int /\ 2 * Width <= 3 * Width /\ 3 * Width <= 5 * Width
    BY <1>0
  <2> QED
    BY <1>1, <1>5, <2>1, ListsThen
<1> QED
  BY <1>6 DEF PostGhosts, GhostCalls, left, right, L, R

\* The values are computed and, with non-blocking calls, sent.
YCCalls(a, r) ==
    {Own("yc")} \union CollectCalls(a, r, "yc")
    \union (IF Early(a) /\ r # Root THEN {Posted(Root, "yc")} ELSE {})

\* The values and their block (lines 137-152).
LEMMA YCLists ==
    ASSUME NEW a, NEW r \in Rank
    PROVE  Lists(a, StartYC(a, r), YCCalls(a, r), 5 * Width, 8 * Width)
<1> DEFINE tag == [k \in Rank |-> YC_TAG * k]
           E == IF Early(a) /\ r # Root THEN {Posted(Root, "yc")} ELSE {}
           w == If(Early(a) /\ r # Root, WaitSend(Root, "yc"))
           c == Collect(a, r, tag, "yc")
<1>0. /\ Width \in Int /\ Width >= 6 /\ "yc" \in SendBufs /\ Root \in Rank
      /\ 5 * Width \in Int /\ 6 * Width \in Int /\ 7 * Width \in Int /\ 8 * Width \in Int
      /\ 6 * Width + Width = 7 * Width
      /\ 5 * Width <= 6 * Width /\ 6 * Width <= 7 * Width /\ 7 * Width <= 8 * Width
      /\ 5 * Width <= 7 * Width /\ 5 * Width < 6 * Width /\ 7 * Width <= 7 * Width + 1
      /\ 7 * Width + 1 < 8 * Width
  BY Widths, Buffers, RankFacts DEF Arrays
<1>1. Lists(a, Local("yc"), {Own("yc")}, 5 * Width, 6 * Width)
  <2>1. Order(a, Own("yc")) = 5 * Width
    BY <1>0, Orders
  <2>2. "yc" \in OwnNames
    BY DEF OwnNames
  <2> QED
    BY <1>0, <2>1, <2>2, OwnLists
<1>2. Lists(a, c, CollectCalls(a, r, "yc"), 6 * Width, 7 * Width)
  <2>2. CASE Early(a)
    <3>1. PICK lo \in Int : lo = 6 * Width
      BY <1>0
    <3>2. \A k \in Rank : tag[k] = Tag(a, k, "yc")
      BY <2>2 DEF Tag
    <3> HIDE DEF tag
    <3>3. "yc" \in Arrays /\ Early(a) /\ lo = (IF "yc" = "xc" THEN 1 ELSE IF "yc" = "yc" THEN 6 ELSE 17) * Width
      BY <2>2, <3>1 DEF Arrays
    <3>4. Lists(a, Collect(a, r, tag, "yc"), CollectCalls(a, r, "yc"), lo, lo + Width)
      BY <3>2, <3>3, CollectLists
    <3> QED
      BY <1>0, <3>1, <3>4
  <2>3. CASE ~Early(a)
    BY <2>3, ListsNone DEF Collect, CollectCalls, If, Early
  <2> QED
    BY <2>2, <2>3
<1>3. Lists(a, w, E, 7 * Width, 8 * Width)
  <2>1. ASSUME Early(a) PROVE Order(a, Posted(Root, "yc")) = 7 * Width + 1
    <3>1. "yc" \in Arrays /\ Root = 0
      BY DEF Arrays, Root
    <3>2. Order(a, Posted(Root, "yc")) = 7 * Width + 6 * Root + 1
      BY <1>0, <2>1, <3>1, ArrayOrders
    <3> QED
      BY <1>0, <3>1, <3>2
  <2>2. ASSUME Early(a) PROVE Lists(a, WaitSend(Root, "yc"), {Posted(Root, "yc")}, 7 * Width, 8 * Width)
    BY <2>1, <2>2, <1>0, PostedLists
  <2>3. (Early(a) /\ r # Root) \in BOOLEAN /\ (Early(a) /\ r # Root => Lists(a, WaitSend(Root, "yc"), {Posted(Root, "yc")}, 7 * Width, 8 * Width))
    BY <2>2
  <2> QED
    BY <2>3, ListsIf
<1> HIDE DEF c, w, E
<1>4. Lists(a, Local("yc") \o c, {Own("yc")} \union CollectCalls(a, r, "yc"), 5 * Width, 7 * Width)
  BY <1>0, <1>1, <1>2, ListsThen
<1>5. Lists(a, (Local("yc") \o c) \o w, ({Own("yc")} \union CollectCalls(a, r, "yc")) \union E, 5 * Width, 8 * Width)
  BY <1>0, <1>3, <1>4, ListsThen
<1> QED
  BY <1>5 DEF StartYC, YCCalls, c, w, E, Early

\* The exchange of edges with a neighbour s to the left, or to the right.
BlockingLeft(a, r, s) ==
    {Posting(a, r, s, "first"), Posted(s, "first")} \union {Awaiting(a, s, "last"), Received(s, "last")}
BlockingRight(a, r, s) ==
    {Posting(a, r, s, "last"), Posted(s, "last")} \union {Awaiting(a, s, "first"), Received(s, "first")}

\* The exchange with a neighbour, each call ended before the next (lines 156-169).
LEMMA BlockingEdge ==
    ASSUME NEW a, NEW r \in Rank, NEW s \in Rank, ~NonBlocking(a)
    PROVE  /\ Lists(a, Send(s, 123, "first") \o Recv(s, 123, "left"), BlockingLeft(a, r, s), 8 * Width, 12 * Width)
           /\ Lists(a, Send(s, 123, "last") \o Recv(s, 123, "right"), BlockingRight(a, r, s), 12 * Width, 16 * Width)
<1>0. /\ Width \in Int /\ Width >= 6 /\ "first" \in SendBufs /\ "last" \in SendBufs
      /\ 8 * Width \in Int /\ 10 * Width \in Int /\ 12 * Width \in Int /\ 14 * Width \in Int /\ 16 * Width \in Int
      /\ 8 * Width <= 10 * Width /\ 10 * Width <= 12 * Width /\ 12 * Width <= 14 * Width /\ 14 * Width <= 16 * Width
      /\ 8 * Width < 9 * Width /\ 9 * Width < 10 * Width /\ 10 * Width < 11 * Width /\ 11 * Width < 12 * Width
      /\ 12 * Width < 13 * Width /\ 13 * Width < 14 * Width /\ 14 * Width < 15 * Width /\ 15 * Width < 16 * Width
  BY Widths, Buffers
<1>1. /\ Tag(a, r, "first") = 123 /\ Tag(a, r, "last") = 123 /\ Tag(a, s, "first") = 123 /\ Tag(a, s, "last") = 123
      /\ Into("last") = "left" /\ Into("first") = "right"
  BY IntoFacts DEF Tag
<1>2. /\ Order(a, Posting(a, r, s, "first")) = 8 * Width
      /\ Order(a, Posted(s, "first")) = 9 * Width
      /\ Order(a, Awaiting(a, s, "last")) = 10 * Width
      /\ Order(a, Received(s, "last")) = 11 * Width
      /\ Order(a, Posting(a, r, s, "last")) = 12 * Width
      /\ Order(a, Posted(s, "last")) = 13 * Width
      /\ Order(a, Awaiting(a, s, "first")) = 14 * Width
      /\ Order(a, Received(s, "first")) = 15 * Width
  BY Orders
<1>3. Lists(a, Send(s, Tag(a, r, "first"), "first"), {Posting(a, r, s, "first"), Posted(s, "first")}, 8 * Width, 10 * Width)
  BY <1>0, <1>2, SendLists
<1>4. Lists(a, Recv(s, Tag(a, s, "last"), Into("last")), {Awaiting(a, s, "last"), Received(s, "last")}, 10 * Width, 12 * Width)
  BY <1>0, <1>2, RecvLists
<1>5. Lists(a, Send(s, Tag(a, r, "last"), "last"), {Posting(a, r, s, "last"), Posted(s, "last")}, 12 * Width, 14 * Width)
  BY <1>0, <1>2, SendLists
<1>6. Lists(a, Recv(s, Tag(a, s, "first"), Into("first")), {Awaiting(a, s, "first"), Received(s, "first")}, 14 * Width, 16 * Width)
  BY <1>0, <1>2, RecvLists
<1>7. Lists(a, Send(s, Tag(a, r, "first"), "first") \o Recv(s, Tag(a, s, "last"), Into("last")), BlockingLeft(a, r, s), 8 * Width, 12 * Width)
  BY <1>0, <1>3, <1>4, ListsThen DEF BlockingLeft
<1>8. Lists(a, Send(s, Tag(a, r, "last"), "last") \o Recv(s, Tag(a, s, "first"), Into("first")), BlockingRight(a, r, s), 12 * Width, 16 * Width)
  BY <1>0, <1>5, <1>6, ListsThen DEF BlockingRight
<1> QED
  BY <1>1, <1>7, <1>8

Just(c) == {c}

\* The exchange with a neighbour, whose receives were posted before (lines 170-189).
LEMMA NonBlockingEdge ==
    ASSUME NEW a, NEW r \in Rank, NEW s \in Rank, NonBlocking(a)
    PROVE  /\ Lists(a, Isend(s, 123456, "first"), Just(Posting(a, r, s, "first")), 8 * Width, 9 * Width)
           /\ Lists(a, Isend(s, 123457, "last"), Just(Posting(a, r, s, "last")), 9 * Width, 10 * Width)
           /\ Lists(a, WaitRecv(s, "left"), Just(Received(s, "last")), 10 * Width, 12 * Width)
           /\ Lists(a, WaitRecv(s, "right"), Just(Received(s, "first")), 12 * Width, 16 * Width)
<1>0. /\ Width \in Int /\ Width >= 6 /\ "first" \in SendBufs /\ "last" \in SendBufs
      /\ 8 * Width \in Int /\ 9 * Width \in Int /\ 10 * Width \in Int /\ 12 * Width \in Int /\ 16 * Width \in Int
      /\ 8 * Width < 9 * Width /\ 9 * Width < 10 * Width /\ 10 * Width < 11 * Width /\ 11 * Width < 12 * Width
      /\ 12 * Width < 15 * Width /\ 15 * Width < 16 * Width
      /\ 10 * Width <= 11 * Width /\ 12 * Width <= 15 * Width
      /\ 8 * Width <= 8 * Width /\ 9 * Width <= 9 * Width
  BY Widths, Buffers
<1>1. /\ Tag(a, r, "first") = 123456 /\ Tag(a, r, "last") = 123457
      /\ Into("last") = "left" /\ Into("first") = "right"
  BY IntoFacts DEF Tag
<1>2. /\ Order(a, Posting(a, r, s, "first")) = 8 * Width
      /\ Order(a, Received(s, "last")) = 11 * Width
      /\ Order(a, Posting(a, r, s, "last")) = 9 * Width
      /\ Order(a, Received(s, "first")) = 15 * Width
  BY Orders
<1>3. Lists(a, Isend(s, Tag(a, r, "first"), "first"), {Posting(a, r, s, "first")}, 8 * Width, 9 * Width)
  BY <1>0, <1>2, PostLists
<1>4. Lists(a, Isend(s, Tag(a, r, "last"), "last"), {Posting(a, r, s, "last")}, 9 * Width, 10 * Width)
  BY <1>0, <1>2, PostLists
<1>5. Lists(a, WaitRecv(s, Into("last")), {Received(s, "last")}, 10 * Width, 12 * Width)
  BY <1>0, <1>2, ReceivedLists
<1>6. Lists(a, WaitRecv(s, Into("first")), {Received(s, "first")}, 12 * Width, 16 * Width)
  BY <1>0, <1>2, ReceivedLists
<1> QED
  BY <1>1, <1>3, <1>4, <1>5, <1>6 DEF Just

EdgeCalls(a, r) ==
    IF NonBlocking(a)
    THEN (((IF r # Root THEN {Posting(a, r, r - 1, "first")} ELSE {})
           \union (IF r # LastRank THEN {Posting(a, r, r + 1, "last")} ELSE {}))
          \union (IF r # Root THEN {Received(r - 1, "last")} ELSE {}))
         \union (IF r # LastRank THEN {Received(r + 1, "first")} ELSE {})
    ELSE (IF r # Root THEN BlockingLeft(a, r, r - 1) ELSE {})
         \union (IF r # LastRank THEN BlockingRight(a, r, r + 1) ELSE {})

\* The exchange of edges (lines 156-189).
LEMMA EdgeLists ==
    ASSUME NEW a, NEW r \in Rank
    PROVE  Lists(a, Edges(a, r), EdgeCalls(a, r), 8 * Width, 16 * Width)
<1>0. /\ Width \in Int /\ Width >= 6
      /\ 8 * Width \in Int /\ 9 * Width \in Int /\ 10 * Width \in Int /\ 12 * Width \in Int /\ 16 * Width \in Int
      /\ 8 * Width <= 9 * Width /\ 9 * Width <= 10 * Width /\ 10 * Width <= 12 * Width
      /\ 12 * Width <= 16 * Width /\ 8 * Width <= 10 * Width /\ 8 * Width <= 12 * Width
  BY Widths
<1>1. CASE ~NonBlocking(a)
  <2> DEFINE left == If(r # Root, Send(r - 1, 123, "first") \o Recv(r - 1, 123, "left"))
             right == If(r # LastRank, Send(r + 1, 123, "last") \o Recv(r + 1, 123, "right"))
             L == IF r # Root THEN BlockingLeft(a, r, r - 1) ELSE {}
             R == IF r # LastRank THEN BlockingRight(a, r, r + 1) ELSE {}
  <2>1. Lists(a, left, L, 8 * Width, 12 * Width)
    <3>1. CASE r # Root
      <4>1. PICK s \in Rank : s = r - 1
        BY <3>1, Neighbours
      <4>2. Lists(a, Send(s, 123, "first") \o Recv(s, 123, "left"), BlockingLeft(a, r, s), 8 * Width, 12 * Width)
        BY <1>1, BlockingEdge
      <4> QED
        BY <3>1, <4>1, <4>2 DEF If
    <3>2. CASE r = Root
      BY <3>2, ListsNone DEF If
    <3> QED
      BY <3>1, <3>2
  <2>2. Lists(a, right, R, 12 * Width, 16 * Width)
    <3>1. CASE r # LastRank
      <4>1. PICK s \in Rank : s = r + 1
        BY <3>1, Neighbours
      <4>2. Lists(a, Send(s, 123, "last") \o Recv(s, 123, "right"), BlockingRight(a, r, s), 12 * Width, 16 * Width)
        BY <1>1, BlockingEdge
      <4> QED
        BY <3>1, <4>1, <4>2 DEF If
    <3>2. CASE r = LastRank
      BY <3>2, ListsNone DEF If
    <3> QED
      BY <3>1, <3>2
  <2> HIDE DEF left, right, L, R
  <2>3. Lists(a, left \o right, L \union R, 8 * Width, 16 * Width)
    BY <1>0, <2>1, <2>2, ListsThen
  <2> QED
    BY <1>1, <2>3 DEF Edges, BlockingEdges, EdgeCalls, left, right, L, R
<1>2. CASE NonBlocking(a)
  <2> DEFINE first == If(r # Root, Isend(r - 1, 123456, "first"))
             last == If(r # LastRank, Isend(r + 1, 123457, "last"))
             left == If(r # Root, WaitRecv(r - 1, "left"))
             right == If(r # LastRank, WaitRecv(r + 1, "right"))
             F == IF r # Root THEN {Posting(a, r, r - 1, "first")} ELSE {}
             E == IF r # LastRank THEN {Posting(a, r, r + 1, "last")} ELSE {}
             L == IF r # Root THEN {Received(r - 1, "last")} ELSE {}
             R == IF r # LastRank THEN {Received(r + 1, "first")} ELSE {}
  <2>1. Lists(a, first, F, 8 * Width, 9 * Width) /\ Lists(a, left, L, 10 * Width, 12 * Width)
    <3>1. CASE r # Root
      <4>1. PICK s \in Rank : s = r - 1
        BY <3>1, Neighbours
      <4>2. Lists(a, Isend(s, 123456, "first"), Just(Posting(a, r, s, "first")), 8 * Width, 9 * Width)
        BY <1>2, NonBlockingEdge
      <4>3. Lists(a, WaitRecv(s, "left"), Just(Received(s, "last")), 10 * Width, 12 * Width)
        BY <1>2, NonBlockingEdge
      <4> QED
        BY <3>1, <4>1, <4>2, <4>3 DEF If, Just
    <3>2. CASE r = Root
      BY <3>2, ListsNone DEF If
    <3> QED
      BY <3>1, <3>2
  <2>2. Lists(a, last, E, 9 * Width, 10 * Width) /\ Lists(a, right, R, 12 * Width, 16 * Width)
    <3>1. CASE r # LastRank
      <4>1. PICK s \in Rank : s = r + 1
        BY <3>1, Neighbours
      <4>2. Lists(a, Isend(s, 123457, "last"), Just(Posting(a, r, s, "last")), 9 * Width, 10 * Width)
        BY <1>2, NonBlockingEdge
      <4>3. Lists(a, WaitRecv(s, "right"), Just(Received(s, "first")), 12 * Width, 16 * Width)
        BY <1>2, NonBlockingEdge
      <4> QED
        BY <3>1, <4>1, <4>2, <4>3 DEF If, Just
    <3>2. CASE r = LastRank
      BY <3>2, ListsNone DEF If
    <3> QED
      BY <3>1, <3>2
  <2> HIDE DEF first, last, left, right, F, E, L, R
  <2>3. Lists(a, first \o last, F \union E, 8 * Width, 10 * Width)
    BY <1>0, <2>1, <2>2, ListsThen
  <2>4. Lists(a, (first \o last) \o left, (F \union E) \union L, 8 * Width, 12 * Width)
    BY <1>0, <2>1, <2>3, ListsThen
  <2>5. Lists(a, ((first \o last) \o left) \o right, ((F \union E) \union L) \union R, 8 * Width, 16 * Width)
    BY <1>0, <2>2, <2>4, ListsThen
  <2> QED
    BY <1>2, <2>5 DEF Edges, NonBlockingEdges, EdgeCalls, first, last, left, right, F, E, L, R
<1> QED
  BY <1>1, <1>2

DYCCalls(a, r) == {Own("dyc")} \union CollectCalls(a, r, "dyc")

\* The derivative and its block (lines 191-202).
LEMMA DYCLists ==
    ASSUME NEW a, NEW r \in Rank
    PROVE  Lists(a, StartDYC(a, r), DYCCalls(a, r), 16 * Width, 18 * Width)
<1> DEFINE tag == [k \in Rank |-> 5678]
           c == Collect(a, r, tag, "dyc")
<1>0. /\ Width \in Int /\ Width >= 6
      /\ 16 * Width \in Int /\ 17 * Width \in Int /\ 18 * Width \in Int
      /\ 17 * Width + Width = 18 * Width
      /\ 16 * Width < 17 * Width /\ 16 * Width <= 17 * Width /\ 17 * Width <= 18 * Width
  BY Widths
<1>1. Lists(a, Local("dyc"), {Own("dyc")}, 16 * Width, 17 * Width)
  <2>1. Order(a, Own("dyc")) = 16 * Width
    BY <1>0, Orders
  <2>2. "dyc" \in OwnNames
    BY DEF OwnNames
  <2> QED
    BY <1>0, <2>1, <2>2, OwnLists
<1>2. Lists(a, c, CollectCalls(a, r, "dyc"), 17 * Width, 18 * Width)
  <2>2. CASE Early(a)
    <3>1. PICK lo \in Int : lo = 17 * Width
      BY <1>0
    <3>2. \A k \in Rank : tag[k] = Tag(a, k, "dyc")
      BY <2>2 DEF Tag
    <3> HIDE DEF tag
    <3>3. "dyc" \in Arrays /\ Early(a) /\ lo = (IF "dyc" = "xc" THEN 1 ELSE IF "dyc" = "yc" THEN 6 ELSE 17) * Width
      BY <2>2, <3>1 DEF Arrays
    <3>4. Lists(a, Collect(a, r, tag, "dyc"), CollectCalls(a, r, "dyc"), lo, lo + Width)
      BY <3>2, <3>3, CollectLists
    <3> QED
      BY <1>0, <3>1, <3>4
  <2>3. CASE ~Early(a)
    BY <2>3, ListsNone DEF Collect, CollectCalls, If, Early
  <2> QED
    BY <2>2, <2>3
<1> HIDE DEF c
<1>3. Lists(a, Local("dyc") \o c, {Own("dyc")} \union CollectCalls(a, r, "dyc"), 16 * Width, 18 * Width)
  BY <1>0, <1>1, <1>2, ListsThen
<1> QED
  BY <1>3 DEF StartDYC, DYCCalls, c

XCCalls(a, r) == CollectCalls(a, r, "xc")

\* The block of grid points (lines 113-121).
LEMMA XCLists ==
    ASSUME NEW a, NEW r \in Rank
    PROVE  Lists(a, StartXC(a, r), XCCalls(a, r), Width, 2 * Width)
<1> DEFINE tag == [k \in Rank |-> XC_TAG * k]
<1>0. Width \in Int /\ Width + Width = 2 * Width
  BY Widths
<1>1. CASE Early(a)
  <2>1. PICK lo \in Int : lo = 1 * Width
    BY <1>0
  <2>2. \A k \in Rank : tag[k] = Tag(a, k, "xc")
    BY <1>1 DEF Tag
  <2> HIDE DEF tag
  <2>3. "xc" \in Arrays /\ Early(a) /\ lo = (IF "xc" = "xc" THEN 1 ELSE IF "xc" = "yc" THEN 6 ELSE 17) * Width
    BY <1>1, <2>1 DEF Arrays
  <2>4. Lists(a, Collect(a, r, tag, "xc"), CollectCalls(a, r, "xc"), lo, lo + Width)
    BY <2>2, <2>3, CollectLists
  <2> QED
    BY <1>0, <2>1, <2>4 DEF StartXC, XCCalls, tag
<1>2. CASE ~Early(a)
  BY <1>2, ListsNone DEF Collect, CollectCalls, StartXC, XCCalls, If, Early
<1> QED
  BY <1>1, <1>2

\* A block sent to the root, and received there.
SendCalls(a, r, b) == {Posting(a, r, Root, b), Posted(Root, b)}
RecvCalls(a, k, b) == {Awaiting(a, k, b), Received(k, b)}

\* The positions of the calls for the blocks when they are gathered at the end.
LEMMA GatherOrders ==
    ASSUME NEW a, NEW r \in Rank, NEW b \in Arrays, ~Early(a)
    PROVE  /\ Manual(a) =>
                /\ Order(a, Posting(a, r, Root, b)) = 18 * Width + 2 * Block(b)
                /\ Order(a, Posted(Root, b)) = 18 * Width + 2 * Block(b) + 1
                /\ Order(a, Awaiting(a, r, b)) = 18 * Width + 6 * r + 2 * Block(b)
                /\ Order(a, Received(r, b)) = 18 * Width + 6 * r + 2 * Block(b) + 1
           /\ ~Manual(a) =>
                /\ Order(a, Posting(a, r, Root, b)) = (19 + Block(b)) * Width
                /\ Order(a, Posted(Root, b)) = (19 + Block(b)) * Width + 1
                /\ Order(a, Awaiting(a, r, b)) = (19 + Block(b)) * Width + 6 * r
                /\ Order(a, Received(r, b)) = (19 + Block(b)) * Width + 6 * r + 1
<1>1. Root \in Rank /\ Root = 0 /\ r \in Int /\ Width \in Int
  BY RankFacts, Widths
<1>2. Block(b) \in {0, 1, 2}
  BY DEF Block
<1>3. (19 + Block(b)) * Width \in Int
  BY <1>1, <1>2
<1>4. /\ Manual(a) =>
                /\ Order(a, Posting(a, r, Root, b)) = 18 * Width + 6 * Root + 2 * Block(b)
                /\ Order(a, Posted(Root, b)) = 18 * Width + 6 * Root + 2 * Block(b) + 1
                /\ Order(a, Awaiting(a, r, b)) = 18 * Width + 6 * r + 2 * Block(b)
                /\ Order(a, Received(r, b)) = 18 * Width + 6 * r + 2 * Block(b) + 1
      /\ ~Manual(a) =>
                /\ Order(a, Posting(a, r, Root, b)) = (19 + Block(b)) * Width + 6 * Root
                /\ Order(a, Posted(Root, b)) = (19 + Block(b)) * Width + 6 * Root + 1
                /\ Order(a, Awaiting(a, r, b)) = (19 + Block(b)) * Width + 6 * r
                /\ Order(a, Received(r, b)) = (19 + Block(b)) * Width + 6 * r + 1
  BY <1>1, ArrayOrders
<1>5. 6 * Root = 0
  BY <1>1
<1> QED
  BY <1>1, <1>2, <1>3, <1>4, <1>5

\* The three blocks of a rank, one after the other.
ThreeSends(a, r) == (SendCalls(a, r, "xc") \union SendCalls(a, r, "yc")) \union SendCalls(a, r, "dyc")
ThreeRecvs(a, k) == (RecvCalls(a, k, "xc") \union RecvCalls(a, k, "yc")) \union RecvCalls(a, k, "dyc")

\* The three blocks a rank sends the root.
LEMMA ManualSends ==
    ASSUME NEW a, NEW r \in Rank, ~Early(a), Manual(a)
    PROVE  Lists(a, (Send(Root, 123, "xc") \o Send(Root, 124, "yc")) \o Send(Root, 125, "dyc"),
                 ThreeSends(a, r), 18 * Width, 19 * Width)
<1>0. /\ Width \in Int /\ Width >= 6 /\ Root \in Rank
      /\ {"xc", "yc", "dyc"} \subseteq Arrays /\ {"xc", "yc", "dyc"} \subseteq SendBufs
  BY Widths, RankFacts, Buffers DEF Arrays
<1>1. Tag(a, r, "xc") = 123 /\ Tag(a, r, "yc") = 124 /\ Tag(a, r, "dyc") = 125
  BY DEF Tag
<1>2. Block("xc") = 0 /\ Block("yc") = 1 /\ Block("dyc") = 2
  BY DEF Block
<1>3. PICK w \in Int : w = 18 * Width
  BY <1>0
<1>4. /\ Order(a, Posting(a, r, Root, "xc")) = w /\ Order(a, Posted(Root, "xc")) = w + 1
      /\ Order(a, Posting(a, r, Root, "yc")) = w + 2 /\ Order(a, Posted(Root, "yc")) = w + 3
      /\ Order(a, Posting(a, r, Root, "dyc")) = w + 4 /\ Order(a, Posted(Root, "dyc")) = w + 5
  BY <1>0, <1>2, <1>3, GatherOrders
<1>5. Lists(a, Send(Root, Tag(a, r, "xc"), "xc"), SendCalls(a, r, "xc"), w, w + 2)
  BY <1>0, <1>4, SendLists DEF SendCalls
<1>6. Lists(a, Send(Root, Tag(a, r, "yc"), "yc"), SendCalls(a, r, "yc"), w + 2, w + 4)
  BY <1>0, <1>4, SendLists DEF SendCalls
<1>7. w + 6 <= 19 * Width /\ 19 * Width \in Int
  BY <1>0, <1>3
<1>8. Lists(a, Send(Root, Tag(a, r, "dyc"), "dyc"), SendCalls(a, r, "dyc"), w + 4, 19 * Width)
  <2>1. w + 5 < 19 * Width
    BY <1>7
  <2> QED
    BY <1>0, <1>4, <1>7, <2>1, SendLists DEF SendCalls
<1>9. Lists(a, Send(Root, Tag(a, r, "xc"), "xc") \o Send(Root, Tag(a, r, "yc"), "yc"),
            SendCalls(a, r, "xc") \union SendCalls(a, r, "yc"), w, w + 4)
  BY <1>5, <1>6, ListsThen
<1>10. Lists(a, (Send(Root, Tag(a, r, "xc"), "xc") \o Send(Root, Tag(a, r, "yc"), "yc"))
                \o Send(Root, Tag(a, r, "dyc"), "dyc"), ThreeSends(a, r), w, 19 * Width)
  <2>1. w + 4 <= 19 * Width
    BY <1>7
  <2> QED
    BY <1>7, <1>8, <1>9, <2>1, ListsThen DEF ThreeSends
<1> QED
  BY <1>1, <1>3, <1>10

\* The three blocks of a rank that the root receives in its loop over the ranks.
LEMMA ManualRecvs ==
    ASSUME NEW a, NEW k \in Rank, ~Early(a), Manual(a), NEW w \in Int, w = 18 * Width + 6 * k
    PROVE  Lists(a, (Recv(k, 123, "xc") \o Recv(k, 124, "yc")) \o Recv(k, 125, "dyc"),
                 ThreeRecvs(a, k), w, w + 6)
<1>0. /\ Width \in Int /\ Width >= 6 /\ k \in Int
      /\ {"xc", "yc", "dyc"} \subseteq Arrays /\ {"xc", "yc", "dyc"} \subseteq SendBufs
      /\ Into("xc") = "xc" /\ Into("yc") = "yc" /\ Into("dyc") = "dyc"
  BY Widths, RankFacts, Buffers DEF Arrays, Into
<1>1. Tag(a, k, "xc") = 123 /\ Tag(a, k, "yc") = 124 /\ Tag(a, k, "dyc") = 125
  BY DEF Tag
<1>2. Block("xc") = 0 /\ Block("yc") = 1 /\ Block("dyc") = 2
  BY DEF Block
<1>4. /\ Order(a, Awaiting(a, k, "xc")) = w /\ Order(a, Received(k, "xc")) = w + 1
      /\ Order(a, Awaiting(a, k, "yc")) = w + 2 /\ Order(a, Received(k, "yc")) = w + 3
      /\ Order(a, Awaiting(a, k, "dyc")) = w + 4 /\ Order(a, Received(k, "dyc")) = w + 5
  BY <1>0, <1>2, GatherOrders
<1> DEFINE v == w
<1>3. v \in Int /\ v = w
  OBVIOUS
<1> HIDE DEF v
<1>5. Lists(a, Recv(k, Tag(a, k, "xc"), Into("xc")), RecvCalls(a, k, "xc"), v, v + 2)
  BY ONLY <1>0, <1>3, <1>4, k \in Rank, RecvLists DEF RecvCalls
<1>6. Lists(a, Recv(k, Tag(a, k, "yc"), Into("yc")), RecvCalls(a, k, "yc"), v + 2, v + 4)
  BY ONLY <1>0, <1>3, <1>4, k \in Rank, RecvLists DEF RecvCalls
<1>8. Lists(a, Recv(k, Tag(a, k, "dyc"), Into("dyc")), RecvCalls(a, k, "dyc"), v + 4, v + 6)
  BY ONLY <1>0, <1>3, <1>4, k \in Rank, RecvLists DEF RecvCalls
<1>9. Lists(a, Recv(k, Tag(a, k, "xc"), Into("xc")) \o Recv(k, Tag(a, k, "yc"), Into("yc")),
            RecvCalls(a, k, "xc") \union RecvCalls(a, k, "yc"), v, v + 4)
  BY ONLY <1>3, <1>5, <1>6, ListsThen
<1>10. Lists(a, (Recv(k, Tag(a, k, "xc"), Into("xc")) \o Recv(k, Tag(a, k, "yc"), Into("yc")))
                \o Recv(k, Tag(a, k, "dyc"), Into("dyc")), ThreeRecvs(a, k), v, v + 6)
  BY ONLY <1>3, <1>8, <1>9, ListsThen DEF ThreeRecvs
<1> QED
  BY ONLY <1>0, <1>1, <1>3, <1>10

\* One array, with MPI_Gatherv.
LEMMA GathervSend ==
    ASSUME NEW a, NEW r \in Rank, NEW b \in Arrays, ~Early(a), ~Manual(a)
    PROVE  Lists(a, Send(Root, Tag(a, r, b), b), SendCalls(a, r, b),
                 (19 + Block(b)) * Width, (20 + Block(b)) * Width)
<1>0. Width \in Int /\ Width >= 6 /\ b \in SendBufs /\ Root \in Rank /\ Block(b) \in {0, 1, 2}
  BY Widths, Buffers, RankFacts DEF Block
<1>1. PICK lo \in Int : lo = (19 + Block(b)) * Width
  BY <1>0
<1>2. PICK hi \in Int : hi = (20 + Block(b)) * Width
  BY <1>0
<1>3. lo + 6 <= hi
  BY <1>0, <1>1, <1>2
<1>4. Order(a, Posting(a, r, Root, b)) = lo /\ Order(a, Posted(Root, b)) = lo + 1
  BY <1>1, GatherOrders
<1>5. Lists(a, Send(Root, Tag(a, r, b), b), SendCalls(a, r, b), lo, hi)
  BY <1>0, <1>3, <1>4, SendLists DEF SendCalls
<1> QED
  BY <1>1, <1>2, <1>5

AllRecvs(a, b) == UNION {RecvCalls(a, k, b) : k \in Others}

\* MPI_Gatherv at the root.
LEMMA GathervRecvs ==
    ASSUME NEW a, NEW b \in Arrays, ~Early(a), ~Manual(a), NEW tag, \A k \in Rank : tag = Tag(a, k, b)
    PROVE  Lists(a, InTurn([k \in Others |-> Recv(k, tag, b)]), AllRecvs(a, b),
                 (19 + Block(b)) * Width, (20 + Block(b)) * Width)
<1>0. /\ Width \in Int /\ Width >= 6 /\ b \in SendBufs /\ Block(b) \in {0, 1, 2}
      /\ Into(b) = b /\ Others \subseteq Rank
  BY Widths, Buffers, RankFacts, IntoFacts DEF Block
<1>1. PICK lo \in Int : lo = (19 + Block(b)) * Width
  BY <1>0
<1>2. lo + Width = (20 + Block(b)) * Width
  BY <1>0, <1>1
<1> DEFINE body == [k \in Others |-> Recv(k, tag, b)]
           T == [k \in Others |-> RecvCalls(a, k, b)]
<1>3. ASSUME NEW k \in Others
      PROVE  Lists(a, body[k], T[k], lo + 6 * k, lo + 6 * k + 6)
  <2>1. k \in Rank /\ k \in Int
    BY <1>0, RankFacts
  <2>2. PICK m \in Int : m = lo + 6 * k
    BY <2>1
  <2>3. Order(a, Awaiting(a, k, b)) = m /\ Order(a, Received(k, b)) = m + 1
    BY <1>1, <2>1, <2>2, GatherOrders
  <2>4. Lists(a, Recv(k, Tag(a, k, b), Into(b)), RecvCalls(a, k, b), m, m + 6)
    BY <1>0, <2>1, <2>3, RecvLists DEF RecvCalls
  <2> QED
    BY <1>0, <2>1, <2>2, <2>4
<1>4. DOMAIN body = Others
  OBVIOUS
<1>5. UNION {T[k] : k \in Others} = AllRecvs(a, b)
  BY DEF AllRecvs
<1> HIDE DEF body, T
<1>6. Lists(a, InTurn(body), UNION {T[k] : k \in Others}, lo, lo + Width)
  BY <1>3, <1>4, ListsInTurn
<1> QED
  BY <1>1, <1>2, <1>5, <1>6 DEF body

GatherCalls(a, r) ==
    IF Early(a) THEN {} ELSE IF r # Root THEN ThreeSends(a, r)
    ELSE IF Manual(a) THEN UNION {ThreeRecvs(a, k) : k \in Others}
    ELSE (AllRecvs(a, "xc") \union AllRecvs(a, "yc")) \union AllRecvs(a, "dyc")

CopyCalls(r) == IF r = Root THEN {Own("copy")} ELSE {}

\* The root copies its own block (lines 229-236).
LEMMA CopyLists ==
    ASSUME NEW a, NEW r \in Rank
    PROVE  Lists(a, If(r = Root, Local("copy")), CopyCalls(r), 22 * Width, 23 * Width)
<1>1. CASE r = Root
  <2>1. Order(a, Own("copy")) = 22 * Width /\ "copy" \in OwnNames
    BY Orders DEF OwnNames
  <2>2. 22 * Width \in Int /\ 23 * Width \in Int /\ 22 * Width <= 22 * Width /\ 22 * Width < 23 * Width
    BY Widths
  <2>3. Lists(a, Local("copy"), {Own("copy")}, 22 * Width, 23 * Width)
    BY <2>1, <2>2, OwnLists
  <2> QED
    BY <1>1, <2>3 DEF If, CopyCalls
<1>2. CASE r # Root
  BY <1>2, ListsNone DEF If, CopyCalls
<1> QED
  BY <1>1, <1>2

\* The gathering of the blocks (lines 204-237).
LEMMA GatherLists ==
    ASSUME NEW a, NEW r \in Rank
    PROVE  Lists(a, Gather(a, r), GatherCalls(a, r) \union CopyCalls(r), 18 * Width, 23 * Width)
<1> DEFINE copy == If(r = Root, Local("copy"))
           W(n) == n * Width
<1>0. /\ Width \in Int /\ Width >= 6
      /\ W(18) \in Int /\ W(19) \in Int /\ W(20) \in Int /\ W(21) \in Int /\ W(22) \in Int /\ W(23) \in Int
      /\ W(18) <= W(19) /\ W(19) <= W(20) /\ W(20) <= W(21) /\ W(21) <= W(22) /\ W(22) <= W(23)
      /\ W(18) + Width = W(19)
  BY Widths
<1>1. Lists(a, copy, CopyCalls(r), W(22), W(23))
  BY CopyLists
<1>2. CASE Early(a)
  <2>1. Lists(a, << >>, {}, W(18), W(22))
    BY ListsNone
  <2>2. BlockingGather(a, r) = << >> /\ Gather(a, r) = BlockingGather(a, r) \o copy /\ GatherCalls(a, r) = {}
    BY <1>2 DEF BlockingGather, Gather, GatherCalls, If, Early
  <2>3. W(18) <= W(22)
    BY <1>0
  <2> HIDE DEF copy, W
  <2>4. Lists(a, << >> \o copy, {} \union CopyCalls(r), W(18), W(23))
    BY <1>0, <1>1, <2>1, <2>3, ListsThen
  <2> QED
    BY <2>2, <2>4 DEF W
<1>3. CASE ~Early(a) /\ Manual(a)
  <2>1. Lists(a, BlockingGather(a, r), GatherCalls(a, r), W(18), W(19))
    <3>1. CASE r # Root
      <4>1. BlockingGather(a, r) = (Send(Root, 123, "xc") \o Send(Root, 124, "yc")) \o Send(Root, 125, "dyc")
        BY <1>3, <3>1 DEF BlockingGather, If, Early
      <4>2. GatherCalls(a, r) = ThreeSends(a, r)
        BY <1>3, <3>1 DEF GatherCalls
      <4> QED
        BY <1>3, <4>1, <4>2, ManualSends
    <3>2. CASE r = Root
      <4> DEFINE body == [k \in Others |-> (Recv(k, 123, "xc") \o Recv(k, 124, "yc")) \o Recv(k, 125, "dyc")]
                 T == [k \in Others |-> ThreeRecvs(a, k)]
      <4>1. BlockingGather(a, r) = InTurn(body)
        BY <1>3, <3>2 DEF BlockingGather, If, Early
      <4>2. GatherCalls(a, r) = UNION {T[k] : k \in Others}
        BY <1>3, <3>2 DEF GatherCalls
      <4>3. PICK lo \in Int : lo = 18 * Width
        BY <1>0
      <4>4. ASSUME NEW k \in Others
            PROVE  Lists(a, body[k], T[k], lo + 6 * k, lo + 6 * k + 6)
        <5>1. k \in Rank /\ k \in Int
          BY RankFacts
        <5>2. PICK m \in Int : m = lo + 6 * k
          BY <5>1
        <5>3. m = 18 * Width + 6 * k
          BY <4>3, <5>2
        <5>4. Lists(a, (Recv(k, 123, "xc") \o Recv(k, 124, "yc")) \o Recv(k, 125, "dyc"), ThreeRecvs(a, k), m, m + 6)
          BY <1>3, <5>1, <5>3, ManualRecvs
        <5> QED
          BY <5>2, <5>4
      <4>5. DOMAIN body = Others
        OBVIOUS
      <4> HIDE DEF body, T
      <4>6. Lists(a, InTurn(body), UNION {T[k] : k \in Others}, lo, lo + Width)
        BY <4>4, <4>5, ListsInTurn
      <4> QED
        BY <1>0, <4>1, <4>2, <4>3, <4>6
    <3> QED
      BY <3>1, <3>2
  <2>2. Gather(a, r) = BlockingGather(a, r) \o copy
    BY <1>3 DEF Gather
  <2>3. W(19) <= W(22) /\ W(18) <= W(22) /\ W(18) <= W(18)
    BY <1>0
  <2> HIDE DEF copy, W
  <2>4. Lists(a, BlockingGather(a, r), GatherCalls(a, r), W(18), W(22))
    BY <1>0, <2>1, <2>3, ListsWithin
  <2>5. Lists(a, BlockingGather(a, r) \o copy, GatherCalls(a, r) \union CopyCalls(r), W(18), W(23))
    BY <1>0, <1>1, <2>3, <2>4, ListsThen
  <2> QED
    BY <2>2, <2>5 DEF W
<1>4. CASE ~Manual(a)
  <2> DEFINE one(v, b) == IF r # Root THEN Send(Root, -v, b)
                                      ELSE InTurn([k \in Others |-> Recv(k, -v, b)])
             C(b) == IF r # Root THEN SendCalls(a, r, b) ELSE AllRecvs(a, b)
  <2>0. ~Early(a) /\ "xc" \in Arrays /\ "yc" \in Arrays /\ "dyc" \in Arrays
    BY <1>4 DEF Early, Arrays
  <2>1. Gather(a, r) = ((one(1, "xc") \o one(2, "yc")) \o one(3, "dyc")) \o copy
    BY <1>4 DEF Gather, Gatherv, Array
  <2>2. GatherCalls(a, r) = (C("xc") \union C("yc")) \union C("dyc")
    <3>1. CASE r # Root
      BY <1>4, <2>0, <3>1 DEF GatherCalls, ThreeSends
    <3>2. CASE r = Root
      BY <1>4, <2>0, <3>2 DEF GatherCalls
    <3> QED
      BY <3>1, <3>2
  <2>3. ASSUME NEW v, NEW b \in Arrays, \A k \in Rank : -v = Tag(a, k, b)
        PROVE  Lists(a, one(v, b), C(b), (19 + Block(b)) * Width, (20 + Block(b)) * Width)
    <3>1. CASE r # Root
      <4>1. Lists(a, Send(Root, Tag(a, r, b), b), SendCalls(a, r, b), (19 + Block(b)) * Width, (20 + Block(b)) * Width)
        BY <1>4, <2>0, GathervSend
      <4>2. Tag(a, r, b) = -v
        BY <2>3
      <4> QED
        BY <3>1, <4>1, <4>2
    <3>2. CASE r = Root
      <4>1. PICK tag : tag = -v
        OBVIOUS
      <4>2. \A k \in Rank : tag = Tag(a, k, b)
        BY <2>3, <4>1
      <4>3. Lists(a, InTurn([k \in Others |-> Recv(k, tag, b)]), AllRecvs(a, b), (19 + Block(b)) * Width, (20 + Block(b)) * Width)
        BY <1>4, <2>0, <4>2, GathervRecvs
      <4> QED
        BY <3>2, <4>1, <4>3
    <3> QED
      BY <3>1, <3>2
  <2>4. \A k \in Rank : -1 = Tag(a, k, "xc") /\ -2 = Tag(a, k, "yc") /\ -3 = Tag(a, k, "dyc")
    BY <1>4, <2>0 DEF Tag
  <2>5. Block("xc") = 0 /\ Block("yc") = 1 /\ Block("dyc") = 2
    BY DEF Block
  <2>6. 19 + 0 = 19 /\ 20 + 0 = 20 /\ 19 + 1 = 20 /\ 20 + 1 = 21 /\ 19 + 2 = 21 /\ 20 + 2 = 22
    OBVIOUS
  <2> HIDE DEF one, C, copy, W
  <2>7. Lists(a, one(1, "xc"), C("xc"), W(19), W(20))
    BY <2>0, <2>3, <2>4, <2>5, <2>6 DEF W
  <2>8. Lists(a, one(2, "yc"), C("yc"), W(20), W(21))
    BY <2>0, <2>3, <2>4, <2>5, <2>6 DEF W
  <2>9. Lists(a, one(3, "dyc"), C("dyc"), W(21), W(22))
    BY <2>0, <2>3, <2>4, <2>5, <2>6 DEF W
  <2>10. Lists(a, one(1, "xc") \o one(2, "yc"), C("xc") \union C("yc"), W(19), W(21))
    BY <1>0, <2>7, <2>8, ListsThen
  <2>11. W(19) <= W(21) /\ W(19) <= W(22)
    BY <1>0
  <2>12. Lists(a, (one(1, "xc") \o one(2, "yc")) \o one(3, "dyc"), (C("xc") \union C("yc")) \union C("dyc"), W(19), W(22))
    BY <1>0, <2>9, <2>10, <2>11, ListsThen
  <2>13. Lists(a, ((one(1, "xc") \o one(2, "yc")) \o one(3, "dyc")) \o copy,
               ((C("xc") \union C("yc")) \union C("dyc")) \union CopyCalls(r), W(19), W(23))
    BY <1>0, <1>1, <2>11, <2>12, ListsThen
  <2>14. W(23) <= W(23)
    BY <1>0
  <2>15. Lists(a, ((one(1, "xc") \o one(2, "yc")) \o one(3, "dyc")) \o copy,
               ((C("xc") \union C("yc")) \union C("dyc")) \union CopyCalls(r), W(18), W(23))
    BY <1>0, <2>13, <2>14, ListsWithin
  <2> QED
    BY <2>1, <2>2, <2>15 DEF W
<1>5. Early(a) => Manual(a)
  BY DEF Early
<1> QED
  BY <1>2, <1>3, <1>4, <1>5

TestCalls(a, r) == IF numproc # 1 /\ Early(a) /\ r = Root THEN {Own("test")} ELSE {}

\* The MPI_Test loop (lines 240-262).
LEMMA TestLists ==
    ASSUME NEW a, NEW r \in Rank
    PROVE  Lists(a, TestAll(a, r), TestCalls(a, r), 23 * Width, 24 * Width)
<1>1. CASE numproc # 1 /\ Early(a) /\ r = Root
  <2>1. Order(a, Own("test")) = 23 * Width /\ "test" \in OwnNames
    BY Orders DEF OwnNames
  <2>2. 23 * Width \in Int /\ 24 * Width \in Int /\ 23 * Width <= 23 * Width /\ 23 * Width < 24 * Width
    BY Widths
  <2>3. Lists(a, Local("test"), {Own("test")}, 23 * Width, 24 * Width)
    BY <2>1, <2>2, OwnLists
  <2> QED
    BY <1>1, <2>3 DEF If, TestCalls, TestAll, Early
<1>2. CASE ~(numproc # 1 /\ Early(a) /\ r = Root)
  BY <1>2, ListsNone DEF If, TestCalls, TestAll, Early
<1> QED
  BY <1>1, <1>2

ReduceCalls(a, r) ==
    IF r # Root THEN {Posting(a, r, Root, "time")} ELSE AllRecvs(a, "time")

\* MPI_Reduce (line 266).
LEMMA ReduceLists ==
    ASSUME NEW a, NEW r \in Rank
    PROVE  Lists(a, Reduce(r), ReduceCalls(a, r), 24 * Width, 25 * Width)
<1>0. /\ Width \in Int /\ Width >= 6 /\ 24 * Width \in Int /\ 25 * Width \in Int
      /\ "time" \in SendBufs /\ Root \in Rank /\ Root = 0 /\ Into("time") = "time"
      /\ 24 * Width < 25 * Width /\ 24 * Width <= 24 * Width /\ 24 * Width + Width = 25 * Width
      /\ Others \subseteq Rank
  BY Widths, Buffers, RankFacts, IntoFacts
<1>1. \A k \in Rank : Tag(a, k, "time") = -4
  BY DEF Tag
<1>2. CASE r # Root
  <2>1. Order(a, Posting(a, r, Root, "time")) = 24 * Width + 6 * Root
    BY <1>0, Orders
  <2>2. Order(a, Posting(a, r, Root, "time")) = 24 * Width
    BY <1>0, <2>1
  <2>3. Lists(a, Isend(Root, Tag(a, r, "time"), "time"), {Posting(a, r, Root, "time")}, 24 * Width, 25 * Width)
    BY <1>0, <2>2, PostLists
  <2> QED
    BY <1>1, <1>2, <2>3 DEF Reduce, ReduceCalls
<1>3. CASE r = Root
  <2> DEFINE body == [k \in Others |-> Recv(k, -4, "time")]
             T == [k \in Others |-> RecvCalls(a, k, "time")]
  <2>1. PICK lo \in Int : lo = 24 * Width
    BY <1>0
  <2>2. ASSUME NEW k \in Others
        PROVE  Lists(a, body[k], T[k], lo + 6 * k, lo + 6 * k + 6)
    <3>1. k \in Rank /\ k \in Int
      BY <1>0, RankFacts
    <3>2. PICK m \in Int : m = lo + 6 * k
      BY <3>1
    <3>3. Order(a, Awaiting(a, k, "time")) = m /\ Order(a, Received(k, "time")) = m + 1
      BY <2>1, <3>1, <3>2, Orders
    <3>4. Lists(a, Recv(k, Tag(a, k, "time"), Into("time")), RecvCalls(a, k, "time"), m, m + 6)
      BY <1>0, <3>1, <3>3, RecvLists DEF RecvCalls
    <3> QED
      BY <1>0, <1>1, <3>1, <3>2, <3>4
  <2>3. DOMAIN body = Others
    OBVIOUS
  <2>4. UNION {T[k] : k \in Others} = AllRecvs(a, "time")
    BY DEF AllRecvs
  <2> HIDE DEF body, T
  <2>5. Lists(a, InTurn(body), UNION {T[k] : k \in Others}, lo, lo + Width)
    BY <2>2, <2>3, ListsInTurn
  <2> QED
    BY <1>0, <1>3, <2>1, <2>4, <2>5 DEF Reduce, ReduceCalls, body
<1> QED
  BY <1>2, <1>3

FinishCalls(r) == ((IF r = Root THEN {Own("print")} ELSE {}) \union {Own("free")}) \union {Own("finalize")}

\* The end: the file, the buffers and MPI_Finalize (lines 269-280).
LEMMA FinishLists ==
    ASSUME NEW a, NEW r \in Rank
    PROVE  Lists(a, Finish(r), FinishCalls(r), 25 * Width, 28 * Width)
<1> DEFINE print == If(r = Root, Local("print"))
           P == IF r = Root THEN {Own("print")} ELSE {}
<1>0. /\ 25 * Width \in Int /\ 26 * Width \in Int /\ 27 * Width \in Int /\ 28 * Width \in Int
      /\ 25 * Width < 26 * Width /\ 26 * Width < 27 * Width /\ 27 * Width < 28 * Width
      /\ 25 * Width <= 26 * Width /\ 26 * Width <= 27 * Width /\ 27 * Width <= 28 * Width /\ 25 * Width <= 27 * Width
      /\ 25 * Width <= 25 * Width /\ 26 * Width <= 26 * Width /\ 27 * Width <= 27 * Width
  BY Widths
<1>1. /\ Order(a, Own("print")) = 25 * Width /\ Order(a, Own("free")) = 26 * Width
      /\ Order(a, Own("finalize")) = 27 * Width
  BY Orders
<1>2. "print" \in OwnNames /\ "free" \in OwnNames /\ "finalize" \in OwnNames
  BY DEF OwnNames
<1>3. Lists(a, print, P, 25 * Width, 26 * Width)
  <2>1. CASE r = Root
    <3>1. Lists(a, Local("print"), {Own("print")}, 25 * Width, 26 * Width)
      BY <1>0, <1>1, <1>2, OwnLists
    <3> QED
      BY <2>1, <3>1 DEF If
  <2>2. CASE r # Root
    BY <2>2, ListsNone DEF If
  <2> QED
    BY <2>1, <2>2
<1>4. Lists(a, Local("free"), {Own("free")}, 26 * Width, 27 * Width)
  BY <1>0, <1>1, <1>2, OwnLists
<1>5. Lists(a, Local("finalize"), {Own("finalize")}, 27 * Width, 28 * Width)
  BY <1>0, <1>1, <1>2, OwnLists
<1> HIDE DEF print, P
<1>6. Lists(a, print \o Local("free"), P \union {Own("free")}, 25 * Width, 27 * Width)
  BY <1>0, <1>3, <1>4, ListsThen
<1>7. Lists(a, (print \o Local("free")) \o Local("finalize"), (P \union {Own("free")}) \union {Own("finalize")}, 25 * Width, 28 * Width)
  BY <1>0, <1>5, <1>6, ListsThen
<1> QED
  BY <1>7 DEF Finish, FinishCalls, print, P

ProgramCalls(a, r) ==
    (((((((XCCalls(a, r) \union GhostCalls(a, r)) \union YCCalls(a, r)) \union EdgeCalls(a, r))
        \union DYCCalls(a, r)) \union (GatherCalls(a, r) \union CopyCalls(r))) \union TestCalls(a, r))
     \union ReduceCalls(a, r)) \union FinishCalls(r)

\* A program lists all of its calls, each part after the one before.
LEMMA ProgramLists ==
    ASSUME NEW a, NEW r \in Rank
    PROVE  Lists(a, Program(a, r), ProgramCalls(a, r), Width, 28 * Width)
<1>0. /\ Width \in Int
      /\ 2 * Width \in Int /\ 5 * Width \in Int /\ 8 * Width \in Int /\ 16 * Width \in Int
      /\ 18 * Width \in Int /\ 23 * Width \in Int /\ 24 * Width \in Int /\ 25 * Width \in Int /\ 28 * Width \in Int
      /\ Width <= 2 * Width /\ Width <= 5 * Width /\ Width <= 8 * Width /\ Width <= 16 * Width
      /\ Width <= 18 * Width /\ Width <= 23 * Width /\ Width <= 24 * Width /\ Width <= 25 * Width
      /\ 2 * Width <= 5 * Width /\ 5 * Width <= 8 * Width /\ 8 * Width <= 16 * Width /\ 16 * Width <= 18 * Width
      /\ 18 * Width <= 23 * Width /\ 23 * Width <= 24 * Width /\ 24 * Width <= 25 * Width /\ 25 * Width <= 28 * Width
  BY Widths
<1>1. Lists(a, StartXC(a, r) \o PostGhosts(a, r), XCCalls(a, r) \union GhostCalls(a, r), Width, 5 * Width)
  BY <1>0, XCLists, GhostLists, ListsThen
<1>2. PICK p, P : p = StartXC(a, r) \o PostGhosts(a, r) /\ P = XCCalls(a, r) \union GhostCalls(a, r)
  OBVIOUS
<1>3. Lists(a, p \o StartYC(a, r), P \union YCCalls(a, r), Width, 8 * Width)
  <2>1. Lists(a, p, P, Width, 5 * Width)
    BY <1>1, <1>2
  <2> QED
    BY <1>0, <2>1, YCLists, ListsThen
<1>4. PICK q, Q : q = p \o StartYC(a, r) /\ Q = P \union YCCalls(a, r)
  OBVIOUS
<1>5. Lists(a, q \o Edges(a, r), Q \union EdgeCalls(a, r), Width, 16 * Width)
  <2>1. Lists(a, q, Q, Width, 8 * Width)
    BY <1>3, <1>4
  <2> QED
    BY <1>0, <2>1, EdgeLists, ListsThen
<1>6. PICK s, S : s = q \o Edges(a, r) /\ S = Q \union EdgeCalls(a, r)
  OBVIOUS
<1>7. Lists(a, s \o StartDYC(a, r), S \union DYCCalls(a, r), Width, 18 * Width)
  <2>1. Lists(a, s, S, Width, 16 * Width)
    BY <1>5, <1>6
  <2> QED
    BY <1>0, <2>1, DYCLists, ListsThen
<1>8. PICK t, T : t = s \o StartDYC(a, r) /\ T = S \union DYCCalls(a, r)
  OBVIOUS
<1>9. Lists(a, t \o Gather(a, r), T \union (GatherCalls(a, r) \union CopyCalls(r)), Width, 23 * Width)
  <2>1. Lists(a, t, T, Width, 18 * Width)
    BY <1>7, <1>8
  <2> QED
    BY <1>0, <2>1, GatherLists, ListsThen
<1>10. PICK u, U : u = t \o Gather(a, r) /\ U = T \union (GatherCalls(a, r) \union CopyCalls(r))
  OBVIOUS
<1>11. Lists(a, u \o TestAll(a, r), U \union TestCalls(a, r), Width, 24 * Width)
  <2>1. Lists(a, u, U, Width, 23 * Width)
    BY <1>9, <1>10
  <2> QED
    BY <1>0, <2>1, TestLists, ListsThen
<1>12. PICK v, V : v = u \o TestAll(a, r) /\ V = U \union TestCalls(a, r)
  OBVIOUS
<1>13. Lists(a, v \o Reduce(r), V \union ReduceCalls(a, r), Width, 25 * Width)
  <2>1. Lists(a, v, V, Width, 24 * Width)
    BY <1>11, <1>12
  <2> QED
    BY <1>0, <2>1, ReduceLists, ListsThen
<1>14. PICK w, W : w = v \o Reduce(r) /\ W = V \union ReduceCalls(a, r)
  OBVIOUS
<1>15. Lists(a, w \o Finish(r), W \union FinishCalls(r), Width, 28 * Width)
  <2>1. Lists(a, w, W, Width, 25 * Width)
    BY <1>13, <1>14
  <2> QED
    BY <1>0, <2>1, FinishLists, ListsThen
<1>16. Program(a, r) = w \o Finish(r) /\ ProgramCalls(a, r) = W \union FinishCalls(r)
  BY <1>2, <1>4, <1>6, <1>8, <1>10, <1>12, <1>14 DEF Program, ProgramCalls
<1> QED
  BY <1>15, <1>16

\* The calls of a program are those of its messages and its own.
LEMMA ProgramPosts ==
    ASSUME NEW a, NEW r \in Rank, NEW d \in Rank, NEW b \in SendBufs, Sends(r, d, b)
    PROVE  /\ Posting(a, r, d, b) \in ProgramCalls(a, r)
           /\ WaitsForSend(a, b) => Posted(d, b) \in ProgramCalls(a, r)
<1>1. CASE b = "first"
  <2>1. r # Root /\ d = r - 1
    BY <1>1 DEF Sends
  <2>2. Posting(a, r, d, b) \in EdgeCalls(a, r)
    BY <1>1, <2>1 DEF EdgeCalls, BlockingLeft
  <2>3. WaitsForSend(a, b) => Posted(d, b) \in EdgeCalls(a, r)
    BY <1>1, <2>1 DEF EdgeCalls, BlockingLeft, WaitsForSend, Arrays
  <2> QED
    BY <2>2, <2>3 DEF ProgramCalls
<1>2. CASE b = "last"
  <2>1. r # LastRank /\ d = r + 1
    BY <1>2 DEF Sends
  <2>2. Posting(a, r, d, b) \in EdgeCalls(a, r)
    BY <1>2, <2>1 DEF EdgeCalls, BlockingRight
  <2>3. WaitsForSend(a, b) => Posted(d, b) \in EdgeCalls(a, r)
    BY <1>2, <2>1 DEF EdgeCalls, BlockingRight, WaitsForSend, Arrays
  <2> QED
    BY <2>2, <2>3 DEF ProgramCalls
<1>3. CASE b = "time"
  <2>1. r # Root /\ d = Root
    BY <1>3 DEF Sends
  <2>2. Posting(a, r, d, b) \in ReduceCalls(a, r)
    BY <1>3, <2>1 DEF ReduceCalls
  <2>3. ~WaitsForSend(a, b)
    BY <1>3 DEF WaitsForSend
  <2> QED
    BY <2>2, <2>3 DEF ProgramCalls
<1>4. CASE b \in Arrays
  <2>1. r # Root /\ d = Root
    BY <1>4 DEF Sends, Arrays
  <2>2. CASE ~Early(a)
    <3>1. Posting(a, r, d, b) \in ThreeSends(a, r) /\ Posted(d, b) \in ThreeSends(a, r)
      BY <1>4, <2>1 DEF ThreeSends, SendCalls, Arrays
    <3>2. GatherCalls(a, r) = ThreeSends(a, r)
      BY <2>1, <2>2 DEF GatherCalls
    <3> QED
      BY <3>1, <3>2 DEF ProgramCalls
  <2>3. CASE Early(a)
    <3>1. Posting(a, r, d, b) \in CollectCalls(a, r, b)
      BY <2>1, <2>3 DEF CollectCalls
    <3>2. Posting(a, r, d, b) \in ProgramCalls(a, r)
      BY <1>4, <3>1 DEF ProgramCalls, XCCalls, YCCalls, DYCCalls, Arrays
    <3>3. WaitsForSend(a, b) => Posted(d, b) \in YCCalls(a, r)
      BY <1>4, <2>1, <2>3 DEF WaitsForSend, YCCalls, Arrays
    <3> QED
      BY <3>2, <3>3 DEF ProgramCalls
  <2> QED
    BY <2>2, <2>3
<1> QED
  BY <1>1, <1>2, <1>3, <1>4, Buffers

\* A rank asks for every message sent to it.
LEMMA ProgramAwaits ==
    ASSUME NEW a, NEW r \in Rank, NEW s \in Rank, NEW b \in SendBufs, Sends(s, r, b)
    PROVE  /\ Awaiting(a, s, b) \in ProgramCalls(a, r)
           /\ WaitsForRecv(a, b) => Received(s, b) \in ProgramCalls(a, r)
<1>1. CASE b = "first"
  <2>1. r # LastRank /\ s = r + 1
    BY <1>1 DEF Sends, LastRank, Rank, Root
  <2>2. Awaiting(a, s, b) \in EdgeCalls(a, r) \union GhostCalls(a, r)
    BY <1>1, <2>1 DEF EdgeCalls, BlockingRight, GhostCalls
  <2>3. Received(s, b) \in EdgeCalls(a, r)
    BY <1>1, <2>1 DEF EdgeCalls, BlockingRight
  <2> QED
    BY <2>2, <2>3 DEF ProgramCalls
<1>2. CASE b = "last"
  <2>1. r # Root /\ s = r - 1
    BY <1>2 DEF Sends, LastRank, Rank, Root
  <2>2. Awaiting(a, s, b) \in EdgeCalls(a, r) \union GhostCalls(a, r)
    BY <1>2, <2>1 DEF EdgeCalls, BlockingLeft, GhostCalls
  <2>3. Received(s, b) \in EdgeCalls(a, r)
    BY <1>2, <2>1 DEF EdgeCalls, BlockingLeft
  <2> QED
    BY <2>2, <2>3 DEF ProgramCalls
<1>3. CASE b \notin {"first", "last"}
  <2>1. s \in Others /\ r = Root
    BY <1>3, RankFacts DEF Sends
  <2>2. CASE b = "time"
    <3>1. Awaiting(a, s, b) \in ReduceCalls(a, r) /\ Received(s, b) \in ReduceCalls(a, r)
      BY <2>1, <2>2 DEF ReduceCalls, AllRecvs, RecvCalls
    <3> QED
      BY <3>1 DEF ProgramCalls
  <2>3. CASE b \in Arrays /\ ~Early(a)
    <3>0. CASE Manual(a)
      <4>1. Awaiting(a, s, b) \in ThreeRecvs(a, s) /\ Received(s, b) \in ThreeRecvs(a, s)
        BY <2>3 DEF ThreeRecvs, RecvCalls, Arrays
      <4>2. Awaiting(a, s, b) \in GatherCalls(a, r) /\ Received(s, b) \in GatherCalls(a, r)
        BY <2>1, <2>3, <3>0, <4>1 DEF GatherCalls
      <4> QED
        BY <4>2 DEF ProgramCalls
    <3>1. CASE ~Manual(a)
      <4>1. Awaiting(a, s, b) \in AllRecvs(a, b) /\ Received(s, b) \in AllRecvs(a, b)
        BY <2>1 DEF AllRecvs, RecvCalls
      <4>2. Awaiting(a, s, b) \in GatherCalls(a, r) /\ Received(s, b) \in GatherCalls(a, r)
        BY <2>1, <2>3, <3>1, <4>1 DEF GatherCalls, Arrays
      <4> QED
        BY <4>2 DEF ProgramCalls
    <3> QED
      BY <3>0, <3>1
  <2>4. CASE b \in Arrays /\ Early(a)
    <3>1. Awaiting(a, s, b) \in CollectCalls(a, r, b)
      BY <2>1, <2>4 DEF CollectCalls
    <3>2. Awaiting(a, s, b) \in ProgramCalls(a, r)
      BY <2>4, <3>1 DEF ProgramCalls, XCCalls, YCCalls, DYCCalls, Arrays
    <3>3. ~WaitsForRecv(a, b)
      BY <2>4 DEF WaitsForRecv
    <3> QED
      BY <3>2, <3>3
  <2> QED
    BY <1>3, <2>2, <2>3, <2>4, Buffers
<1> QED
  BY <1>1, <1>2, <1>3

\* A rank makes its own calls.
LEMMA ProgramOwn ==
    ASSUME NEW a, NEW r \in Rank, NEW what \in OwnCalls(a, r)
    PROVE  Own(what) \in ProgramCalls(a, r)
  BY DEF OwnCalls, ProgramCalls, GhostCalls, YCCalls, DYCCalls, CopyCalls, TestCalls, FinishCalls

\* The calls of a program's messages.
IsPost(a, r, d, b, c) == c = Posting(a, r, d, b) \/ (WaitsForSend(a, b) /\ c = Posted(d, b))
IsAwait(a, s, b, c)   == c = Awaiting(a, s, b) \/ (WaitsForRecv(a, b) /\ c = Received(s, b))
PostOf(a, r, c)  == \E d \in Rank, b \in SendBufs : Sends(r, d, b) /\ IsPost(a, r, d, b, c)
AwaitOf(a, r, c) == \E s \in Rank, b \in SendBufs : Sends(s, r, b) /\ IsAwait(a, s, b, c)
OwnOf(a, r, c) == \E what \in OwnCalls(a, r) : c = Own(what)

\* What is sent is a call of the sender's messages.
LEMMA PostIsOf ==
    ASSUME NEW a, NEW r \in Rank, NEW d \in Rank, NEW b \in SendBufs, Sends(r, d, b)
    PROVE  /\ PostOf(a, r, Posting(a, r, d, b))
           /\ WaitsForSend(a, b) => PostOf(a, r, Posted(d, b))
<1>1. IsPost(a, r, d, b, Posting(a, r, d, b)) /\ (WaitsForSend(a, b) => IsPost(a, r, d, b, Posted(d, b)))
  BY Zenon DEF IsPost
<1> QED
  BY <1>1 DEF PostOf

\* What is asked for is a call of the receiver's messages.
LEMMA AwaitIsOf ==
    ASSUME NEW a, NEW r \in Rank, NEW s \in Rank, NEW b \in SendBufs, Sends(s, r, b)
    PROVE  /\ AwaitOf(a, r, Awaiting(a, s, b))
           /\ WaitsForRecv(a, b) => AwaitOf(a, r, Received(s, b))
<1>1. IsAwait(a, s, b, Awaiting(a, s, b)) /\ (WaitsForRecv(a, b) => IsAwait(a, s, b, Received(s, b)))
  BY Zenon DEF IsAwait
<1> QED
  BY <1>1 DEF AwaitOf

\* The calls of the exchange are for messages, or a rank's own.
LEMMA EdgeMembers ==
    ASSUME NEW a, NEW r \in Rank, NEW c \in EdgeCalls(a, r) \union GhostCalls(a, r)
    PROVE  PostOf(a, r, c) \/ AwaitOf(a, r, c) \/ OwnOf(a, r, c)
<1>0. "first" \in SendBufs /\ "last" \in SendBufs
  BY Buffers
<1>1. WaitsForRecv(a, "first") /\ WaitsForRecv(a, "last")
  BY DEF WaitsForRecv, Arrays
<1>2. ~NonBlocking(a) => WaitsForSend(a, "first") /\ WaitsForSend(a, "last")
  BY DEF WaitsForSend
<1>3. ASSUME NEW s \in Rank, r # Root, s = r - 1,
             \/ c = Posting(a, r, s, "first")
             \/ ~NonBlocking(a) /\ c = Posted(s, "first")
             \/ c = Awaiting(a, s, "last")
             \/ c = Received(s, "last")
      PROVE  PostOf(a, r, c) \/ AwaitOf(a, r, c)
  <2>1. Sends(r, s, "first") /\ Sends(s, r, "last")
    BY <1>3, RankFacts DEF Sends, Rank
  <2> QED
    BY <1>0, <1>1, <1>2, <1>3, <2>1, PostIsOf, AwaitIsOf
<1>4. ASSUME NEW s \in Rank, r # LastRank, s = r + 1,
             \/ c = Posting(a, r, s, "last")
             \/ ~NonBlocking(a) /\ c = Posted(s, "last")
             \/ c = Awaiting(a, s, "first")
             \/ c = Received(s, "first")
      PROVE  PostOf(a, r, c) \/ AwaitOf(a, r, c)
  <2>1. Sends(r, s, "last") /\ Sends(s, r, "first")
    BY <1>4, RankFacts DEF Sends, Rank
  <2> QED
    BY <1>0, <1>1, <1>2, <1>4, <2>1, PostIsOf, AwaitIsOf
<1>5. \/ c = Own("ghosts")
      \/ /\ r # Root
         /\ \/ c = Posting(a, r, r - 1, "first")
            \/ ~NonBlocking(a) /\ c = Posted(r - 1, "first")
            \/ c = Awaiting(a, r - 1, "last")
            \/ c = Received(r - 1, "last")
      \/ /\ r # LastRank
         /\ \/ c = Posting(a, r, r + 1, "last")
            \/ ~NonBlocking(a) /\ c = Posted(r + 1, "last")
            \/ c = Awaiting(a, r + 1, "first")
            \/ c = Received(r + 1, "first")
  BY DEF EdgeCalls, GhostCalls, BlockingLeft, BlockingRight
<1>6. CASE c = Own("ghosts")
  BY <1>6 DEF OwnOf, OwnCalls
<1> QED
  BY <1>3, <1>4, <1>5, <1>6, Neighbours

\* So are the calls for a block that is sent early,
LEMMA ArrayMembers ==
    ASSUME NEW a, NEW r \in Rank, NEW b \in Arrays,
           NEW c \in CollectCalls(a, r, b)
    PROVE  PostOf(a, r, c) \/ AwaitOf(a, r, c)
<1>0. b \in SendBufs /\ Root \in Rank /\ Others = Rank \ {Root}
  BY Buffers, RankFacts
<1>1. \A s \in Others : Sends(s, Root, b)
  BY <1>0 DEF Sends, Arrays
<1>2. CASE r # Root
  <2>1. c = Posting(a, r, Root, b) /\ Sends(r, Root, b)
    BY <1>0, <1>1, <1>2 DEF CollectCalls
  <2> QED
    BY <1>0, <2>1, PostIsOf
<1>3. CASE r = Root
  <2>1. PICK s \in Others : c = Awaiting(a, s, b)
    BY <1>3 DEF CollectCalls
  <2>2. AwaitOf(a, Root, Awaiting(a, s, b))
    BY <1>0, <1>1, AwaitIsOf
  <2> QED
    BY <1>3, <2>1, <2>2
<1> QED
  BY <1>2, <1>3

\* those that gather the blocks at the end,
LEMMA GatherMembers ==
    ASSUME NEW a, NEW r \in Rank, NEW c \in GatherCalls(a, r)
    PROVE  PostOf(a, r, c) \/ AwaitOf(a, r, c)
<1>0. Arrays \subseteq SendBufs /\ Root \in Rank /\ Others = Rank \ {Root}
  BY Buffers, RankFacts
<1>1. \A s \in Others, b \in Arrays : Sends(s, Root, b)
  BY <1>0 DEF Sends, Arrays
<1>2. ~Early(a)
  BY DEF GatherCalls
<1>3. \A b \in Arrays : WaitsForSend(a, b) /\ WaitsForRecv(a, b)
  BY <1>2 DEF WaitsForSend, WaitsForRecv, Arrays
<1>4. CASE r # Root
  <2>1. \E b \in Arrays : c = Posting(a, r, Root, b) \/ c = Posted(Root, b)
    BY <1>2, <1>4 DEF GatherCalls, ThreeSends, SendCalls, Arrays
  <2>2. \A b \in Arrays : PostOf(a, r, Posting(a, r, Root, b)) /\ PostOf(a, r, Posted(Root, b))
    BY <1>0, <1>1, <1>3, <1>4, PostIsOf
  <2> QED
    BY <2>1, <2>2
<1>5. CASE r = Root
  <2>1. \E k \in Others, b \in Arrays : c \in RecvCalls(a, k, b)
    BY <1>2, <1>5 DEF GatherCalls, ThreeRecvs, AllRecvs, Arrays
  <2>2. \E k \in Others, b \in Arrays : c = Awaiting(a, k, b) \/ c = Received(k, b)
    BY <2>1 DEF RecvCalls
  <2>3. \A k \in Others, b \in Arrays : AwaitOf(a, Root, Awaiting(a, k, b)) /\ AwaitOf(a, Root, Received(k, b))
    BY <1>0, <1>1, <1>3, AwaitIsOf
  <2> QED
    BY <1>5, <2>2, <2>3
<1> QED
  BY <1>4, <1>5

\* those of MPI_Reduce,
LEMMA ReduceMembers ==
    ASSUME NEW a, NEW r \in Rank, NEW c \in ReduceCalls(a, r)
    PROVE  PostOf(a, r, c) \/ AwaitOf(a, r, c)
<1>0. "time" \in SendBufs /\ Root \in Rank /\ Others = Rank \ {Root}
  BY Buffers, RankFacts
<1>1. \A s \in Others : Sends(s, Root, "time")
  BY <1>0 DEF Sends
<1>2. WaitsForRecv(a, "time")
  BY DEF WaitsForRecv, Arrays
<1>3. CASE r # Root
  <2>1. c = Posting(a, r, Root, "time") /\ Sends(r, Root, "time")
    BY <1>0, <1>1, <1>3 DEF ReduceCalls
  <2> QED
    BY <1>0, <2>1, PostIsOf
<1>4. CASE r = Root
  <2>1. \E k \in Others : c = Awaiting(a, k, "time") \/ c = Received(k, "time")
    BY <1>4 DEF ReduceCalls, AllRecvs, RecvCalls
  <2>2. \A k \in Others : AwaitOf(a, Root, Awaiting(a, k, "time")) /\ AwaitOf(a, Root, Received(k, "time"))
    BY <1>0, <1>1, <1>2, AwaitIsOf
  <2> QED
    BY <1>4, <2>1, <2>2
<1> QED
  BY <1>3, <1>4

\* those for the values,
LEMMA YCMembers ==
    ASSUME NEW a, NEW r \in Rank, NEW c \in YCCalls(a, r)
    PROVE  PostOf(a, r, c) \/ AwaitOf(a, r, c) \/ OwnOf(a, r, c)
<1>1. CASE c = Own("yc")
  BY <1>1 DEF OwnOf, OwnCalls
<1>2. CASE c \in CollectCalls(a, r, "yc")
  BY <1>2, ArrayMembers DEF Arrays
<1>3. CASE r # Root /\ c = Posted(Root, "yc")
  <2>1. Sends(r, Root, "yc") /\ WaitsForSend(a, "yc") /\ "yc" \in SendBufs /\ Root \in Rank
    BY <1>3, Buffers, RankFacts DEF Sends, WaitsForSend, Arrays
  <2> QED
    BY <1>3, <2>1, PostIsOf
<1> QED
  BY <1>1, <1>2, <1>3 DEF YCCalls

\* and so all calls of a program.
LEMMA ProgramMembers ==
    ASSUME NEW a, NEW r \in Rank, NEW c \in ProgramCalls(a, r)
    PROVE  PostOf(a, r, c) \/ AwaitOf(a, r, c) \/ OwnOf(a, r, c)
<1>0. "xc" \in Arrays /\ "dyc" \in Arrays
  BY DEF Arrays
<1>1. CASE c \in EdgeCalls(a, r) \union GhostCalls(a, r)
  BY <1>1, EdgeMembers
<1>2. CASE c \in YCCalls(a, r)
  BY <1>2, YCMembers
<1>3. CASE c \in XCCalls(a, r)
  BY <1>0, <1>3, ArrayMembers DEF XCCalls
<1>4. CASE c \in DYCCalls(a, r)
  <2>1. CASE c = Own("dyc")
    BY <2>1 DEF OwnOf, OwnCalls
  <2> QED
    BY <1>0, <1>4, <2>1, ArrayMembers DEF DYCCalls
<1>5. CASE c \in GatherCalls(a, r)
  BY <1>5, GatherMembers
<1>6. CASE c \in ReduceCalls(a, r)
  BY <1>6, ReduceMembers
<1>7. CASE c \in (CopyCalls(r) \union TestCalls(a, r)) \union FinishCalls(r)
  BY <1>7 DEF CopyCalls, TestCalls, FinishCalls, OwnOf, OwnCalls
<1> QED
  BY <1>1, <1>2, <1>3, <1>4, <1>5, <1>6, <1>7 DEF ProgramCalls

\* The two descriptions of a program agree.
LEMMA InProgramCalls ==
    ASSUME NEW a, NEW r \in Rank, NEW c
    PROVE  InProgram(a, r, c) <=> c \in ProgramCalls(a, r)
<1>1. InProgram(a, r, c) <=> PostOf(a, r, c) \/ AwaitOf(a, r, c) \/ OwnOf(a, r, c)
  BY DEF InProgram, PostOf, AwaitOf, OwnOf, IsPost, IsAwait
<1>2. PostOf(a, r, c) => c \in ProgramCalls(a, r)
  BY ProgramPosts DEF PostOf, IsPost
<1>3. AwaitOf(a, r, c) => c \in ProgramCalls(a, r)
  BY ProgramAwaits DEF AwaitOf, IsAwait
<1>4. OwnOf(a, r, c) => c \in ProgramCalls(a, r)
  BY ProgramOwn DEF OwnOf
<1> QED
  BY <1>1, <1>2, <1>3, <1>4, ProgramMembers

----------------------------------------------------------------------------
(* Whose turn it is.  *)

\* Rank r has made the call c.
Did(r, c) == \E k \in 1 .. pc[r] : Programs[arg][r][k] = c

\* The state of the programs.
Running == arg \in Arguments /\ \A r \in Rank : pc[r] \in 0 .. Len(Programs[arg][r])

Listed(a, r) == Lists(a, Programs[a][r], ProgramCalls(a, r), Width, 28 * Width)

\* The program of a rank is such a list.
LEMMA ProgramListed ==
    ASSUME NEW a \in Arguments, NEW r \in Rank
    PROVE  Listed(a, r)
  BY ProgramLists DEF Programs, Listed

\* The calls and their positions have their types.
LEMMA CallsTyped ==
    ASSUME NEW a \in Arguments, NEW r \in Rank
    PROVE  /\ Programs[a][r] \in Seq(Calls)
           /\ \A c \in ProgramCalls(a, r) : c \in Calls /\ Order(a, c) \in Int
<1>1. Listed(a, r)
  BY ProgramListed
<1>2. \A c \in ProgramCalls(a, r) : c \in Calls
  BY <1>1 DEF Listed, Lists
<1> QED
  BY <1>1, <1>2, OrderType DEF Listed, Lists

\* At a call, a rank has made the calls before it and no others.
LEMMA Turn ==
    ASSUME Running, NEW r \in Rank, ~Done(r)
    PROVE  /\ pc[r] + 1 \in 1 .. Len(Programs[arg][r])
           /\ Call(r) \in Calls
           /\ Call(r) \in ProgramCalls(arg, r)
           /\ \A e \in ProgramCalls(arg, r) : Did(r, e) <=> Order(arg, e) < Order(arg, Call(r))
<1>1. PICK s : s = Programs[arg][r]
  OBVIOUS
<1>2. Lists(arg, s, ProgramCalls(arg, r), Width, 28 * Width)
  BY <1>1, ProgramListed DEF Running, Listed
<1>3. PICK n : n = pc[r]
  OBVIOUS
<1>4. s \in Seq(Calls) /\ Len(s) \in Nat /\ n \in 0 .. Len(s) /\ n # Len(s) /\ n + 1 \in 1 .. Len(s)
  BY <1>1, <1>2, <1>3 DEF Lists, Running, Done
<1>5. Call(r) = s[n + 1]
  BY <1>1, <1>3 DEF Call
<1>6. s[n + 1] \in Calls /\ s[n + 1] \in ProgramCalls(arg, r)
  BY <1>2, <1>4 DEF Lists
<1>7. ASSUME NEW e \in ProgramCalls(arg, r)
      PROVE  (\E k \in 1 .. n : s[k] = e) <=> Order(arg, e) < Order(arg, s[n + 1])
  <2>1. PICK k \in 1 .. Len(s) : s[k] = e
    BY <1>2 DEF Lists
  <2>2. \A j, l \in 1 .. Len(s) : Order(arg, s[j]) \in Int /\ (j < l => Order(arg, s[j]) < Order(arg, s[l]))
    BY <1>2, OrderType DEF Lists
  <2>3. CASE k <= n
    BY <1>4, <2>1, <2>2, <2>3
  <2>4. CASE n + 1 <= k
    <3>1. Order(arg, s[n + 1]) <= Order(arg, e)
      BY <1>4, <2>1, <2>2, <2>4
    <3>2. \A j \in 1 .. n : Order(arg, s[j]) < Order(arg, s[n + 1])
      BY <1>4, <2>2
    <3>3. Order(arg, e) \in Int /\ Order(arg, s[n + 1]) \in Int
      BY <1>4, <2>1, <2>2
    <3>4. \A j \in 1 .. n : s[j] # e
      BY <3>1, <3>2, <3>3
    <3> QED
      BY <3>1, <3>3, <3>4
  <2> QED
    BY <1>4, <2>1, <2>3, <2>4
<1>8. \A e : Did(r, e) <=> \E k \in 1 .. n : s[k] = e
  BY <1>1, <1>3 DEF Did
<1> QED
  BY <1>1, <1>3, <1>4, <1>5, <1>6, <1>7, <1>8

\* The calls before one that was made were made, and at the end all calls were.
LEMMA DidBefore ==
    ASSUME Running, NEW r \in Rank, NEW c \in ProgramCalls(arg, r), NEW e \in ProgramCalls(arg, r),
           Did(r, e), Order(arg, c) < Order(arg, e)
    PROVE  Did(r, c)
<1>1. PICK s : s = Programs[arg][r]
  OBVIOUS
<1>2. Lists(arg, s, ProgramCalls(arg, r), Width, 28 * Width)
  BY <1>1, ProgramListed DEF Running, Listed
<1>3. PICK n : n = pc[r]
  OBVIOUS
<1>4. Len(s) \in Nat /\ n \in 0 .. Len(s)
  BY <1>1, <1>2, <1>3 DEF Lists, Running
<1>5. \A x : Did(r, x) <=> \E k \in 1 .. n : s[k] = x
  BY <1>1, <1>3 DEF Did
<1>6. PICK k \in 1 .. n : s[k] = e
  BY <1>5
<1>7. PICK j \in 1 .. Len(s) : s[j] = c
  BY <1>2 DEF Lists
<1>8. \A x, y \in 1 .. Len(s) : Order(arg, s[x]) \in Int /\ (x < y => Order(arg, s[x]) < Order(arg, s[y]))
  BY <1>2, OrderType DEF Lists
<1>9. j < k
  <2>1. k \in 1 .. Len(s)
    BY <1>4, <1>6
  <2>2. ~(k < j) /\ k # j
    BY <1>6, <1>7, <1>8, <2>1
  <2> QED
    BY <1>4, <2>1, <2>2
<1>10. j \in 1 .. n
  BY <1>4, <1>9
<1> QED
  BY <1>5, <1>7, <1>10

\* A rank at the end has made all of its calls.
LEMMA DidAll ==
    ASSUME Running, NEW r \in Rank, Done(r), NEW c \in ProgramCalls(arg, r)
    PROVE  Did(r, c)
<1>1. PICK s : s = Programs[arg][r]
  OBVIOUS
<1>2. Lists(arg, s, ProgramCalls(arg, r), Width, 28 * Width)
  BY <1>1, ProgramListed DEF Running, Listed
<1>3. PICK j \in 1 .. Len(s) : s[j] = c
  BY <1>2 DEF Lists
<1> QED
  BY <1>1, <1>3 DEF Did, Done

\* A call advances its rank by one and no other rank.
Moves(r) == /\ arg' = arg /\ pc' \in [Rank -> Nat]
            /\ \A s \in Rank : s # r => pc'[s] = pc[s]
            /\ pc'[r] = pc[r] + 1

\* Every rank has the calls it had, rank r the call it was at too.
Makes(r, c) == \A s \in Rank : \A e : Did(s, e)' <=> Did(s, e) \/ (s = r /\ e = c)

\* A rank that goes on makes the call it is at, for the first time.
LEMMA Advances ==
    ASSUME Running, pc \in [Rank -> Nat], NEW r \in Rank, ~Done(r), Advance(r), arg' = arg
    PROVE  /\ Running' /\ pc' \in [Rank -> Nat]
           /\ Makes(r, Call(r))
           /\ ~Did(r, Call(r))
<1>1. PICK n : n = pc[r]
  OBVIOUS
<1>2. pc' = [pc EXCEPT ![r] = n + 1]
  BY <1>1 DEF Advance
<1>3. n + 1 \in 1 .. Len(Programs[arg][r]) /\ n \in Nat
  BY <1>1, Turn DEF Running
<1>4. pc'[r] = n + 1 /\ \A s \in Rank : s # r => pc'[s] = pc[s]
  BY <1>2
<1>5. Running'
  BY <1>3, <1>4 DEF Running
<1>6. Makes(r, Call(r))
  <2> SUFFICES ASSUME NEW s \in Rank, NEW e
               PROVE  Did(s, e)' <=> Did(s, e) \/ (s = r /\ e = Call(r))
    BY DEF Makes
  <2>1. CASE s # r
    BY <1>4, <2>1 DEF Did
  <2>2. CASE s = r
    <3>1. Did(r, e)' <=> \E k \in 1 .. n + 1 : Programs[arg][r][k] = e
      BY <1>4 DEF Did
    <3>2. Did(r, e) <=> \E k \in 1 .. n : Programs[arg][r][k] = e
      BY <1>1 DEF Did
    <3>3. Call(r) = Programs[arg][r][n + 1]
      BY <1>1 DEF Call
    <3>4. \A k \in 1 .. n + 1 : k \in 1 .. n \/ k = n + 1
      BY <1>3
    <3>5. n + 1 \in 1 .. n + 1 /\ \A k \in 1 .. n : k \in 1 .. n + 1
      BY <1>3
    <3> QED
      BY <2>2, <3>1, <3>2, <3>3, <3>4, <3>5
  <2> QED
    BY <2>1, <2>2
<1>7. ~Did(r, Call(r))
  <2>1. Order(arg, Call(r)) \in Int
    BY Turn, CallsTyped DEF Running
  <2> QED
    BY <2>1, Turn
<1> QED
  BY <1>2, <1>3, <1>5, <1>6, <1>7

\* A step in which no rank advances.
LEMMA Stays ==
    ASSUME arg' = arg, pc' = pc
    PROVE  \A s \in Rank : \A e : Did(s, e)' <=> Did(s, e)
  BY DEF Did
----------------------------------------------------------------------------
(* What the positions and the tags of the calls decide.  *)

\* A call by its kind.
LEMMA CallKinds ==
    ASSUME NEW a, NEW r \in Rank, NEW c \in ProgramCalls(a, r)
    PROVE  /\ c.call = "Isend" => \E d \in Rank, b \in SendBufs : Sends(r, d, b) /\ c = Posting(a, r, d, b)
           /\ c.call = "Irecv" => \E s \in Rank, b \in SendBufs : Sends(s, r, b) /\ c = Awaiting(a, s, b)
           /\ c.call = "WaitSend" =>
                \E d \in Rank, b \in SendBufs : Sends(r, d, b) /\ WaitsForSend(a, b) /\ c = Posted(d, b)
           /\ c.call = "WaitRecv" =>
                \E s \in Rank, b \in SendBufs : Sends(s, r, b) /\ WaitsForRecv(a, b) /\ c = Received(s, b)
           /\ c.call \notin Messages => c.call \in OwnCalls(a, r) /\ c = Own(c.call)
<1>1. CASE PostOf(a, r, c)
  <2>1. PICK d \in Rank, b \in SendBufs : Sends(r, d, b) /\ IsPost(a, r, d, b, c)
    BY <1>1 DEF PostOf
  <2>2. CASE c = Posting(a, r, d, b)
    <3>1. c.call = "Isend"
      BY <2>2 DEF Posting, CallOf
    <3> QED
      BY <2>1, <2>2, <3>1 DEF Messages
  <2>3. CASE WaitsForSend(a, b) /\ c = Posted(d, b)
    <3>1. c.call = "WaitSend"
      BY <2>3 DEF Posted, CallOf
    <3> QED
      BY <2>1, <2>3, <3>1 DEF Messages
  <2> QED
    BY <2>1, <2>2, <2>3 DEF IsPost
<1>2. CASE AwaitOf(a, r, c)
  <2>1. PICK s \in Rank, b \in SendBufs : Sends(s, r, b) /\ IsAwait(a, s, b, c)
    BY <1>2 DEF AwaitOf
  <2>2. CASE c = Awaiting(a, s, b)
    <3>1. c.call = "Irecv"
      BY <2>2 DEF Awaiting, CallOf
    <3> QED
      BY <2>1, <2>2, <3>1 DEF Messages
  <2>3. CASE WaitsForRecv(a, b) /\ c = Received(s, b)
    <3>1. c.call = "WaitRecv"
      BY <2>3 DEF Received, CallOf
    <3> QED
      BY <2>1, <2>3, <3>1 DEF Messages
  <2> QED
    BY <2>1, <2>2, <2>3 DEF IsAwait
<1>3. CASE OwnOf(a, r, c)
  <2>1. PICK what \in OwnCalls(a, r) : c = Own(what)
    BY <1>3 DEF OwnOf
  <2>2. c.call = what /\ what \notin Messages
    BY <2>1 DEF Own, CallOf, OwnCalls, Messages
  <2> QED
    BY <2>1, <2>2 DEF Messages
<1> QED
  BY <1>1, <1>2, <1>3, ProgramMembers

\* Different messages have different calls.
LEMMA PostingApart ==
    ASSUME NEW a, NEW s, NEW d, NEW b, NEW y, NEW e, Posting(a, s, d, b) = Posting(a, s, y, e)
    PROVE  d = y /\ b = e
<1>1. Posting(a, s, d, b).peer = d /\ Posting(a, s, d, b).buf = b /\ Posting(a, s, y, e).peer = y /\ Posting(a, s, y, e).buf = e
  BY DEF Posting, CallOf
<1> QED
  BY <1>1

\* Different messages have different waits for the send,
LEMMA PostedApart ==
    ASSUME NEW d, NEW b, NEW y, NEW e, Posted(d, b) = Posted(y, e)
    PROVE  d = y /\ b = e
<1>1. Posted(d, b).peer = d /\ Posted(d, b).buf = b /\ Posted(y, e).peer = y /\ Posted(y, e).buf = e
  BY DEF Posted, CallOf
<1> QED
  BY <1>1

\* receives
LEMMA AwaitingApart ==
    ASSUME NEW a, NEW s, NEW x, NEW b \in SendBufs, NEW e \in SendBufs, Awaiting(a, s, b) = Awaiting(a, x, e)
    PROVE  s = x /\ b = e
<1>1. Awaiting(a, s, b).peer = s /\ Awaiting(a, s, b).buf = Into(b) /\ Awaiting(a, x, e).peer = x /\ Awaiting(a, x, e).buf = Into(e)
  BY DEF Awaiting, CallOf
<1> QED
  BY <1>1, IntoFacts

\* and waits for the receive.
LEMMA ReceivedApart ==
    ASSUME NEW s, NEW x, NEW b \in SendBufs, NEW e \in SendBufs, Received(s, b) = Received(x, e)
    PROVE  s = x /\ b = e
<1>1. Received(s, b).peer = s /\ Received(s, b).buf = Into(b) /\ Received(x, e).peer = x /\ Received(x, e).buf = Into(e)
  BY DEF Received, CallOf
<1> QED
  BY <1>1, IntoFacts

\* No two calls of a program have the same position.
LEMMA OrdersApart ==
    ASSUME NEW a \in Arguments, NEW r \in Rank, NEW c \in ProgramCalls(a, r), NEW e \in ProgramCalls(a, r),
           Order(a, c) = Order(a, e)
    PROVE  c = e
<1>1. PICK s : s = Programs[a][r]
  OBVIOUS
<1>2. Lists(a, s, ProgramCalls(a, r), Width, 28 * Width)
  BY <1>1, ProgramListed DEF Listed
<1>3. PICK j \in 1 .. Len(s), k \in 1 .. Len(s) : s[j] = c /\ s[k] = e
  BY <1>2 DEF Lists
<1>4. \A x, y \in 1 .. Len(s) : Order(a, s[x]) \in Int /\ (x < y => Order(a, s[x]) < Order(a, s[y]))
  BY <1>2, OrderType DEF Lists
<1>5. ~(j < k) /\ ~(k < j)
  BY <1>3, <1>4
<1> QED
  BY <1>3, <1>5

\* A block is between 0 and 2.
LEMMA BlockFacts == Block("xc") = 0 /\ Block("yc") = 1 /\ Block("dyc") = 2
  BY DEF Block

\* A wait follows its call.
LEMMA SendWaitsAfter ==
    ASSUME NEW a, NEW s \in Rank, NEW d \in Rank, NEW b \in SendBufs, Sends(s, d, b), WaitsForSend(a, b)
    PROVE  Order(a, Posting(a, s, d, b)) < Order(a, Posted(d, b))
<1>0. Width \in Int /\ Width >= 6 /\ d \in Int
  BY Widths, RankFacts
<1>1. CASE b = "first"
  <2>1. Order(a, Posting(a, s, d, "first")) = 8 * Width /\ Order(a, Posted(d, "first")) = 9 * Width
    BY Orders
  <2> QED
    BY <1>0, <1>1, <2>1
<1>2. CASE b = "last"
  <2>1. Order(a, Posting(a, s, d, "last")) = (IF NonBlocking(a) THEN 9 * Width ELSE 12 * Width) /\ Order(a, Posted(d, "last")) = 13 * Width
    BY Orders
  <2> QED
    BY <1>0, <1>2, <2>1
<1>3. CASE b \in Arrays /\ Early(a)
  <2>1. b = "yc"
    BY <1>3 DEF WaitsForSend, Arrays
  <2>2. "yc" \in Arrays
    BY DEF Arrays
  <2>3. Order(a, Posting(a, s, d, "yc")) = 6 * Width + 6 * d
    BY <1>3, <2>2, ArrayOrders
  <2>4. Order(a, Posted(d, "yc")) = 7 * Width + 6 * d + 1
    BY <1>3, <2>2, ArrayOrders
  <2> QED
    BY <1>0, <2>1, <2>3, <2>4
<1>4. CASE b \in Arrays /\ ~Early(a)
  <2>1. PICK w \in Int : w = (19 + Block(b)) * Width
    BY <1>0, <1>4, BlockFacts DEF Arrays
  <2>2. Block(b) \in Int
    BY <1>4, BlockFacts DEF Arrays
  <2>3. Order(a, Posting(a, s, d, b)) = IF Manual(a) THEN 18 * Width + 6 * d + 2 * Block(b) ELSE w + 6 * d
    BY <1>4, <2>1, ArrayOrders
  <2>4. Order(a, Posted(d, b)) = IF Manual(a) THEN 18 * Width + 6 * d + 2 * Block(b) + 1 ELSE w + 6 * d + 1
    BY <1>4, <2>1, ArrayOrders
  <2> QED
    BY <1>0, <2>2, <2>3, <2>4
<1>5. b # "time"
  BY DEF WaitsForSend
<1> QED
  BY <1>1, <1>2, <1>3, <1>4, <1>5, Buffers

\* The wait for a receive follows the receive.
LEMMA RecvWaitsAfter ==
    ASSUME NEW a, NEW s \in Rank, NEW d \in Rank, NEW b \in SendBufs, Sends(s, d, b), WaitsForRecv(a, b)
    PROVE  Order(a, Awaiting(a, s, b)) < Order(a, Received(s, b))
<1>0. Width \in Int /\ Width >= 6 /\ s \in Int
  BY Widths, RankFacts
<1>1. CASE b = "first"
  <2>1. Order(a, Awaiting(a, s, "first")) = (IF NonBlocking(a) THEN 4 * Width ELSE 14 * Width) /\ Order(a, Received(s, "first")) = 15 * Width
    BY Orders
  <2> QED
    BY <1>0, <1>1, <2>1
<1>2. CASE b = "last"
  <2>1. Order(a, Awaiting(a, s, "last")) = (IF NonBlocking(a) THEN 3 * Width ELSE 10 * Width) /\ Order(a, Received(s, "last")) = 11 * Width
    BY Orders
  <2> QED
    BY <1>0, <1>2, <2>1
<1>3. CASE b = "time"
  <2>1. Order(a, Awaiting(a, s, "time")) = 24 * Width + 6 * s /\ Order(a, Received(s, "time")) = 24 * Width + 6 * s + 1
    BY Orders
  <2> QED
    BY <1>0, <1>3, <2>1
<1>4. CASE b \in Arrays
  <2>0. ~Early(a)
    BY <1>4 DEF WaitsForRecv
  <2>1. PICK w \in Int : w = (19 + Block(b)) * Width
    BY <1>0, <1>4, BlockFacts DEF Arrays
  <2>2. Block(b) \in Int
    BY <1>4, BlockFacts DEF Arrays
  <2>3. Order(a, Awaiting(a, s, b)) = IF Manual(a) THEN 18 * Width + 6 * s + 2 * Block(b) ELSE w + 6 * s
    BY <1>4, <2>0, <2>1, ArrayOrders
  <2>4. Order(a, Received(s, b)) = IF Manual(a) THEN 18 * Width + 6 * s + 2 * Block(b) + 1 ELSE w + 6 * s + 1
    BY <1>4, <2>0, <2>1, ArrayOrders
  <2> QED
    BY <1>0, <2>2, <2>3, <2>4
<1> QED
  BY <1>1, <1>2, <1>3, <1>4, Buffers

\* A rank sends arrays only to the root, and only rank 1 sends it an edge too.
LEMMA SameReceiver ==
    ASSUME NEW s \in Rank, NEW d \in Rank, NEW b \in SendBufs, NEW e \in SendBufs,
           Sends(s, d, b), Sends(s, d, e), b # e
    PROVE  /\ b \in Arrays \union {"first", "time"} /\ e \in Arrays \union {"first", "time"}
           /\ d = Root /\ s # Root
           /\ b = "first" \/ e = "first" => s = 1
  BY Buffers, RankFacts DEF Sends, Arrays

\* The arrays of a rank are sent and received in one order.
LEMMA ArraysInOrder ==
    ASSUME NEW a, NEW s \in Rank, NEW d \in Rank, NEW b \in Arrays, NEW e \in Arrays, b # e
    PROVE  Order(a, Posting(a, s, d, b)) < Order(a, Posting(a, s, d, e))
             <=> Order(a, Awaiting(a, s, b)) < Order(a, Awaiting(a, s, e))
<1>0. Width \in Int /\ s \in Int /\ d \in Int /\ 6 * s < Width /\ 6 * d < Width /\ Width >= 6
      /\ s >= 0 /\ d >= 0
  <2>1. s \in Nat /\ d \in Nat /\ s < numproc /\ d < numproc /\ numproc \in Nat
    BY RankFacts, numprocAssumption
  <2>2. Width >= 6
    BY Widths
  <2> QED
    BY <2>1, <2>2 DEF Width
<1>1. CASE Early(a)
  <2> DEFINE p(x) == IF x = "xc" THEN 1 ELSE IF x = "yc" THEN 6 ELSE 17
  <2>1. \A x \in Arrays : Order(a, Posting(a, s, d, x)) = p(x) * Width + 6 * d /\ Order(a, Awaiting(a, s, x)) = p(x) * Width + 6 * s
    BY <1>1, ArrayOrders
  <2>2. \A x \in Arrays : p(x) * Width = (IF x = "xc" THEN Width ELSE IF x = "yc" THEN 6 * Width ELSE 17 * Width)
    BY <1>0
  <2> HIDE DEF p
  <2> DEFINE v(x) == IF x = "xc" THEN Width ELSE IF x = "yc" THEN 6 * Width ELSE 17 * Width
  <2>3. \A x \in Arrays : Order(a, Posting(a, s, d, x)) = v(x) + 6 * d /\ Order(a, Awaiting(a, s, x)) = v(x) + 6 * s
    BY <2>1, <2>2
  <2>4. v(b) \in Int /\ v(e) \in Int
    BY <1>0
  <2> HIDE DEF v
  <2> QED
    BY <1>0, <2>3, <2>4
<1>2. CASE ~Early(a) /\ Manual(a)
  <2>1. Block(b) \in Int /\ Block(e) \in Int
    BY BlockFacts DEF Arrays
  <2>2. /\ Order(a, Posting(a, s, d, b)) = 18 * Width + 6 * d + 2 * Block(b)
        /\ Order(a, Posting(a, s, d, e)) = 18 * Width + 6 * d + 2 * Block(e)
        /\ Order(a, Awaiting(a, s, b)) = 18 * Width + 6 * s + 2 * Block(b)
        /\ Order(a, Awaiting(a, s, e)) = 18 * Width + 6 * s + 2 * Block(e)
    BY <1>2, ArrayOrders
  <2> QED
    BY <1>0, <2>1, <2>2
<1>3. CASE ~Early(a) /\ ~Manual(a)
  <2>1. PICK v \in Int, w \in Int : v = (19 + Block(b)) * Width /\ w = (19 + Block(e)) * Width
    BY <1>0, BlockFacts DEF Arrays
  <2>2. /\ Order(a, Posting(a, s, d, b)) = v + 6 * d
        /\ Order(a, Posting(a, s, d, e)) = w + 6 * d
        /\ Order(a, Awaiting(a, s, b)) = v + 6 * s
        /\ Order(a, Awaiting(a, s, e)) = w + 6 * s
    BY <1>3, <2>1, ArrayOrders
  <2> QED
    BY <1>0, <2>1, <2>2
<1> QED
  BY <1>1, <1>2, <1>3

\* Two messages from one rank to another with the same tag are received in the order they
\* are sent in, though tag 123 is used for an edge and for a block.
Agree(a, s, d, b, e) ==
    Order(a, Posting(a, s, d, b)) < Order(a, Posting(a, s, d, e))
      <=> Order(a, Awaiting(a, s, b)) < Order(a, Awaiting(a, s, e))

\* An edge with the tag of a block is sent and received before the block.
LEMMA EdgeThenArray ==
    ASSUME NEW a, NEW s \in Rank, NEW d \in Rank, NEW b \in Arrays, s = 1, Tag(a, s, "first") = Tag(a, s, b)
    PROVE  /\ Order(a, Posting(a, s, d, "first")) < Order(a, Posting(a, s, d, b))
           /\ Order(a, Awaiting(a, s, "first")) < Order(a, Awaiting(a, s, b))
<1>0. Width \in Int /\ Width >= 6 /\ d \in Int /\ d >= 0 /\ s \in Int
  BY Widths, RankFacts
<1>1. ~NonBlocking(a)
  BY DEF Tag, Early, Arrays, XC_TAG, YC_TAG
<1>2. ~Early(a)
  BY <1>1 DEF Early
<1>3. /\ Order(a, Posting(a, s, d, "first")) = 8 * Width
      /\ Order(a, Awaiting(a, s, "first")) = 14 * Width
  BY <1>1, Orders
<1>4. Block(b) \in {0, 1, 2}
  BY BlockFacts DEF Arrays
<1>5. PICK w \in Int : w = (19 + Block(b)) * Width /\ w >= 18 * Width
  BY <1>0, <1>4
<1>6. /\ Order(a, Posting(a, s, d, b)) = IF Manual(a) THEN 18 * Width + 6 * d + 2 * Block(b) ELSE w + 6 * d
      /\ Order(a, Awaiting(a, s, b)) = IF Manual(a) THEN 18 * Width + 6 * s + 2 * Block(b) ELSE w + 6 * s
  BY <1>2, <1>5, ArrayOrders
<1> QED
  BY <1>0, <1>3, <1>4, <1>5, <1>6

\* Messages with the same tag are sent and received in the same order.
LEMMA SameTag ==
    ASSUME NEW a, NEW s \in Rank, NEW d \in Rank, NEW b \in SendBufs, NEW e \in SendBufs,
           Sends(s, d, b), Sends(s, d, e), b # e, Tag(a, s, b) = Tag(a, s, e)
    PROVE  Agree(a, s, d, b, e)
<1>0. /\ b \in Arrays \union {"first", "time"} /\ e \in Arrays \union {"first", "time"}
      /\ d = Root /\ s # Root
      /\ b = "first" \/ e = "first" => s = 1
  BY SameReceiver
<1>1. s \in Int /\ s >= 1
  BY <1>0, RankFacts
<1>2. \A x \in Arrays \union {"first"} : Tag(a, s, x) # Tag(a, s, "time")
  BY <1>1 DEF Tag, Arrays, XC_TAG, YC_TAG
<1>3. b \in Arrays \union {"first"} /\ e \in Arrays \union {"first"}
  <2>1. b # "time"
    BY <1>0, <1>2
  <2>2. e # "time"
    BY <1>0, <1>2
  <2> QED
    BY <1>0, <2>1, <2>2
<1>4. CASE b \in Arrays /\ e \in Arrays
  BY <1>4, ArraysInOrder DEF Agree
<1>5. CASE b = "first" /\ e \in Arrays
  BY <1>0, <1>5, EdgeThenArray DEF Agree
<1>6. CASE e = "first" /\ b \in Arrays
  <2>1. /\ Order(a, Posting(a, s, d, "first")) < Order(a, Posting(a, s, d, b))
        /\ Order(a, Awaiting(a, s, "first")) < Order(a, Awaiting(a, s, b))
    BY <1>0, <1>6, EdgeThenArray
  <2>2. Posting(a, s, d, "first") \in Calls /\ Posting(a, s, d, b) \in Calls /\ Awaiting(a, s, "first") \in Calls /\ Awaiting(a, s, b) \in Calls
    BY <1>6, CallFacts
  <2>3. /\ Order(a, Posting(a, s, d, "first")) \in Int /\ Order(a, Posting(a, s, d, b)) \in Int
        /\ Order(a, Awaiting(a, s, "first")) \in Int /\ Order(a, Awaiting(a, s, b)) \in Int
    BY <2>2, OrderType
  <2> QED
    BY <1>6, <2>1, <2>3 DEF Agree
<1> QED
  BY <1>3, <1>4, <1>5, <1>6
----------------------------------------------------------------------------
(* The queues of the library.  *)

\* One element less.
LEMMA Removing ==
    ASSUME NEW S, NEW s \in Seq(S), NEW j \in 1 .. Len(s)
    PROVE  /\ RemoveAt(s, j) \in Seq(S)
           /\ Len(RemoveAt(s, j)) = Len(s) - 1
           /\ \A k \in 1 .. Len(s) - 1 : RemoveAt(s, j)[k] = s[IF k < j THEN k ELSE k + 1]
<1>1. PICK p, t : p = SubSeq(s, 1, j - 1) /\ t = SubSeq(s, j + 1, Len(s))
  OBVIOUS
<1>2. p \in Seq(S) /\ Len(p) = j - 1 /\ \A k \in 1 .. j - 1 : p[k] = s[k]
  BY <1>1
<1>3. t \in Seq(S) /\ Len(t) = Len(s) - j /\ \A k \in 1 .. Len(s) - j : t[k] = s[j + k]
  BY <1>1
<1>4. RemoveAt(s, j) = p \o t
  BY <1>1 DEF RemoveAt
<1>5. Len(s) \in Nat /\ j \in Nat /\ 1 <= j /\ j <= Len(s)
  OBVIOUS
<1>6. /\ p \o t \in Seq(S) /\ Len(p \o t) = Len(s) - 1
      /\ \A k \in 1 .. j - 1 : (p \o t)[k] = s[k]
      /\ \A k \in 1 .. Len(s) - j : (p \o t)[(j - 1) + k] = s[j + k]
  <2>1. /\ p \o t \in Seq(S) /\ Len(p \o t) = Len(p) + Len(t)
        /\ \A k \in 1 .. Len(p) : (p \o t)[k] = p[k]
        /\ \A k \in 1 .. Len(t) : (p \o t)[Len(p) + k] = t[k]
    <3>1. p \in Seq(S) /\ t \in Seq(S)
      BY <1>2, <1>3
    <3> QED
      BY <3>1, Joining
  <2> QED
    BY <1>2, <1>3, <1>5, <2>1
<1>7. ASSUME NEW k \in 1 .. Len(s) - 1
      PROVE  (p \o t)[k] = s[IF k < j THEN k ELSE k + 1]
  <2>1. CASE k < j
    BY <1>5, <1>6, <2>1
  <2>2. CASE ~(k < j)
    <3>1. PICK l \in Int : l = k - (j - 1)
      BY <1>5
    <3>2. l \in 1 .. Len(s) - j /\ (j - 1) + l = k /\ j + l = k + 1
      BY <1>5, <2>2, <3>1
    <3> QED
      BY <1>6, <2>2, <3>2
  <2> QED
    BY <2>1, <2>2
<1> QED
  BY <1>4, <1>6, <1>7

\* One element more.
LEMMA Appending ==
    ASSUME NEW S, NEW s \in Seq(S), NEW x \in S
    PROVE  /\ Append(s, x) \in Seq(S) /\ Len(s) \in Nat
           /\ DOMAIN s = 1 .. Len(s) /\ DOMAIN Append(s, x) = 1 .. Len(s) + 1
           /\ \A k \in 1 .. Len(s) : Append(s, x)[k] = s[k]
           /\ Append(s, x)[Len(s) + 1] = x
  OBVIOUS

Message == [tag : Int, from : SendBufs, copied : BOOLEAN, data : Seq(Value)]
Receive == [tag : Int, into : RecvBufs]

QueuesTyped ==
    /\ sends \in [Rank \X Rank -> Seq(Message)]
    /\ recvs \in [Rank \X Rank -> Seq(Receive)]

\* Buffer b of s is queued for d; d has a receive for it that waits.
Queued(s, d, b) == \E k \in DOMAIN sends[<<s, d>>] : sends[<<s, d>>][k].from = b
Waited(s, d, b) == \E k \in DOMAIN recvs[<<s, d>>] : recvs[<<s, d>>][k].into = Into(b)

\* The messages of s to d are queued in the order they were sent in, with their tags.
SendsKept(s, d) ==
    /\ \A k \in DOMAIN sends[<<s, d>>] :
         LET b == sends[<<s, d>>][k].from
         IN  Sends(s, d, b) /\ sends[<<s, d>>][k].tag = Tag(arg, s, b) /\ Did(s, Posting(arg, s, d, b))
    /\ \A k, l \in DOMAIN sends[<<s, d>>] : k < l =>
         Order(arg, Posting(arg, s, d, sends[<<s, d>>][k].from))
           < Order(arg, Posting(arg, s, d, sends[<<s, d>>][l].from))

\* So are the receives of d for s.
RecvsKept(s, d) ==
    /\ \A k \in DOMAIN recvs[<<s, d>>] : \E b \in SendBufs :
         /\ Sends(s, d, b) /\ Did(d, Awaiting(arg, s, b))
         /\ recvs[<<s, d>>][k].tag = Tag(arg, s, b) /\ recvs[<<s, d>>][k].into = Into(b)
    /\ \A k, l \in DOMAIN recvs[<<s, d>>], b, e \in SendBufs :
         k < l /\ recvs[<<s, d>>][k].into = Into(b) /\ recvs[<<s, d>>][l].into = Into(e)
           => Order(arg, Awaiting(arg, s, b)) < Order(arg, Awaiting(arg, s, e))

\* A message that was sent has left its queue when a receive for it has.
Met(s, d) ==
    \A b \in SendBufs : Sends(s, d, b) =>
        ((Did(s, Posting(arg, s, d, b)) /\ ~Queued(s, d, b))
          <=> (Did(d, Awaiting(arg, s, b)) /\ ~Waited(s, d, b)))

\* A wait ended when its message was read or received.
Waits(s, d) ==
    \A b \in SendBufs : Sends(s, d, b) =>
        /\ WaitsForSend(arg, b) /\ Did(s, Posted(d, b)) => SendDone(s, d, b)
        /\ WaitsForRecv(arg, b) /\ Did(d, Received(s, b)) => ~Waited(s, d, b)

Channel(s, d) == SendsKept(s, d) /\ RecvsKept(s, d) /\ Met(s, d) /\ Waits(s, d)
Channels == \A s, d \in Rank : Channel(s, d)

\* A channel without a message in a step that makes no call.
LEMMA ChannelStays ==
    ASSUME arg' = arg, pc' = pc, NEW s \in Rank, NEW d \in Rank, Channel(s, d),
           sends'[<<s, d>>] = sends[<<s, d>>], recvs'[<<s, d>>] = recvs[<<s, d>>]
    PROVE  Channel(s, d)'
<1>1. \A x \in Rank : \A e : Did(x, e)' <=> Did(x, e)
  BY Stays
<1>2. \A b : (Queued(s, d, b)' <=> Queued(s, d, b)) /\ (Waited(s, d, b)' <=> Waited(s, d, b))
             /\ (SendDone(s, d, b)' <=> SendDone(s, d, b))
  BY DEF Queued, Waited, SendDone
<1>3. SendsKept(s, d)'
  BY <1>1 DEF Channel, SendsKept
<1>4. RecvsKept(s, d)'
  BY <1>1 DEF Channel, RecvsKept
<1>5. Met(s, d)'
  BY <1>1, <1>2 DEF Channel, Met
<1>6. Waits(s, d)'
  BY <1>1, <1>2 DEF Channel, Waits
<1> QED
  BY <1>3, <1>4, <1>5, <1>6 DEF Channel

\* A call that changes nothing of a channel.
Apart(r, c, s, d) ==
    \A b \in SendBufs : Sends(s, d, b) =>
        /\ ~(s = r /\ c = Posting(arg, s, d, b))
        /\ ~(d = r /\ c = Awaiting(arg, s, b))
        /\ s = r /\ c = Posted(d, b) => SendDone(s, d, b)
        /\ d = r /\ c = Received(s, b) => ~Waited(s, d, b)

\* A call that is for another channel keeps this one as it is.
LEMMA ChannelApart ==
    ASSUME arg' = arg, NEW r \in Rank, NEW c, Makes(r, c), NEW s \in Rank, NEW d \in Rank, Channel(s, d),
           sends'[<<s, d>>] = sends[<<s, d>>], recvs'[<<s, d>>] = recvs[<<s, d>>], Apart(r, c, s, d)
    PROVE  Channel(s, d)'
<1>1. \A x \in Rank : \A e : Did(x, e)' <=> Did(x, e) \/ (x = r /\ e = c)
  BY DEF Makes
<1>2. \A b : (Queued(s, d, b)' <=> Queued(s, d, b)) /\ (Waited(s, d, b)' <=> Waited(s, d, b))
             /\ (SendDone(s, d, b)' <=> SendDone(s, d, b))
  BY DEF Queued, Waited, SendDone
<1>3. SendsKept(s, d)'
  BY <1>1 DEF Channel, SendsKept
<1>4. RecvsKept(s, d)'
  BY <1>1 DEF Channel, RecvsKept
<1>5. Met(s, d)'
  BY <1>1, <1>2 DEF Channel, Met, Apart
<1>6. Waits(s, d)'
  BY <1>1, <1>2 DEF Channel, Waits, Apart
<1> QED
  BY <1>3, <1>4, <1>5, <1>6 DEF Channel

\* Rank r is at the call c and makes it.
TurnAt(r, c) ==
    /\ c \in ProgramCalls(arg, r) /\ ~Did(r, c)
    /\ \A e \in ProgramCalls(arg, r) : Did(r, e) <=> Order(arg, e) < Order(arg, c)
    /\ Makes(r, c)

\* A message is queued.
LEMMA ChannelSend ==
    ASSUME arg \in Arguments, arg' = arg, NEW s \in Rank, NEW d \in Rank, NEW b \in SendBufs, Sends(s, d, b),
           TurnAt(s, Posting(arg, s, d, b)), Channel(s, d),
           NEW u \in Message, u.from = b, u.tag = Tag(arg, s, b),
           sends[<<s, d>>] \in Seq(Message),
           sends'[<<s, d>>] = Append(sends[<<s, d>>], u), recvs'[<<s, d>>] = recvs[<<s, d>>]
    PROVE  Channel(s, d)'
<1> DEFINE P(e) == Posting(arg, s, d, e)
<1>1. PICK z \in Seq(Message) : z = sends[<<s, d>>]
  OBVIOUS
<1>2. PICK t : t = sends'[<<s, d>>] /\ t = Append(z, u)
  BY <1>1
<1>3. PICK n : n = Len(z)
  OBVIOUS
<1>b. \A k \in 1 .. Len(z) : z[k] \in Message
  OBVIOUS
<1>4. /\ DOMAIN z = 1 .. n /\ DOMAIN t = 1 .. n + 1 /\ n \in Nat
      /\ \A k \in 1 .. n : t[k] = z[k] /\ z[k].from \in SendBufs
      /\ t[n + 1] = u
  BY <1>2, <1>3, <1>b, Appending DEF Message
<1>5. s # d
  BY RankFacts DEF Sends
<1>6. /\ \A e : Did(s, e)' <=> Did(s, e) \/ e = P(b)
      /\ \A x \in Rank : \A e : x # s => (Did(x, e)' <=> Did(x, e))
  BY DEF TurnAt, Makes
<1>7. /\ \A k \in 1 .. n : Sends(s, d, z[k].from) /\ z[k].tag = Tag(arg, s, z[k].from) /\ Did(s, P(z[k].from))
      /\ \A k, l \in 1 .. n : k < l => Order(arg, P(z[k].from)) < Order(arg, P(z[l].from))
  BY <1>1, <1>4 DEF Channel, SendsKept
<1>8. \A k \in 1 .. n : z[k].from # b
  BY <1>7 DEF TurnAt
<1>9. SendsKept(s, d)'
  <2>1. \A k \in 1 .. n + 1 : k \in 1 .. n \/ k = n + 1
    BY <1>4
  <2>2. ASSUME NEW k \in 1 .. n + 1
        PROVE  Sends(s, d, t[k].from) /\ t[k].tag = Tag(arg, s, t[k].from) /\ Did(s, P(t[k].from))'
    <3>1. CASE k \in 1 .. n
      BY <1>4, <1>6, <1>7, <3>1
    <3>2. CASE k = n + 1
      BY <1>4, <1>6, <3>2
    <3> QED
      BY <2>1, <3>1, <3>2
  <2>3. ASSUME NEW k \in 1 .. n + 1, NEW l \in 1 .. n + 1, k < l
        PROVE  Order(arg, P(t[k].from)) < Order(arg, P(t[l].from))
    <3>1. k \in 1 .. n
      BY <1>4, <2>3
    <3>2. CASE l \in 1 .. n
      BY <1>4, <1>7, <2>3, <3>1, <3>2
    <3>3. CASE l = n + 1
      <4>1. P(z[k].from) \in ProgramCalls(arg, s)
        BY <1>4, <1>7, <3>1, ProgramPosts
      <4>2. Order(arg, P(z[k].from)) < Order(arg, P(b))
        BY <1>7, <3>1, <4>1 DEF TurnAt
      <4> QED
        BY <1>4, <3>1, <3>3, <4>2
    <3> QED
      BY <2>1, <3>2, <3>3
  <2> QED
    BY <1>2, <1>4, <2>2, <2>3 DEF SendsKept
<1>10. RecvsKept(s, d)'
  BY <1>5, <1>6 DEF Channel, RecvsKept
<1>11. \A e \in SendBufs : Queued(s, d, e)' <=> Queued(s, d, e) \/ e = b
  <2>1. \A e : Queued(s, d, e) <=> \E k \in 1 .. n : z[k].from = e
    BY <1>1, <1>4 DEF Queued
  <2>2. \A e : Queued(s, d, e)' <=> \E k \in 1 .. n + 1 : t[k].from = e
    BY <1>2, <1>4 DEF Queued
  <2>3. \A k \in 1 .. n + 1 : k \in 1 .. n \/ k = n + 1
    BY <1>4
  <2>4. n + 1 \in 1 .. n + 1 /\ \A k \in 1 .. n : k \in 1 .. n + 1
    BY <1>4
  <2> QED
    BY <1>4, <2>1, <2>2, <2>3, <2>4
<1>12. Met(s, d)'
  <2> SUFFICES ASSUME NEW e \in SendBufs, Sends(s, d, e)
               PROVE  (Did(s, Posting(arg, s, d, e))' /\ ~Queued(s, d, e)')
                        <=> (Did(d, Awaiting(arg, s, e))' /\ ~Waited(s, d, e)')
    BY DEF Met
  <2>1. Did(d, Awaiting(arg, s, e))' <=> Did(d, Awaiting(arg, s, e))
    BY <1>5, <1>6
  <2>2. Waited(s, d, e)' <=> Waited(s, d, e)
    BY DEF Waited
  <2>3. (Did(s, P(e)) /\ ~Queued(s, d, e)) <=> (Did(d, Awaiting(arg, s, e)) /\ ~Waited(s, d, e))
    BY DEF Channel, Met
  <2>4. CASE e = b
    BY <1>11, <2>1, <2>2, <2>3, <2>4 DEF TurnAt
  <2>5. CASE e # b
    <3>1. P(e) # P(b)
      BY <2>5, PostingApart
    <3> QED
      BY <1>6, <1>11, <2>1, <2>2, <2>3, <2>5, <3>1
  <2> QED
    BY <2>4, <2>5
<1>13. Waits(s, d)'
  <2> SUFFICES ASSUME NEW e \in SendBufs, Sends(s, d, e)
               PROVE  /\ WaitsForSend(arg, e) /\ Did(s, Posted(d, e))' => SendDone(s, d, e)'
                      /\ WaitsForRecv(arg, e) /\ Did(d, Received(s, e))' => ~Waited(s, d, e)'
    BY DEF Waits
  <2>1. Did(d, Received(s, e))' <=> Did(d, Received(s, e))
    BY <1>5, <1>6
  <2>2. Waited(s, d, e)' <=> Waited(s, d, e)
    BY DEF Waited
  <2>3. Posted(d, e) # P(b)
    BY DEF Posted, Posting, CallOf
  <2>4. Did(s, Posted(d, e))' <=> Did(s, Posted(d, e))
    BY <1>6, <2>3
  <2>5. ASSUME WaitsForSend(arg, e), Did(s, Posted(d, e))
        PROVE  SendDone(s, d, e)'
    <3>1. SendDone(s, d, e)
      BY <2>5 DEF Channel, Waits
    <3>2. e # b
      <4>1. SUFFICES ASSUME e = b
                     PROVE  FALSE
        OBVIOUS
      <4>2. Posted(d, b) \in ProgramCalls(arg, s) /\ P(b) \in ProgramCalls(arg, s)
        BY <2>5, <4>1, ProgramPosts
      <4>3. Order(arg, Posted(d, b)) < Order(arg, P(b))
        BY <2>5, <4>1, <4>2 DEF TurnAt
      <4>4. Order(arg, P(b)) < Order(arg, Posted(d, b))
        BY <2>5, <4>1, SendWaitsAfter
      <4>5. Order(arg, P(b)) \in Int /\ Order(arg, Posted(d, b)) \in Int
        BY <4>2, CallsTyped
      <4> QED
        BY <4>3, <4>4, <4>5
    <3>3. \A k \in 1 .. n : z[k].from = e => z[k].copied
      BY <1>1, <1>4, <3>1 DEF SendDone
    <3>4. \A k \in 1 .. n + 1 : k \in 1 .. n \/ k = n + 1
      BY <1>4
    <3>5. \A k \in 1 .. n + 1 : t[k].from = e => t[k].copied
      BY <1>4, <3>2, <3>3, <3>4
    <3> QED
      BY <1>2, <1>4, <3>5 DEF SendDone
  <2>6. WaitsForRecv(arg, e) /\ Did(d, Received(s, e)) => ~Waited(s, d, e)
    BY DEF Channel, Waits
  <2> QED
    BY <2>1, <2>2, <2>4, <2>5, <2>6
<1> QED
  BY <1>9, <1>10, <1>12, <1>13 DEF Channel

\* A receive is queued.
LEMMA ChannelRecv ==
    ASSUME arg \in Arguments, arg' = arg, NEW s \in Rank, NEW d \in Rank, NEW b \in SendBufs, Sends(s, d, b),
           TurnAt(d, Awaiting(arg, s, b)), Channel(s, d),
           recvs[<<s, d>>] \in Seq(Receive), NEW u \in Receive, u.into = Into(b), u.tag = Tag(arg, s, b),
           recvs'[<<s, d>>] = Append(recvs[<<s, d>>], u), sends'[<<s, d>>] = sends[<<s, d>>]
    PROVE  /\ Channel(s, d)'
           /\ \A e \in SendBufs : Waited(s, d, e)' <=> Waited(s, d, e) \/ e = b
<1> DEFINE A(e) == Awaiting(arg, s, e)
<1>1. PICK z \in Seq(Receive) : z = recvs[<<s, d>>]
  OBVIOUS
<1>2. PICK t : t = recvs'[<<s, d>>] /\ t = Append(z, u)
  BY <1>1
<1>3. PICK n : n = Len(z)
  OBVIOUS
<1>4. /\ DOMAIN z = 1 .. n /\ DOMAIN t = 1 .. n + 1 /\ n \in Nat
      /\ \A k \in 1 .. n : t[k] = z[k]
      /\ t[n + 1] = u
  BY <1>2, <1>3, Appending
<1>5. s # d
  BY RankFacts DEF Sends
<1>6. /\ \A e : Did(d, e)' <=> Did(d, e) \/ e = A(b)
      /\ \A x \in Rank : \A e : x # d => (Did(x, e)' <=> Did(x, e))
  BY DEF TurnAt, Makes
<1>7. /\ \A k \in 1 .. n : \E e \in SendBufs :
           Sends(s, d, e) /\ Did(d, A(e)) /\ z[k].tag = Tag(arg, s, e) /\ z[k].into = Into(e)
      /\ \A k, l \in 1 .. n, x, e \in SendBufs :
           k < l /\ z[k].into = Into(x) /\ z[l].into = Into(e) => Order(arg, A(x)) < Order(arg, A(e))
  BY <1>1, <1>4 DEF Channel, RecvsKept
<1>8. \A x, e \in SendBufs : Into(x) = Into(e) => x = e
  BY IntoFacts
<1>a. \A k \in 1 .. n + 1 : k \in 1 .. n \/ k = n + 1
  BY <1>4
<1>9. RecvsKept(s, d)'
  <2>2. ASSUME NEW k \in 1 .. n + 1
        PROVE  \E e \in SendBufs : Sends(s, d, e) /\ Did(d, A(e))' /\ t[k].tag = Tag(arg, s, e) /\ t[k].into = Into(e)
    <3>1. CASE k \in 1 .. n
      BY <1>4, <1>6, <1>7, <3>1
    <3>2. CASE k = n + 1
      BY <1>4, <1>6, <3>2
    <3> QED
      BY <1>a, <3>1, <3>2
  <2>3. ASSUME NEW k \in 1 .. n + 1, NEW l \in 1 .. n + 1, NEW x \in SendBufs, NEW e \in SendBufs,
               k < l, t[k].into = Into(x), t[l].into = Into(e)
        PROVE  Order(arg, A(x)) < Order(arg, A(e))
    <3>1. k \in 1 .. n
      BY <1>4, <2>3
    <3>2. CASE l \in 1 .. n
      BY <1>4, <1>7, <2>3, <3>1, <3>2
    <3>3. CASE l = n + 1
      <4>1. e = b
        BY <1>4, <1>8, <2>3, <3>3
      <4>2. Sends(s, d, x) /\ Did(d, A(x))
        <5>1. PICK y \in SendBufs : Sends(s, d, y) /\ Did(d, A(y)) /\ z[k].into = Into(y)
          BY <1>7, <3>1
        <5>2. x = y
          BY <1>4, <1>8, <2>3, <3>1, <5>1
        <5> QED
          BY <5>1, <5>2
      <4>3. A(x) \in ProgramCalls(arg, d)
        BY <4>2, ProgramAwaits
      <4> QED
        BY <4>1, <4>2, <4>3 DEF TurnAt
    <3> QED
      BY <1>a, <3>2, <3>3
  <2> QED
    BY <1>2, <1>4, <2>2, <2>3 DEF RecvsKept
<1>10. SendsKept(s, d)'
  BY <1>5, <1>6 DEF Channel, SendsKept
<1>11. \A e \in SendBufs : Waited(s, d, e)' <=> Waited(s, d, e) \/ e = b
  <2>1. \A e : Waited(s, d, e) <=> \E k \in 1 .. n : z[k].into = Into(e)
    BY <1>1, <1>4 DEF Waited
  <2>2. \A e : Waited(s, d, e)' <=> \E k \in 1 .. n + 1 : t[k].into = Into(e)
    BY <1>2, <1>4 DEF Waited
  <2>4. n + 1 \in 1 .. n + 1 /\ \A k \in 1 .. n : k \in 1 .. n + 1
    BY <1>4
  <2> QED
    BY <1>4, <1>8, <1>a, <2>1, <2>2, <2>4
<1>12. Met(s, d)'
  <2> SUFFICES ASSUME NEW e \in SendBufs, Sends(s, d, e)
               PROVE  (Did(s, Posting(arg, s, d, e))' /\ ~Queued(s, d, e)')
                        <=> (Did(d, Awaiting(arg, s, e))' /\ ~Waited(s, d, e)')
    BY DEF Met
  <2>1. Did(s, Posting(arg, s, d, e))' <=> Did(s, Posting(arg, s, d, e))
    BY <1>5, <1>6
  <2>2. Queued(s, d, e)' <=> Queued(s, d, e)
    BY DEF Queued
  <2>3. (Did(s, Posting(arg, s, d, e)) /\ ~Queued(s, d, e)) <=> (Did(d, A(e)) /\ ~Waited(s, d, e))
    BY DEF Channel, Met
  <2>4. CASE e = b
    BY <1>11, <2>1, <2>2, <2>3, <2>4 DEF TurnAt
  <2>5. CASE e # b
    <3>1. A(e) # A(b)
      BY <2>5, AwaitingApart
    <3> QED
      BY <1>6, <1>11, <2>1, <2>2, <2>3, <2>5, <3>1
  <2> QED
    BY <2>4, <2>5
<1>13. Waits(s, d)'
  <2> SUFFICES ASSUME NEW e \in SendBufs, Sends(s, d, e)
               PROVE  /\ WaitsForSend(arg, e) /\ Did(s, Posted(d, e))' => SendDone(s, d, e)'
                      /\ WaitsForRecv(arg, e) /\ Did(d, Received(s, e))' => ~Waited(s, d, e)'
    BY DEF Waits
  <2>1. Did(s, Posted(d, e))' <=> Did(s, Posted(d, e))
    BY <1>5, <1>6
  <2>2. SendDone(s, d, e)' <=> SendDone(s, d, e)
    BY DEF SendDone
  <2>3. Received(s, e) # A(b)
    BY DEF Received, Awaiting, CallOf
  <2>4. Did(d, Received(s, e))' <=> Did(d, Received(s, e))
    BY <1>6, <2>3
  <2>5. ASSUME WaitsForRecv(arg, e), Did(d, Received(s, e))
        PROVE  ~Waited(s, d, e)'
    <3>1. ~Waited(s, d, e)
      BY <2>5 DEF Channel, Waits
    <3>2. e # b
      <4>1. SUFFICES ASSUME e = b
                     PROVE  FALSE
        OBVIOUS
      <4>2. Received(s, b) \in ProgramCalls(arg, d) /\ A(b) \in ProgramCalls(arg, d)
        BY <2>5, <4>1, ProgramAwaits
      <4>3. Order(arg, Received(s, b)) < Order(arg, A(b))
        BY <2>5, <4>1, <4>2 DEF TurnAt
      <4>4. Order(arg, A(b)) < Order(arg, Received(s, b))
        BY <2>5, <4>1, RecvWaitsAfter
      <4>5. Order(arg, A(b)) \in Int /\ Order(arg, Received(s, b)) \in Int
        BY <4>2, CallsTyped
      <4> QED
        BY <4>3, <4>4, <4>5
    <3> QED
      BY <1>11, <3>1, <3>2
  <2>6. WaitsForSend(arg, e) /\ Did(s, Posted(d, e)) => SendDone(s, d, e)
    BY DEF Channel, Waits
  <2> QED
    BY <2>1, <2>2, <2>4, <2>5, <2>6
<1>14. Channel(s, d)'
  BY <1>9, <1>10, <1>12, <1>13 DEF Channel
<1> QED
  BY <1>11, <1>14

\* The first send and the first receive with a tag.
LEMMA MatchFirst ==
    ASSUME QueuesTyped, NEW s \in Rank, NEW d \in Rank,
           NEW j \in DOMAIN sends[<<s, d>>], NEW k \in DOMAIN recvs[<<s, d>>], Match(s, d, j, k)
    PROVE  /\ sends[<<s, d>>][j].tag = recvs[<<s, d>>][k].tag
           /\ \A l \in 1 .. Len(sends[<<s, d>>]) : l < j => sends[<<s, d>>][l].tag # recvs[<<s, d>>][k].tag
           /\ \A l \in 1 .. Len(recvs[<<s, d>>]) : l < k => recvs[<<s, d>>][l].tag # recvs[<<s, d>>][k].tag
<1> DEFINE tag == recvs[<<s, d>>][k].tag
           I == {l \in 1 .. Len(sends[<<s, d>>]) : sends[<<s, d>>][l].tag = tag}
           J == {l \in 1 .. Len(recvs[<<s, d>>]) : recvs[<<s, d>>][l].tag = tag}
<1>1. j = (IF I # {} THEN Min(I) ELSE 0) /\ k = (IF J # {} THEN Min(J) ELSE 0)
  BY DEF Match, SelectInSeq
<1>2. sends[<<s, d>>] \in Seq(Message) /\ recvs[<<s, d>>] \in Seq(Receive)
  BY DEF QueuesTyped
<1>3. /\ DOMAIN sends[<<s, d>>] = 1 .. Len(sends[<<s, d>>]) /\ DOMAIN recvs[<<s, d>>] = 1 .. Len(recvs[<<s, d>>])
      /\ I \in SUBSET Nat /\ J \in SUBSET Nat /\ j # 0 /\ k # 0
  BY <1>2
<1>4. ASSUME NEW S \in SUBSET Nat, NEW l, l # 0, l = IF S # {} THEN Min(S) ELSE 0
      PROVE  l \in S /\ \A x \in S : l <= x
  <2>1. S # {}
    BY <1>4
  <2>2. Min(S) \in S /\ \A x \in S : Min(S) <= x
    BY <2>1, LeastNatural
  <2> QED
    BY <1>4, <2>1, <2>2
<1>5. j \in I /\ (\A x \in I : j <= x) /\ k \in J /\ \A x \in J : k <= x
  <2> HIDE DEF I, J
  <2>1. PICK p, r : p = j /\ r = k
    OBVIOUS
  <2>2. p = (IF I # {} THEN Min(I) ELSE 0) /\ r = (IF J # {} THEN Min(J) ELSE 0) /\ p # 0 /\ r # 0
    BY <1>1, <1>3, <2>1
  <2>3. p \in I /\ \A x \in I : p <= x
    BY <1>3, <1>4, <2>2
  <2>4. r \in J /\ \A x \in J : r <= x
    BY <1>3, <1>4, <2>2
  <2> QED
    BY <2>1, <2>3, <2>4
<1>6. Len(sends[<<s, d>>]) \in Nat /\ Len(recvs[<<s, d>>]) \in Nat /\ j \in Nat /\ k \in Nat
  BY <1>2, <1>3
<1>7. sends[<<s, d>>][j].tag = tag
  BY <1>5
<1>8. \A l \in 1 .. Len(sends[<<s, d>>]) : l < j => sends[<<s, d>>][l].tag # tag
  <2> SUFFICES ASSUME NEW l \in 1 .. Len(sends[<<s, d>>]), l < j, sends[<<s, d>>][l].tag = tag
               PROVE  FALSE
    OBVIOUS
  <2>1. l \in I
    OBVIOUS
  <2>2. j <= l
    BY <1>5, <2>1
  <2> QED
    BY <1>6, <2>2
<1>9. \A l \in 1 .. Len(recvs[<<s, d>>]) : l < k => recvs[<<s, d>>][l].tag # tag
  <2> SUFFICES ASSUME NEW l \in 1 .. Len(recvs[<<s, d>>]), l < k, recvs[<<s, d>>][l].tag = tag
               PROVE  FALSE
    OBVIOUS
  <2>1. l \in J
    OBVIOUS
  <2>2. k <= l
    BY <1>5, <2>1
  <2> QED
    BY <1>6, <2>2
<1> QED
  BY <1>7, <1>8, <1>9

\* A receive takes the message it is for.
LEMMA Matching ==
    ASSUME Running, NEW s \in Rank, NEW d \in Rank, Channel(s, d), QueuesTyped,
           NEW j \in DOMAIN sends[<<s, d>>], NEW k \in DOMAIN recvs[<<s, d>>], Match(s, d, j, k)
    PROVE  recvs[<<s, d>>][k].into = Into(sends[<<s, d>>][j].from)
<1> DEFINE P(e) == Posting(arg, s, d, e)
           A(e) == Awaiting(arg, s, e)
<1>0. arg \in Arguments
  BY DEF Running
<1>1. sends[<<s, d>>] \in Seq(Message) /\ recvs[<<s, d>>] \in Seq(Receive)
  BY DEF QueuesTyped
<1>2. PICK x \in Seq(Message), y \in Seq(Receive) : x = sends[<<s, d>>] /\ y = recvs[<<s, d>>]
  BY <1>1
<1>3. PICK tag : tag = y[k].tag
  OBVIOUS
<1>5. x[j].tag = tag /\ \A l \in 1 .. Len(x) : l < j => x[l].tag # tag
  BY <1>2, <1>3, MatchFirst
<1>6. \A l \in 1 .. Len(y) : l < k => y[l].tag # tag
  BY <1>2, <1>3, MatchFirst
<1>7. j \in 1 .. Len(x) /\ k \in 1 .. Len(y) /\ Len(x) \in Nat /\ Len(y) \in Nat
      /\ DOMAIN x = 1 .. Len(x) /\ DOMAIN y = 1 .. Len(y)
  BY <1>2
<1>8. PICK b : b = x[j].from
  OBVIOUS
<1>9. b \in SendBufs
  <2>1. x[j] \in Message
    BY <1>7
  <2> QED
    BY <1>8, <2>1 DEF Message
<1>10. Sends(s, d, b) /\ Tag(arg, s, b) = tag /\ Did(s, P(b)) /\ Queued(s, d, b)
  <2>1. Sends(s, d, b) /\ x[j].tag = Tag(arg, s, b) /\ Did(s, P(b))
    BY <1>2, <1>7, <1>8 DEF Channel, SendsKept
  <2>2. Queued(s, d, b)
    BY <1>2, <1>7, <1>8 DEF Queued
  <2> QED
    BY <1>5, <2>1, <2>2
<1>11. PICK e \in SendBufs : Sends(s, d, e) /\ Did(d, A(e)) /\ y[k].tag = Tag(arg, s, e) /\ y[k].into = Into(e)
  BY <1>2, <1>7 DEF Channel, RecvsKept
<1>12. Waited(s, d, e) /\ Tag(arg, s, e) = tag
  BY <1>2, <1>3, <1>7, <1>11 DEF Waited
<1>13. SUFFICES b = e
  BY <1>2, <1>8, <1>11
<1>14. SUFFICES ASSUME b # e
                PROVE  FALSE
  OBVIOUS
<1>15. Agree(arg, s, d, b, e)
  BY <1>9, <1>10, <1>11, <1>12, <1>14, SameTag
<1>16. /\ P(b) \in ProgramCalls(arg, s) /\ P(e) \in ProgramCalls(arg, s)
       /\ A(b) \in ProgramCalls(arg, d) /\ A(e) \in ProgramCalls(arg, d)
  BY <1>9, <1>10, <1>11, ProgramPosts, ProgramAwaits
<1>17. /\ Order(arg, P(b)) \in Int /\ Order(arg, P(e)) \in Int
       /\ Order(arg, A(b)) \in Int /\ Order(arg, A(e)) \in Int
  BY <1>0, <1>16, CallsTyped
<1>18. Order(arg, P(b)) # Order(arg, P(e)) /\ Order(arg, A(b)) # Order(arg, A(e))
  <2>1. P(b) # P(e)
    BY <1>14, PostingApart
  <2>2. A(b) # A(e)
    BY <1>9, <1>14, AwaitingApart
  <2> QED
    BY <1>0, <1>16, <2>1, <2>2, OrdersApart
<1>19. CASE Order(arg, P(b)) < Order(arg, P(e))
  <2>1. Order(arg, A(b)) < Order(arg, A(e))
    BY <1>15, <1>19 DEF Agree
  <2>2. Did(d, A(b))
    BY <1>11, <1>16, <2>1, DidBefore
  <2>3. Waited(s, d, b)
    BY <1>9, <1>10, <2>2 DEF Channel, Met
  <2>4. PICK l \in 1 .. Len(y) : y[l].into = Into(b)
    BY <1>2, <1>7, <2>3 DEF Waited
  <2>5. y[l].tag = tag
    <3>1. PICK g \in SendBufs : y[l].tag = Tag(arg, s, g) /\ y[l].into = Into(g)
      BY <1>2, <1>7 DEF Channel, RecvsKept
    <3>2. g = b
      BY <1>9, <2>4, <3>1, IntoFacts
    <3> QED
      BY <1>10, <3>1, <3>2
  <2>6. ~(l < k)
    BY <1>6, <2>5
  <2>7. l # k
    BY <1>9, <1>11, <1>14, <2>4, IntoFacts
  <2>8. k < l
    BY <1>7, <2>6, <2>7
  <2>9. Order(arg, A(e)) < Order(arg, A(b))
    BY <1>2, <1>7, <1>9, <1>11, <2>4, <2>8 DEF Channel, RecvsKept
  <2> QED
    BY <1>17, <2>1, <2>9
<1>20. CASE Order(arg, P(e)) < Order(arg, P(b))
  <2>1. Order(arg, A(e)) < Order(arg, A(b))
    BY <1>15, <1>17, <1>18, <1>20 DEF Agree
  <2>2. Did(s, P(e))
    BY <1>10, <1>16, <1>20, DidBefore
  <2>3. Queued(s, d, e)
    BY <1>11, <1>12, <2>2 DEF Channel, Met
  <2>4. PICK l \in 1 .. Len(x) : x[l].from = e
    BY <1>2, <1>7, <2>3 DEF Queued
  <2>5. x[l].tag = tag
    BY <1>2, <1>7, <1>12, <2>4 DEF Channel, SendsKept
  <2>6. ~(l < j)
    BY <1>5, <2>5
  <2>7. l # j
    BY <1>8, <1>14, <2>4
  <2>8. j < l
    BY <1>7, <2>6, <2>7
  <2>9. Order(arg, P(b)) < Order(arg, P(e))
    BY <1>2, <1>7, <1>8, <2>4, <2>8 DEF Channel, SendsKept
  <2> QED
    BY <1>17, <1>20, <2>9
<1> QED
  BY <1>17, <1>18, <1>19, <1>20

\* A message meets its receive, and both leave their queues.
LEMMA ChannelMeet ==
    ASSUME Running, QueuesTyped, arg' = arg, pc' = pc, NEW s \in Rank, NEW d \in Rank, Channel(s, d),
           NEW j \in DOMAIN sends[<<s, d>>], NEW k \in DOMAIN recvs[<<s, d>>],
           recvs[<<s, d>>][k].into = Into(sends[<<s, d>>][j].from),
           sends'[<<s, d>>] = RemoveAt(sends[<<s, d>>], j),
           recvs'[<<s, d>>] = RemoveAt(recvs[<<s, d>>], k)
    PROVE  /\ Channel(s, d)'
           /\ Did(d, Awaiting(arg, s, sends[<<s, d>>][j].from))
           /\ \A e \in SendBufs : Waited(s, d, e)' <=> Waited(s, d, e) /\ e # sends[<<s, d>>][j].from
<1> DEFINE P(e) == Posting(arg, s, d, e)
           A(e) == Awaiting(arg, s, e)
           Up(l, n) == IF l < n THEN l ELSE l + 1
<1>0. arg \in Arguments
  BY DEF Running
<1>1. sends[<<s, d>>] \in Seq(Message) /\ recvs[<<s, d>>] \in Seq(Receive)
  BY DEF QueuesTyped
<1>2. PICK x, y : x = sends[<<s, d>>] /\ y = recvs[<<s, d>>]
  OBVIOUS
<1>3. PICK v, w : v = sends'[<<s, d>>] /\ w = recvs'[<<s, d>>]
  OBVIOUS
<1>4. x \in Seq(Message) /\ y \in Seq(Receive) /\ v = RemoveAt(x, j) /\ w = RemoveAt(y, k)
      /\ j \in 1 .. Len(x) /\ k \in 1 .. Len(y) /\ y[k].into = Into(x[j].from)
  BY <1>1, <1>2, <1>3
<1>5. PICK n, l : n = Len(x) /\ l = Len(y)
  OBVIOUS
<1>6. /\ n \in Nat /\ l \in Nat /\ j \in 1 .. n /\ k \in 1 .. l /\ DOMAIN x = 1 .. n /\ DOMAIN y = 1 .. l
      /\ DOMAIN v = 1 .. n - 1 /\ DOMAIN w = 1 .. l - 1
  <2>1. RemoveAt(x, j) \in Seq(Message) /\ Len(RemoveAt(x, j)) = Len(x) - 1
    BY <1>4, Removing
  <2>2. RemoveAt(y, k) \in Seq(Receive) /\ Len(RemoveAt(y, k)) = Len(y) - 1
    BY <1>4, Removing
  <2>3. DOMAIN v = 1 .. n - 1
    BY <1>4, <1>5, <2>1
  <2>4. DOMAIN w = 1 .. l - 1
    BY <1>4, <1>5, <2>2
  <2>5. n \in Nat /\ l \in Nat /\ DOMAIN x = 1 .. n /\ DOMAIN y = 1 .. l
    BY <1>4, <1>5
  <2> QED
    BY <1>4, <1>5, <2>3, <2>4, <2>5
<1>7. /\ \A i1 \in 1 .. n - 1 : v[i1] = x[Up(i1, j)]
      /\ \A i1 \in 1 .. l - 1 : w[i1] = y[Up(i1, k)]
  BY <1>4, <1>5, Removing
<1>8. /\ \A i1 \in 1 .. n - 1 : Up(i1, j) \in 1 .. n /\ Up(i1, j) # j
      /\ \A i1 \in 1 .. l - 1 : Up(i1, k) \in 1 .. l /\ Up(i1, k) # k
      /\ \A i1, i2 \in 1 .. n - 1 : i1 < i2 => Up(i1, j) < Up(i2, j)
      /\ \A i1, i2 \in 1 .. l - 1 : i1 < i2 => Up(i1, k) < Up(i2, k)
      /\ \A i1 \in 1 .. n : i1 # j => \E i2 \in 1 .. n - 1 : Up(i2, j) = i1
      /\ \A i1 \in 1 .. l : i1 # k => \E i2 \in 1 .. l - 1 : Up(i2, k) = i1
  <2>1. ASSUME NEW z \in Nat, NEW p \in 1 .. z, NEW i1 \in 1 .. z, i1 # p
        PROVE  \E i2 \in 1 .. z - 1 : Up(i2, p) = i1
    <3>1. CASE i1 < p
      <4>1. i1 \in 1 .. z - 1 /\ Up(i1, p) = i1
        BY <3>1
      <4> QED
        BY <4>1
    <3>2. CASE ~(i1 < p)
      <4>1. i1 - 1 \in 1 .. z - 1 /\ ~(i1 - 1 < p) /\ (i1 - 1) + 1 = i1
        BY <2>1, <3>2
      <4>2. Up(i1 - 1, p) = i1
        BY <4>1
      <4> QED
        BY <4>1, <4>2
    <3> QED
      BY <3>1, <3>2
  <2>2. ASSUME NEW z \in Nat, NEW p \in 1 .. z
        PROVE  /\ \A i1 \in 1 .. z - 1 : Up(i1, p) \in 1 .. z /\ Up(i1, p) # p
               /\ \A i1, i2 \in 1 .. z - 1 : i1 < i2 => Up(i1, p) < Up(i2, p)
    <3>1. \A i1 \in 1 .. z - 1 : Up(i1, p) \in 1 .. z /\ Up(i1, p) # p
      OBVIOUS
    <3>2. \A i1, i2 \in 1 .. z - 1 : i1 < i2 => Up(i1, p) < Up(i2, p)
      OBVIOUS
    <3> QED
      BY <3>1, <3>2
  <2> HIDE DEF Up
  <2>3. n \in Nat /\ l \in Nat /\ j \in 1 .. n /\ k \in 1 .. l
    BY <1>6
  <2>4. \A i1 \in 1 .. n : i1 # j => \E i2 \in 1 .. n - 1 : Up(i2, j) = i1
    BY <2>1, <2>3
  <2>5. \A i1 \in 1 .. l : i1 # k => \E i2 \in 1 .. l - 1 : Up(i2, k) = i1
    BY <2>1, <2>3
  <2>6. /\ \A i1 \in 1 .. n - 1 : Up(i1, j) \in 1 .. n /\ Up(i1, j) # j
        /\ \A i1, i2 \in 1 .. n - 1 : i1 < i2 => Up(i1, j) < Up(i2, j)
    BY <2>2, <2>3
  <2>7. /\ \A i1 \in 1 .. l - 1 : Up(i1, k) \in 1 .. l /\ Up(i1, k) # k
        /\ \A i1, i2 \in 1 .. l - 1 : i1 < i2 => Up(i1, k) < Up(i2, k)
    BY <2>2, <2>3
  <2> QED
    BY <2>4, <2>5, <2>6, <2>7
<1> HIDE DEF Up
<1>9. PICK b : b = x[j].from
  OBVIOUS
<1>10. /\ \A e \in SendBufs, f \in SendBufs : Into(e) = Into(f) => e = f
       /\ \A z \in 1 .. n : x[z].from \in SendBufs
       /\ b \in SendBufs /\ y[k].into = Into(b)
  <2>1. \A z \in 1 .. n : x[z] \in Message
    BY <1>4, <1>5
  <2>2. \A z \in 1 .. n : x[z].from \in SendBufs
    BY <2>1 DEF Message
  <2> QED
    BY <1>4, <1>6, <1>9, <2>2, IntoFacts
<1>11. /\ \A z \in 1 .. n : Sends(s, d, x[z].from) /\ x[z].tag = Tag(arg, s, x[z].from) /\ Did(s, P(x[z].from))
       /\ \A z, u \in 1 .. n : z < u => Order(arg, P(x[z].from)) < Order(arg, P(x[u].from))
  BY <1>2, <1>6 DEF Channel, SendsKept
<1>12. /\ \A z \in 1 .. l : \E e \in SendBufs :
            Sends(s, d, e) /\ Did(d, A(e)) /\ y[z].tag = Tag(arg, s, e) /\ y[z].into = Into(e)
       /\ \A z, u \in 1 .. l, g, e \in SendBufs :
            z < u /\ y[z].into = Into(g) /\ y[u].into = Into(e) => Order(arg, A(g)) < Order(arg, A(e))
  BY <1>2, <1>6 DEF Channel, RecvsKept
<1>13. Sends(s, d, b) /\ Did(s, P(b)) /\ Did(d, A(b))
  <2>1. PICK e \in SendBufs : Did(d, A(e)) /\ y[k].into = Into(e)
    BY <1>6, <1>12
  <2>2. e = b
    BY <1>10, <2>1
  <2> QED
    BY <1>6, <1>9, <1>11, <2>1, <2>2
<1>14. \A z \in 1 .. n : z # j => x[z].from # b
  <2>1. Order(arg, P(b)) \in Int
    BY <1>0, <1>10, <1>13, ProgramPosts, CallsTyped
  <2> QED
    BY <1>6, <1>9, <1>11, <2>1
<1>15. \A z \in 1 .. l : z # k => y[z].into # Into(b)
  <2>1. Order(arg, A(b)) \in Int
    BY <1>0, <1>10, <1>13, ProgramAwaits, CallsTyped
  <2> QED
    BY <1>6, <1>10, <1>12, <2>1
<1>16. \A z \in Rank : \A e : Did(z, e)' <=> Did(z, e)
  BY Stays
<1>17. \A e \in SendBufs : Queued(s, d, e)' <=> Queued(s, d, e) /\ e # b
  <2>1. \A e : Queued(s, d, e) <=> \E z \in 1 .. n : x[z].from = e
    BY <1>2, <1>6 DEF Queued
  <2>2. \A e : Queued(s, d, e)' <=> \E z \in 1 .. n - 1 : v[z].from = e
    BY <1>3, <1>6 DEF Queued
  <2> SUFFICES ASSUME NEW e \in SendBufs
               PROVE  Queued(s, d, e)' <=> Queued(s, d, e) /\ e # b
    OBVIOUS
  <2>3. ASSUME NEW z \in 1 .. n - 1, v[z].from = e
        PROVE  Queued(s, d, e) /\ e # b
    <3>1. Up(z, j) \in 1 .. n /\ Up(z, j) # j /\ x[Up(z, j)].from = e
      BY <1>7, <1>8, <2>3
    <3> QED
      BY <1>14, <2>1, <3>1
  <2>4. ASSUME NEW z \in 1 .. n, x[z].from = e, e # b
        PROVE  Queued(s, d, e)'
    <3>1. z # j
      BY <1>9, <2>4
    <3>2. PICK u \in 1 .. n - 1 : Up(u, j) = z
      BY <1>8, <3>1
    <3> QED
      BY <1>7, <2>2, <2>4, <3>2
  <2> QED
    BY <2>1, <2>2, <2>3, <2>4
<1>18. \A e \in SendBufs : Waited(s, d, e)' <=> Waited(s, d, e) /\ e # b
  <2>1. \A e : Waited(s, d, e) <=> \E z \in 1 .. l : y[z].into = Into(e)
    BY <1>2, <1>6 DEF Waited
  <2>2. \A e : Waited(s, d, e)' <=> \E z \in 1 .. l - 1 : w[z].into = Into(e)
    BY <1>3, <1>6 DEF Waited
  <2> SUFFICES ASSUME NEW e \in SendBufs
               PROVE  Waited(s, d, e)' <=> Waited(s, d, e) /\ e # b
    OBVIOUS
  <2>3. ASSUME NEW z \in 1 .. l - 1, w[z].into = Into(e)
        PROVE  Waited(s, d, e) /\ e # b
    <3>1. Up(z, k) \in 1 .. l /\ Up(z, k) # k /\ y[Up(z, k)].into = Into(e)
      BY <1>7, <1>8, <2>3
    <3> QED
      BY <1>15, <2>1, <3>1
  <2>4. ASSUME NEW z \in 1 .. l, y[z].into = Into(e), e # b
        PROVE  Waited(s, d, e)'
    <3>1. z # k
      BY <1>10, <2>4
    <3>2. PICK u \in 1 .. l - 1 : Up(u, k) = z
      BY <1>8, <3>1
    <3> QED
      BY <1>7, <2>2, <2>4, <3>2
  <2> QED
    BY <2>1, <2>2, <2>3, <2>4
<1>19. SendsKept(s, d)'
  <2>1. ASSUME NEW z \in 1 .. n - 1
        PROVE  Sends(s, d, v[z].from) /\ v[z].tag = Tag(arg, s, v[z].from) /\ Did(s, P(v[z].from))'
    BY <1>7, <1>8, <1>11, <1>16
  <2>2. ASSUME NEW z \in 1 .. n - 1, NEW u \in 1 .. n - 1, z < u
        PROVE  Order(arg, P(v[z].from)) < Order(arg, P(v[u].from))
    BY <1>7, <1>8, <1>11, <2>2
  <2> QED
    BY <1>3, <1>6, <2>1, <2>2 DEF SendsKept
<1>20. RecvsKept(s, d)'
  <2>1. ASSUME NEW z \in 1 .. l - 1
        PROVE  \E e \in SendBufs : Sends(s, d, e) /\ Did(d, A(e))' /\ w[z].tag = Tag(arg, s, e) /\ w[z].into = Into(e)
    BY <1>7, <1>8, <1>12, <1>16
  <2>2. ASSUME NEW z \in 1 .. l - 1, NEW u \in 1 .. l - 1, NEW g \in SendBufs, NEW e \in SendBufs,
               z < u, w[z].into = Into(g), w[u].into = Into(e)
        PROVE  Order(arg, A(g)) < Order(arg, A(e))
    <3>1. Up(z, k) \in 1 .. l /\ Up(u, k) \in 1 .. l /\ Up(z, k) < Up(u, k) /\ y[Up(z, k)].into = Into(g) /\ y[Up(u, k)].into = Into(e)
      BY <1>7, <1>8, <2>2
    <3> QED
      BY <1>12, <3>1
  <2> QED
    BY <1>3, <1>6, <2>1, <2>2 DEF RecvsKept
<1>21. Met(s, d)'
  <2> SUFFICES ASSUME NEW e \in SendBufs, Sends(s, d, e)
               PROVE  (Did(s, Posting(arg, s, d, e))' /\ ~Queued(s, d, e)')
                        <=> (Did(d, Awaiting(arg, s, e))' /\ ~Waited(s, d, e)')
    BY DEF Met
  <2>1. (Did(s, P(e)) /\ ~Queued(s, d, e)) <=> (Did(d, A(e)) /\ ~Waited(s, d, e))
    BY DEF Channel, Met
  <2> QED
    BY <1>13, <1>16, <1>17, <1>18, <2>1
<1>22. Waits(s, d)'
  <2> SUFFICES ASSUME NEW e \in SendBufs, Sends(s, d, e)
               PROVE  /\ WaitsForSend(arg, e) /\ Did(s, Posted(d, e))' => SendDone(s, d, e)'
                      /\ WaitsForRecv(arg, e) /\ Did(d, Received(s, e))' => ~Waited(s, d, e)'
    BY DEF Waits
  <2>1. ASSUME SendDone(s, d, e)
        PROVE  SendDone(s, d, e)'
    <3>1. \A z \in 1 .. n : x[z].from = e => x[z].copied
      BY <1>2, <1>6, <2>1 DEF SendDone
    <3>2. \A z \in 1 .. n - 1 : v[z].from = e => v[z].copied
      BY <1>7, <1>8, <3>1
    <3> QED
      BY <1>3, <1>6, <3>2 DEF SendDone
  <2>2. /\ WaitsForSend(arg, e) /\ Did(s, Posted(d, e)) => SendDone(s, d, e)
        /\ WaitsForRecv(arg, e) /\ Did(d, Received(s, e)) => ~Waited(s, d, e)
    BY DEF Channel, Waits
  <2> QED
    BY <1>16, <1>18, <2>1, <2>2
<1>23. Channel(s, d)'
  BY <1>19, <1>20, <1>21, <1>22 DEF Channel
<1>24. b = sends[<<s, d>>][j].from
  BY <1>2, <1>9
<1> QED
  BY <1>13, <1>18, <1>23, <1>24
----------------------------------------------------------------------------
(* What each action does to the programs and the queues.  *)

Control == Running /\ pc \in [Rank -> Nat] /\ QueuesTyped /\ Channels

\* The message in buffer b of s has reached d.
Delivered(s, d, b) == Did(d, Awaiting(arg, s, b)) /\ ~Waited(s, d, b)
InQueue(s, d, u) == \E k \in DOMAIN sends[<<s, d>>] : sends[<<s, d>>][k] = u

\* Nothing is delivered and nothing is sent.
NothingReached == \A x, y \in Rank, e \in SendBufs :
                    Sends(x, y, e) => (Delivered(x, y, e)' <=> Delivered(x, y, e))
NothingSent == \A x, y \in Rank : \A u : InQueue(x, y, u)' => InQueue(x, y, u)

\* A rank that goes on made the call it was at.
LEMMA Turns ==
    ASSUME Control, NEW r \in Rank, ~Done(r), Advance(r), arg' = arg
    PROVE  /\ TurnAt(r, Call(r)) /\ arg \in Arguments
           /\ Running' /\ pc' \in [Rank -> Nat]
<1>1. Running /\ pc \in [Rank -> Nat]
  BY DEF Control
<1>2. Running' /\ pc' \in [Rank -> Nat] /\ Makes(r, Call(r)) /\ ~Did(r, Call(r))
  BY <1>1, Advances
<1>3. /\ Call(r) \in ProgramCalls(arg, r)
      /\ \A e \in ProgramCalls(arg, r) : Did(r, e) <=> Order(arg, e) < Order(arg, Call(r))
  BY <1>1, Turn
<1> QED
  BY <1>1, <1>2, <1>3 DEF TurnAt, Running

\* A call that touches no queue.
LEMMA QuietTurn ==
    ASSUME Control, NEW r \in Rank, NEW c, TurnAt(r, c), Running', pc' \in [Rank -> Nat], arg' = arg,
           sends' = sends, recvs' = recvs, \A s, d \in Rank : Apart(r, c, s, d)
    PROVE  Control' /\ NothingReached /\ NothingSent
<1>1. \A x \in Rank : \A e : Did(x, e)' <=> Did(x, e) \/ (x = r /\ e = c)
  BY DEF TurnAt, Makes
<1>2. \A s, d \in Rank : \A b : Waited(s, d, b)' <=> Waited(s, d, b)
  BY DEF Waited
<1>3. NothingReached
  <2> SUFFICES ASSUME NEW x \in Rank, NEW y \in Rank, NEW e \in SendBufs, Sends(x, y, e)
               PROVE  Delivered(x, y, e)' <=> Delivered(x, y, e)
    BY DEF NothingReached
  <2>1. ~(y = r /\ c = Awaiting(arg, x, e))
    BY DEF Apart
  <2>2. Did(y, Awaiting(arg, x, e))' <=> Did(y, Awaiting(arg, x, e))
    BY <1>1, <2>1
  <2> QED
    BY <1>2, <2>2 DEF Delivered
<1>4. NothingSent
  BY DEF NothingSent, InQueue
<1>5. Channels'
  <2> SUFFICES ASSUME NEW s \in Rank, NEW d \in Rank
               PROVE  Channel(s, d)'
    BY DEF Channels
  <2>1. Channel(s, d) /\ Makes(r, c) /\ Apart(r, c, s, d)
    BY DEF Control, Channels, TurnAt
  <2> QED
    BY <2>1, ChannelApart
<1>6. QueuesTyped'
  BY DEF Control, QueuesTyped
<1> QED
  BY <1>3, <1>4, <1>5, <1>6 DEF Control

\* A call that concerns no other rank.
LEMMA OwnTurn ==
    ASSUME Control, NEW r \in Rank, NEW what, At(r, what), what \notin Messages, Advance(r), arg' = arg,
           sends' = sends, recvs' = recvs
    PROVE  /\ Control' /\ NothingReached /\ NothingSent
           /\ TurnAt(r, Own(what)) /\ what \in OwnCalls(arg, r)
<1>1. ~Done(r) /\ Call(r).call = what
  BY DEF At
<1>2. TurnAt(r, Call(r)) /\ arg \in Arguments /\ Running' /\ pc' \in [Rank -> Nat]
  BY <1>1, Turns
<1>3. what \in OwnCalls(arg, r) /\ Call(r) = Own(what)
  BY <1>1, <1>2, CallKinds DEF TurnAt
<1>4. ASSUME NEW s \in Rank, NEW d \in Rank
      PROVE  Apart(r, Call(r), s, d)
  BY <1>1 DEF Apart, Posting, Awaiting, Posted, Received, CallOf, Messages
<1> QED
  BY <1>2, <1>3, <1>4, QuietTurn

\* No rank makes a call that concerns only itself.
OwnsKept == \A s \in Rank : \A what : what \notin Messages => (Did(s, Own(what))' <=> Did(s, Own(what)))

\* MPI_Wait.
LEMMA WaitTurn ==
    ASSUME Control, NEW r \in Rank, MPI_Wait(r)
    PROVE  /\ Control' /\ NothingReached /\ NothingSent
           /\ OwnsKept
<1>0. arg' = arg /\ sends' = sends /\ recvs' = recvs /\ Advance(r) /\ ~Done(r)
  BY DEF MPI_Wait, At
<1>1. TurnAt(r, Call(r)) /\ arg \in Arguments /\ Running' /\ pc' \in [Rank -> Nat]
  BY <1>0, Turns
<1>2. ASSUME Call(r).call = "WaitSend", SendDone(r, Call(r).peer, Call(r).buf)
      PROVE  Control' /\ NothingReached /\ NothingSent
  <2>1. PICK d \in Rank, b \in SendBufs : Call(r) = Posted(d, b)
    BY <1>1, <1>2, CallKinds DEF TurnAt
  <2>2. SendDone(r, d, b)
    BY <1>2, <2>1 DEF Posted, CallOf
  <2>3. ASSUME NEW x \in Rank, NEW y \in Rank
        PROVE  Apart(r, Call(r), x, y)
    <3> SUFFICES ASSUME NEW e \in SendBufs, Sends(x, y, e)
                 PROVE  /\ ~(x = r /\ Call(r) = Posting(arg, x, y, e))
                        /\ ~(y = r /\ Call(r) = Awaiting(arg, x, e))
                        /\ x = r /\ Call(r) = Posted(y, e) => SendDone(x, y, e)
                        /\ y = r /\ Call(r) = Received(x, e) => ~Waited(x, y, e)
      BY DEF Apart
    <3>1. Call(r) # Posting(arg, x, y, e) /\ Call(r) # Awaiting(arg, x, e) /\ Call(r) # Received(x, e)
      BY <1>2 DEF Posting, Awaiting, Received, CallOf
    <3>2. ASSUME x = r, Call(r) = Posted(y, e)
          PROVE  SendDone(x, y, e)
      <4>1. y = d /\ e = b
        BY <2>1, <3>2, PostedApart
      <4> QED
        BY <2>2, <3>2, <4>1
    <3> QED
      BY <3>1, <3>2
  <2> QED
    BY <1>0, <1>1, <2>3, QuietTurn
<1>3. ASSUME Call(r).call = "WaitRecv", RecvDone(Call(r).peer, r, Call(r).buf)
      PROVE  Control' /\ NothingReached /\ NothingSent
  <2>1. PICK s \in Rank, b \in SendBufs : Call(r) = Received(s, b)
    BY <1>1, <1>3, CallKinds DEF TurnAt
  <2>2. ~Waited(s, r, b)
    BY <1>3, <2>1 DEF Received, CallOf, RecvDone, Waited
  <2>3. ASSUME NEW x \in Rank, NEW y \in Rank
        PROVE  Apart(r, Call(r), x, y)
    <3> SUFFICES ASSUME NEW e \in SendBufs, Sends(x, y, e)
                 PROVE  /\ ~(x = r /\ Call(r) = Posting(arg, x, y, e))
                        /\ ~(y = r /\ Call(r) = Awaiting(arg, x, e))
                        /\ x = r /\ Call(r) = Posted(y, e) => SendDone(x, y, e)
                        /\ y = r /\ Call(r) = Received(x, e) => ~Waited(x, y, e)
      BY DEF Apart
    <3>1. Call(r) # Posting(arg, x, y, e) /\ Call(r) # Awaiting(arg, x, e) /\ Call(r) # Posted(y, e)
      BY <1>3 DEF Posting, Awaiting, Posted, CallOf
    <3>2. ASSUME y = r, Call(r) = Received(x, e)
          PROVE  ~Waited(x, y, e)
      <4>0. Received(s, b) = Received(x, e)
        BY <2>1, <3>2
      <4>1. x = s /\ e = b
        BY <4>0, ReceivedApart
      <4> QED
        BY <2>2, <3>2, <4>1
    <3> QED
      BY <3>1, <3>2
  <2> QED
    BY <1>0, <1>1, <2>3, QuietTurn
<1>4. Call(r).call \in Messages
  BY DEF MPI_Wait, At, Messages
<1>5. \A what : what \notin Messages => Own(what) # Call(r)
  BY <1>4 DEF Own, CallOf
<1>6. OwnsKept
  BY <1>1, <1>5 DEF OwnsKept, TurnAt, Makes
<1> QED
  BY <1>2, <1>3, <1>6 DEF MPI_Wait, At

\* The values at hand.
Stored ==
    /\ DOMAIN yc = Rank /\ DOMAIN dyc = Rank
    /\ \A r \in Rank : yc[r] \in [0 .. counts(r) + 1 -> Value] /\ dyc[r] \in [Inner(r) -> Value]
    /\ full \in [Arrays -> [1 .. NGRID -> Value]]

Size(s, b) == IF b \in Arrays THEN counts(s) ELSE 1

\* The block of a rank lies in the grid.
LEMMA BlockBounds ==
    ASSUME NEW r \in Rank
    PROVE  /\ counts(r) \in Nat /\ start(r) \in Nat /\ start(r) >= 1
           /\ start(r) + counts(r) - 1 = end(r) /\ end(r) <= NGRID /\ disp(r) = start(r) - 1
           /\ NGRID \in Nat
<1>1. counts(r) \in {share, share + 1} /\ disp(r) + counts(r) = end(r) /\ disp(r) >= 0
  BY BlocksBalanced
<1>2. share \in Nat /\ start(r) \in Int /\ end(r) \in Int
  BY Division, Blocks
<1>3. end(r) <= NGRID
  <2>1. end(numproc - 1) = NGRID
    BY BlocksFollow
  <2>2. CASE r = numproc - 1
    BY <2>1, <2>2, NGRIDAssumption
  <2>3. CASE r # numproc - 1
    <3>1. numproc - 1 \in Rank /\ r < numproc - 1
      BY <2>3, numprocAssumption DEF Rank
    <3>2. end(r) < start(numproc - 1)
      BY <3>1, BlocksOrdered
    <3>3. counts(numproc - 1) \in {share, share + 1} /\ disp(numproc - 1) + counts(numproc - 1) = end(numproc - 1)
          /\ start(numproc - 1) \in Int
      BY <3>1, BlocksBalanced, Blocks
    <3> QED
      BY <1>2, <2>1, <3>2, <3>3, NGRIDAssumption DEF disp
  <2> QED
    BY <2>2, <2>3
<1> QED
  BY <1>1, <1>2, <1>3, NGRIDAssumption DEF disp

\* The block of grid points has the size of the block.
LEMMA XCTyped ==
    ASSUME NEW r \in Rank
    PROVE  XC(r) \in [Inner(r) -> Value]
<1>1. \A k \in Inner(r) : start(r) + k - 1 \in 0 .. NGRID + 1
  BY BlockBounds DEF Inner
<1> QED
  BY <1>1 DEF XC, Value

\* What a rank sends are values, as many as the block or the edge has.
LEMMA ContentsTyped ==
    ASSUME Stored, NEW s \in Rank, NEW b \in SendBufs
    PROVE  Contents(s, b) \in Seq(Value) /\ Len(Contents(s, b)) = Size(s, b)
<1>1. PICK n : n = counts(s)
  OBVIOUS
<1>2. n \in Nat /\ Inner(s) = 1 .. n /\ 0 .. counts(s) + 1 = 0 .. n + 1
  BY <1>1, BlockBounds DEF Inner
<1>3. yc[s] \in [0 .. n + 1 -> Value] /\ dyc[s] \in [1 .. n -> Value]
  BY <1>2 DEF Stored
<1>4. \A f \in [1 .. n -> Value] : f \in Seq(Value) /\ Len(f) = n
  BY <1>2
<1>5. CASE b = "xc"
  <2>1. XC(s) \in [1 .. n -> Value]
    BY <1>2, XCTyped
  <2> QED
    BY <1>1, <1>4, <1>5, <2>1 DEF Contents, Size, Arrays
<1>6. CASE b = "yc"
  <2>1. [k \in 1 .. n |-> yc[s][k]] \in [1 .. n -> Value]
    BY <1>2, <1>3
  <2>2. Contents(s, b) = [k \in 1 .. n |-> yc[s][k]]
    BY <1>2, <1>6 DEF Contents
  <2> QED
    BY <1>1, <1>4, <1>6, <2>1, <2>2 DEF Size, Arrays
<1>7. CASE b = "dyc"
  BY <1>1, <1>3, <1>4, <1>7 DEF Contents, Size, Arrays
<1>8. CASE b = "first"
  <2>1. yc[s][1] \in Value
    BY <1>2, <1>3
  <2> QED
    BY <1>8, <2>1 DEF Contents, Size, Arrays
<1>9. CASE b = "last"
  <2>1. yc[s][counts(s)] \in Value
    BY <1>1, <1>2, <1>3
  <2> QED
    BY <1>9, <2>1 DEF Contents, Size, Arrays
<1>10. CASE b = "time"
  <2>1. {} \in Value
    BY DEF Value
  <2> QED
    BY <1>10, <2>1 DEF Contents, Size, Arrays
<1> QED
  BY <1>5, <1>6, <1>7, <1>8, <1>9, <1>10, Buffers DEF Arrays

NewMessage(s, b) ==
    [tag |-> Tag(arg, s, b), from |-> b, copied |-> Len(Contents(s, b)) <= arg.eager,
     data |-> IF Len(Contents(s, b)) <= arg.eager THEN Contents(s, b) ELSE << >>]

\* MPI_Isend.
LEMMA SendTurn ==
    ASSUME Control, Stored, NEW r \in Rank, MPI_Isend(r)
    PROVE  /\ Control' /\ NothingReached /\ OwnsKept
           /\ \E d \in Rank, b \in SendBufs :
                /\ Sends(r, d, b) /\ TurnAt(r, Posting(arg, r, d, b))
                /\ \A x, y \in Rank : \A u : InQueue(x, y, u)' =>
                     InQueue(x, y, u) \/ (x = r /\ y = d /\ u = NewMessage(r, b))
<1>0. arg' = arg /\ recvs' = recvs /\ Advance(r) /\ ~Done(r) /\ Call(r).call = "Isend"
  BY DEF MPI_Isend, At
<1>1. TurnAt(r, Call(r)) /\ arg \in Arguments /\ Running' /\ pc' \in [Rank -> Nat]
  BY <1>0, Turns
<1>2. PICK d \in Rank, b \in SendBufs : Sends(r, d, b) /\ Call(r) = Posting(arg, r, d, b)
  BY <1>0, <1>1, CallKinds DEF TurnAt
<1>3. PICK c : c = Posting(arg, r, d, b)
  OBVIOUS
<1>4. TurnAt(r, c) /\ Call(r) = c
  BY <1>1, <1>2, <1>3
<1>5. c.peer = d /\ c.tag = Tag(arg, r, b) /\ c.buf = b
  BY <1>3 DEF Posting, CallOf
<1>6. PICK u : u = NewMessage(r, b)
  OBVIOUS
<1>7. sends' = [sends EXCEPT ![<<r, d>>] = Append(@, u)]
  <2>1. Post(r, d, Tag(arg, r, b), b, Contents(r, b), arg.eager)
    BY <1>4, <1>5 DEF MPI_Isend
  <2> QED
    BY <1>6, <2>1 DEF Post, NewMessage
<1>8. u \in Message /\ u.from = b /\ u.tag = Tag(arg, r, b)
  <2>1. Contents(r, b) \in Seq(Value) /\ << >> \in Seq(Value)
    BY ContentsTyped
  <2>2. Tag(arg, r, b) \in Int
    BY TagFacts
  <2>3. (Len(Contents(r, b)) <= arg.eager) \in BOOLEAN
    <3>1. Len(Contents(r, b)) \in Nat /\ arg.eager \in Nat
      BY <1>1, <2>1, ArgumentsAssumption
    <3> QED
      BY <3>1
  <2> QED
    BY <1>6, <2>1, <2>2, <2>3 DEF NewMessage, Message
<1>9. sends \in [Rank \X Rank -> Seq(Message)] /\ recvs \in [Rank \X Rank -> Seq(Receive)]
  BY DEF Control, QueuesTyped
<1>10. /\ sends'[<<r, d>>] = Append(sends[<<r, d>>], u)
       /\ \A x, y \in Rank : <<x, y>> # <<r, d>> => sends'[<<x, y>>] = sends[<<x, y>>]
  BY <1>7, <1>9
<1>11. QueuesTyped'
  <2>1. sends[<<r, d>>] \in Seq(Message)
    BY <1>9
  <2>2. Append(sends[<<r, d>>], u) \in Seq(Message)
    BY <1>8, <2>1, Appending
  <2>3. sends' \in [Rank \X Rank -> Seq(Message)]
    BY <1>7, <1>9, <2>2
  <2> QED
    BY <1>0, <1>9, <2>3 DEF QueuesTyped
<1>12. Channels'
  <2> SUFFICES ASSUME NEW x \in Rank, NEW y \in Rank
               PROVE  Channel(x, y)'
    BY DEF Channels
  <2>0. Channel(x, y) /\ Makes(r, c)
    BY <1>4 DEF Control, Channels, TurnAt
  <2>1. CASE x = r /\ y = d
    <3>1. Channel(r, d) /\ TurnAt(r, Posting(arg, r, d, b)) /\ sends[<<r, d>>] \in Seq(Message)
          /\ recvs'[<<r, d>>] = recvs[<<r, d>>]
      BY <1>0, <1>3, <1>4, <1>9, <2>0, <2>1
    <3>2. Channel(r, d)'
      BY <1>0, <1>1, <1>2, <1>8, <1>10, <3>1, ChannelSend
    <3> QED
      BY <2>1, <3>2
  <2>2. CASE ~(x = r /\ y = d)
    <3>1. sends'[<<x, y>>] = sends[<<x, y>>] /\ recvs'[<<x, y>>] = recvs[<<x, y>>]
      BY <1>0, <1>10, <2>2
    <3>2. Apart(r, c, x, y)
      <4> SUFFICES ASSUME NEW e \in SendBufs, Sends(x, y, e)
                   PROVE  /\ ~(x = r /\ c = Posting(arg, x, y, e))
                          /\ ~(y = r /\ c = Awaiting(arg, x, e))
                          /\ x = r /\ c = Posted(y, e) => SendDone(x, y, e)
                          /\ y = r /\ c = Received(x, e) => ~Waited(x, y, e)
        BY DEF Apart
      <4>1. c # Awaiting(arg, x, e) /\ c # Posted(y, e) /\ c # Received(x, e)
        BY <1>3 DEF Posting, Awaiting, Posted, Received, CallOf
      <4>2. ~(x = r /\ c = Posting(arg, x, y, e))
        BY <1>3, <2>2, PostingApart
      <4> QED
        BY <4>1, <4>2
    <3> QED
      BY <1>0, <2>0, <3>1, <3>2, ChannelApart
  <2> QED
    BY <2>1, <2>2
<1>13. /\ \A x \in Rank : \A e : Did(x, e)' <=> Did(x, e) \/ (x = r /\ e = c)
       /\ \A x, y \in Rank : \A e : Waited(x, y, e)' <=> Waited(x, y, e)
  BY <1>0, <1>4 DEF TurnAt, Makes, Waited
<1>14. NothingReached
  <2> SUFFICES ASSUME NEW x \in Rank, NEW y \in Rank, NEW e \in SendBufs, Sends(x, y, e)
               PROVE  Delivered(x, y, e)' <=> Delivered(x, y, e)
    BY DEF NothingReached
  <2>1. c # Awaiting(arg, x, e)
    BY <1>3 DEF Posting, Awaiting, CallOf
  <2>2. Did(y, Awaiting(arg, x, e))' <=> Did(y, Awaiting(arg, x, e))
    BY <1>0, <1>13, <2>1
  <2> QED
    BY <1>0, <1>13, <2>2 DEF Delivered
<1>15. OwnsKept
  <2>1. \A what : what \notin Messages => Own(what) # c
    BY <1>3 DEF Own, Posting, CallOf, Messages
  <2> QED
    BY <1>13, <2>1 DEF OwnsKept
<1>16. ASSUME NEW x \in Rank, NEW y \in Rank, NEW v, InQueue(x, y, v)'
       PROVE  InQueue(x, y, v) \/ (x = r /\ y = d /\ v = NewMessage(r, b))
  <2>1. CASE x = r /\ y = d
    <3>0. PICK z \in Seq(Message) : z = sends[<<r, d>>]
      BY <1>9
    <3>1. PICK t : t = Append(z, u) /\ t = sends'[<<r, d>>]
      BY <1>10, <3>0
    <3>2. PICK k \in DOMAIN t : t[k] = v
      BY <1>16, <2>1, <3>1 DEF InQueue
    <3>3. /\ DOMAIN t = 1 .. Len(z) + 1 /\ DOMAIN z = 1 .. Len(z) /\ Len(z) \in Nat
          /\ (\A l \in 1 .. Len(z) : t[l] = z[l]) /\ t[Len(z) + 1] = u
      <4>1. u \in Message /\ z \in Seq(Message) /\ t = Append(z, u)
        BY <1>8, <3>1
      <4> QED
        BY ONLY <4>1, Appending
    <3>4. k \in 1 .. Len(z) \/ k = Len(z) + 1
      BY <3>2, <3>3
    <3> QED
      BY <1>6, <2>1, <3>0, <3>1, <3>2, <3>3, <3>4 DEF InQueue
  <2>2. CASE ~(x = r /\ y = d)
    BY <1>10, <1>16, <2>2 DEF InQueue
  <2> QED
    BY <2>1, <2>2
<1>17. Control'
  BY <1>1, <1>11, <1>12 DEF Control
<1>18. TurnAt(r, Posting(arg, r, d, b))
  BY <1>3, <1>4
<1> QED
  BY <1>2, <1>14, <1>15, <1>16, <1>17, <1>18

\* MPI_Irecv.
LEMMA RecvTurn ==
    ASSUME Control, NEW r \in Rank, MPI_Irecv(r)
    PROVE  Control' /\ NothingReached /\ NothingSent /\ OwnsKept
<1>0. arg' = arg /\ sends' = sends /\ Advance(r) /\ ~Done(r) /\ Call(r).call = "Irecv"
  BY DEF MPI_Irecv, At
<1>1. TurnAt(r, Call(r)) /\ arg \in Arguments /\ Running' /\ pc' \in [Rank -> Nat]
  BY <1>0, Turns
<1>2. PICK s \in Rank, b \in SendBufs : Sends(s, r, b) /\ Call(r) = Awaiting(arg, s, b)
  BY <1>0, <1>1, CallKinds DEF TurnAt
<1>3. PICK c : c = Awaiting(arg, s, b)
  OBVIOUS
<1>4. TurnAt(r, c) /\ Call(r) = c
  BY <1>1, <1>2, <1>3
<1>5. c.peer = s /\ c.tag = Tag(arg, s, b) /\ c.buf = Into(b)
  BY <1>3 DEF Awaiting, CallOf
<1>6. PICK u : u = [tag |-> Tag(arg, s, b), into |-> Into(b)]
  OBVIOUS
<1>7. recvs' = [recvs EXCEPT ![<<s, r>>] = Append(@, u)]
  BY <1>4, <1>5, <1>6 DEF MPI_Irecv
<1>8. u \in Receive /\ u.into = Into(b) /\ u.tag = Tag(arg, s, b)
  BY <1>6, TagFacts, IntoFacts DEF Receive
<1>9. sends \in [Rank \X Rank -> Seq(Message)] /\ recvs \in [Rank \X Rank -> Seq(Receive)]
  BY DEF Control, QueuesTyped
<1>10. /\ recvs'[<<s, r>>] = Append(recvs[<<s, r>>], u)
       /\ \A x, y \in Rank : <<x, y>> # <<s, r>> => recvs'[<<x, y>>] = recvs[<<x, y>>]
  BY <1>7, <1>9
<1>11. QueuesTyped'
  <2>1. recvs[<<s, r>>] \in Seq(Receive)
    BY <1>9
  <2>2. Append(recvs[<<s, r>>], u) \in Seq(Receive)
    BY <1>8, <2>1, Appending
  <2>3. recvs' \in [Rank \X Rank -> Seq(Receive)]
    BY <1>7, <1>9, <2>2
  <2> QED
    BY <1>0, <1>9, <2>3 DEF QueuesTyped
<1>12. Channel(s, r)' /\ \A e \in SendBufs : Waited(s, r, e)' <=> Waited(s, r, e) \/ e = b
  <2>1. Channel(s, r) /\ TurnAt(r, Awaiting(arg, s, b)) /\ recvs[<<s, r>>] \in Seq(Receive)
        /\ sends'[<<s, r>>] = sends[<<s, r>>]
    BY <1>0, <1>3, <1>4, <1>9 DEF Control, Channels
  <2> QED
    BY <1>0, <1>1, <1>2, <1>8, <1>10, <2>1, ChannelRecv
<1>13. Channels'
  <2> SUFFICES ASSUME NEW x \in Rank, NEW y \in Rank
               PROVE  Channel(x, y)'
    BY DEF Channels
  <2>0. Channel(x, y) /\ Makes(r, c)
    BY <1>4 DEF Control, Channels, TurnAt
  <2>1. CASE x = s /\ y = r
    BY <1>12, <2>1
  <2>2. CASE ~(x = s /\ y = r)
    <3>1. sends'[<<x, y>>] = sends[<<x, y>>] /\ recvs'[<<x, y>>] = recvs[<<x, y>>]
      BY <1>0, <1>10, <2>2
    <3>2. Apart(r, c, x, y)
      <4> SUFFICES ASSUME NEW e \in SendBufs, Sends(x, y, e)
                   PROVE  /\ ~(x = r /\ c = Posting(arg, x, y, e))
                          /\ ~(y = r /\ c = Awaiting(arg, x, e))
                          /\ x = r /\ c = Posted(y, e) => SendDone(x, y, e)
                          /\ y = r /\ c = Received(x, e) => ~Waited(x, y, e)
        BY DEF Apart
      <4>1. c # Posting(arg, x, y, e) /\ c # Posted(y, e) /\ c # Received(x, e)
        BY <1>3 DEF Posting, Awaiting, Posted, Received, CallOf
      <4>2. ~(y = r /\ c = Awaiting(arg, x, e))
        BY <1>3, <2>2, AwaitingApart
      <4> QED
        BY <4>1, <4>2
    <3> QED
      BY <1>0, <2>0, <3>1, <3>2, ChannelApart
  <2> QED
    BY <2>1, <2>2
<1>14. \A x \in Rank : \A e : Did(x, e)' <=> Did(x, e) \/ (x = r /\ e = c)
  BY <1>4 DEF TurnAt, Makes
<1>15. NothingReached
  <2> SUFFICES ASSUME NEW x \in Rank, NEW y \in Rank, NEW e \in SendBufs, Sends(x, y, e)
               PROVE  Delivered(x, y, e)' <=> Delivered(x, y, e)
    BY DEF NothingReached
  <2>1. CASE x = s /\ y = r /\ e = b
    <3>1. Waited(x, y, e)'
      BY <1>12, <2>1
    <3>2. ~Did(y, Awaiting(arg, x, e))
      BY <1>3, <1>4, <2>1 DEF TurnAt
    <3> QED
      BY <3>1, <3>2 DEF Delivered
  <2>2. CASE ~(x = s /\ y = r /\ e = b)
    <3>1. ~(y = r /\ c = Awaiting(arg, x, e))
      BY <1>3, <2>2, AwaitingApart
    <3>2. Did(y, Awaiting(arg, x, e))' <=> Did(y, Awaiting(arg, x, e))
      BY <1>0, <1>14, <3>1
    <3>3. Waited(x, y, e)' <=> Waited(x, y, e)
      <4>1. CASE x = s /\ y = r
        BY <1>12, <2>2, <4>1
      <4>2. CASE ~(x = s /\ y = r)
        BY <1>10, <4>2 DEF Waited
      <4> QED
        BY <4>1, <4>2
    <3> QED
      BY <1>0, <3>2, <3>3 DEF Delivered
  <2> QED
    BY <2>1, <2>2
<1>16. OwnsKept
  <2>1. \A what : what \notin Messages => Own(what) # c
    BY <1>3 DEF Own, Awaiting, CallOf, Messages
  <2> QED
    BY <1>14, <2>1 DEF OwnsKept
<1>17. Control'
  BY <1>1, <1>11, <1>13 DEF Control
<1>18. NothingSent
  BY <1>0 DEF NothingSent, InQueue
<1> QED
  BY <1>15, <1>16, <1>17, <1>18

\* A step that touches no queue and makes no call.
LEMMA SameControl ==
    ASSUME Control, arg' = arg, pc' = pc, sends' = sends, recvs' = recvs
    PROVE  Control' /\ NothingReached /\ NothingSent /\ OwnsKept
<1>1. \A x \in Rank : \A e : Did(x, e)' <=> Did(x, e)
  BY Stays
<1>2. \A x, y, e : Waited(x, y, e)' <=> Waited(x, y, e)
  BY DEF Waited
<1>3. NothingReached
  BY <1>1, <1>2 DEF NothingReached, Delivered
<1>4. NothingSent /\ OwnsKept
  BY <1>1 DEF NothingSent, InQueue, OwnsKept
<1>5. Channels'
  BY ChannelStays DEF Control, Channels
<1>6. QueuesTyped' /\ Running'
  BY DEF Control, QueuesTyped, Running
<1> QED
  BY <1>3, <1>4, <1>5, <1>6 DEF Control

\* The library moves a message into the buffer it is for.
Moved(s, d, b) ==
    /\ Sends(s, d, b) /\ Did(s, Posting(arg, s, d, b))
    /\ \E u \in Message : /\ InQueue(s, d, u) /\ u.from = b
                          /\ \E values \in Sent(s, u) : Store(s, d, Into(b), values)
    /\ \A x, y \in Rank, e \in SendBufs : Sends(x, y, e) =>
         (Delivered(x, y, e)' <=> Delivered(x, y, e) \/ (x = s /\ y = d /\ e = b))

\* A transfer keeps the queues in order and makes no call.
LEMMA TransferTurn ==
    ASSUME Control, NEW s \in Rank, NEW d \in Rank, Transfer(s, d)
    PROVE  /\ Control' /\ NothingSent /\ OwnsKept
           /\ \E b \in SendBufs : Moved(s, d, b)
<1>0. arg' = arg /\ pc' = pc
  BY DEF Transfer
<1>1. PICK j \in DOMAIN sends[<<s, d>>], k \in DOMAIN recvs[<<s, d>>] :
         /\ Match(s, d, j, k)
         /\ \E values \in Sent(s, sends[<<s, d>>][j]) : Store(s, d, recvs[<<s, d>>][k].into, values)
         /\ Complete(s, d, j, k)
  BY DEF Transfer
<1>2. Running /\ QueuesTyped /\ Channel(s, d) /\ \A x, y \in Rank : Channel(x, y)
  BY DEF Control, Channels
<1>3. recvs[<<s, d>>][k].into = Into(sends[<<s, d>>][j].from)
  BY <1>1, <1>2, Matching
<1>4. sends \in [Rank \X Rank -> Seq(Message)] /\ recvs \in [Rank \X Rank -> Seq(Receive)]
  BY <1>2 DEF QueuesTyped
<1>5. /\ sends' = [sends EXCEPT ![<<s, d>>] = RemoveAt(@, j)]
      /\ recvs' = [recvs EXCEPT ![<<s, d>>] = RemoveAt(@, k)]
  BY <1>1 DEF Complete
<1>6. /\ sends'[<<s, d>>] = RemoveAt(sends[<<s, d>>], j) /\ recvs'[<<s, d>>] = RemoveAt(recvs[<<s, d>>], k)
      /\ \A x, y \in Rank : <<x, y>> # <<s, d>> =>
           sends'[<<x, y>>] = sends[<<x, y>>] /\ recvs'[<<x, y>>] = recvs[<<x, y>>]
  BY <1>4, <1>5
<1>7. PICK z, y : z = sends[<<s, d>>] /\ y = recvs[<<s, d>>]
  OBVIOUS
<1>8. z \in Seq(Message) /\ y \in Seq(Receive) /\ j \in 1 .. Len(z) /\ k \in 1 .. Len(y)
  BY <1>4, <1>7
<1>9. /\ RemoveAt(z, j) \in Seq(Message) /\ Len(RemoveAt(z, j)) = Len(z) - 1
      /\ (\A l \in 1 .. Len(z) - 1 : RemoveAt(z, j)[l] = z[IF l < j THEN l ELSE l + 1])
      /\ RemoveAt(y, k) \in Seq(Receive)
  BY <1>8, Removing
<1>10. QueuesTyped'
  BY <1>4, <1>5, <1>7, <1>9 DEF QueuesTyped
<1>11. PICK b : b = z[j].from
  OBVIOUS
<1>12. /\ Channel(s, d)' /\ Did(d, Awaiting(arg, s, b))
       /\ \A e \in SendBufs : Waited(s, d, e)' <=> Waited(s, d, e) /\ e # b
  BY <1>0, <1>2, <1>3, <1>6, <1>7, <1>11, ChannelMeet
<1>13. Channels'
  <2> SUFFICES ASSUME NEW x \in Rank, NEW w \in Rank
               PROVE  Channel(x, w)'
    BY DEF Channels
  <2>1. CASE x = s /\ w = d
    BY <1>12, <2>1
  <2>2. CASE ~(x = s /\ w = d)
    BY <1>0, <1>2, <1>6, <2>2, ChannelStays
  <2> QED
    BY <2>1, <2>2
<1>14. \A x \in Rank : \A e : Did(x, e)' <=> Did(x, e)
  BY <1>0, Stays
<1>15. OwnsKept
  BY <1>14 DEF OwnsKept
<1>16. NothingSent
  <2> SUFFICES ASSUME NEW x \in Rank, NEW w \in Rank, NEW u, InQueue(x, w, u)'
               PROVE  InQueue(x, w, u)
    BY DEF NothingSent
  <2>1. CASE x = s /\ w = d
    <3>1. PICK t : t = RemoveAt(z, j)
      OBVIOUS
    <3>2. PICK l \in DOMAIN t : t[l] = u
      BY <1>6, <1>7, <2>1, <3>1 DEF InQueue
    <3>3. l \in 1 .. Len(z) - 1 /\ DOMAIN z = 1 .. Len(z) /\ Len(z) \in Nat
      BY <1>8, <1>9, <3>1, <3>2
    <3>4. t[l] = z[IF l < j THEN l ELSE l + 1]
      BY <1>9, <3>1, <3>3
    <3>5. (IF l < j THEN l ELSE l + 1) \in DOMAIN z
      BY <3>3
    <3> QED
      BY <1>7, <2>1, <3>2, <3>4, <3>5 DEF InQueue
  <2>2. CASE ~(x = s /\ w = d)
    BY <1>6, <2>2 DEF InQueue
  <2> QED
    BY <2>1, <2>2
<1>17. Sends(s, d, b) /\ Did(s, Posting(arg, s, d, b)) /\ z[j] \in Message /\ b \in SendBufs
  <2>1. z[j] \in Message
    BY <1>8
  <2>2. b \in SendBufs
    BY <1>11, <2>1 DEF Message
  <2> QED
    BY <1>2, <1>7, <1>11, <2>1, <2>2 DEF Channel, SendsKept
<1>18. \A x, w \in Rank, e \in SendBufs : Sends(x, w, e) =>
         (Delivered(x, w, e)' <=> Delivered(x, w, e) \/ (x = s /\ w = d /\ e = b))
  <2> SUFFICES ASSUME NEW x \in Rank, NEW w \in Rank, NEW e \in SendBufs
               PROVE  Delivered(x, w, e)' <=> Delivered(x, w, e) \/ (x = s /\ w = d /\ e = b)
    OBVIOUS
  <2>0. Did(w, Awaiting(arg, x, e))' <=> Did(w, Awaiting(arg, x, e))
    BY <1>0, <1>14
  <2>1. CASE x = s /\ w = d
    <3>1. Waited(x, w, e)' <=> Waited(x, w, e) /\ e # b
      BY <1>12, <2>1
    <3>2. e = b => Did(w, Awaiting(arg, x, e))
      BY <1>12, <2>1
    <3> QED
      BY <1>0, <2>0, <2>1, <3>1, <3>2 DEF Delivered
  <2>2. CASE ~(x = s /\ w = d)
    <3>1. Waited(x, w, e)' <=> Waited(x, w, e)
      BY <1>6, <2>2 DEF Waited
    <3> QED
      BY <1>0, <2>0, <2>2, <3>1 DEF Delivered
  <2> QED
    BY <2>1, <2>2
<1>19. Moved(s, d, b)
  <2>1. InQueue(s, d, z[j])
    BY <1>7 DEF InQueue
  <2>2. \E values \in Sent(s, z[j]) : Store(s, d, Into(b), values)
    BY <1>1, <1>3, <1>7, <1>11
  <2> QED
    BY <1>11, <1>17, <1>18, <2>1, <2>2 DEF Moved
<1>20. Control'
  <2>1. Running'
    BY <1>0, <1>2 DEF Running
  <2> QED
    BY <1>0, <1>10, <1>13, <2>1 DEF Control
<1> QED
  BY <1>15, <1>16, <1>17, <1>19, <1>20
----------------------------------------------------------------------------
(* The invariant.  *)

Rows == [Arrays -> [1 .. NGRID -> Value]]

\* A message the library has copied holds all of its values; an edge is always copied.
Carried ==
    \A s, d \in Rank : \A u : InQueue(s, d, u) =>
        IF u.copied THEN Len(u.data) = Size(s, u.from)
                    ELSE u.from \in Arrays /\ counts(s) > arg.eager

\* The receive a request stands for.
RequestSource(q1) == (q1 \div 3) + 1
RequestArray(q1)  == Array[(q1 % 3) + 1]

\* A request is null when its block has arrived, and the loop ends when all are.
Polling ==
    /\ i \in 0 .. Requests /\ (numproc # 1 => i < Requests)
    /\ null \subseteq 0 .. Requests - 1 /\ count_flag = Cardinality(null)
    /\ \A q1 \in null : Delivered(RequestSource(q1), Root, RequestArray(q1))
    /\ Did(Root, Own("test")) => null = 0 .. Requests - 1

FreedDid == freed \subseteq Rank /\ \A r \in freed : Did(r, Own("free"))

Inv == Control /\ Stored /\ Carried /\ Polling /\ FreedDid /\ file \in Seq(Rows)

\* A call of a rank's own is one call.
LEMMA OwnDid ==
    ASSUME NEW r \in Rank, NEW what, TurnAt(r, Own(what))
    PROVE  /\ \A s \in Rank : \A w : Did(s, Own(w))' <=> Did(s, Own(w)) \/ (s = r /\ w = what)
           /\ ~Did(r, Own(what))
<1>1. \A s \in Rank : \A e : Did(s, e)' <=> Did(s, e) \/ (s = r /\ e = Own(what))
  BY DEF TurnAt, Makes
<1>2. \A w : Own(w) = Own(what) <=> w = what
  <2>1. \A w : Own(w).call = w
    BY DEF Own, CallOf
  <2> QED
    BY <2>1
<1> QED
  BY <1>1, <1>2 DEF TurnAt

\* When nothing is sent, what the queues hold is as it was.
LEMMA CarriedKept ==
    ASSUME Carried, arg' = arg, NothingSent
    PROVE  Carried'
  BY DEF Carried, NothingSent

\* The requests are numbered through the blocks of the other ranks.
LEMMA RequestFacts ==
    /\ Requests \in Nat /\ (numproc # 1 => Requests > 0)
    /\ \A q1 \in 0 .. Requests - 1 :
         /\ RequestSource(q1) \in Rank /\ RequestArray(q1) \in Arrays
         /\ Sends(RequestSource(q1), Root, RequestArray(q1))
    /\ \A s \in Rank, b \in Arrays : s # Root =>
         \E q1 \in 0 .. Requests - 1 : RequestSource(q1) = s /\ RequestArray(q1) = b
<1>0. Requests \in Nat /\ (numproc # 1 => Requests > 0) /\ numproc \in Nat /\ Requests = 3 * numproc - 3 /\ Root = 0
  BY numprocAssumption DEF Requests, Root
<1>1. ASSUME NEW q1 \in 0 .. Requests - 1
      PROVE  /\ RequestSource(q1) \in Rank /\ RequestArray(q1) \in Arrays
             /\ Sends(RequestSource(q1), Root, RequestArray(q1))
  <2>1. PICK s \in Int, k \in Int : s = q1 \div 3 /\ k = q1 % 3 /\ q1 = 3 * s + k /\ k \in 0 .. 2
    <3>1. q1 \in Nat
      BY <1>0
    <3> QED
      BY <3>1
  <2>2. s + 1 \in Rank /\ s + 1 # 0
    BY <1>0, <2>1 DEF Rank
  <2>3. Array[k + 1] \in Arrays
    BY <2>1 DEF Array, Arrays
  <2>4. RequestSource(q1) = s + 1 /\ RequestArray(q1) = Array[k + 1]
    BY <2>1 DEF RequestSource, RequestArray
  <2>5. \A b \in Arrays : Sends(s + 1, Root, b)
    BY <1>0, <2>2 DEF Sends, Arrays
  <2> QED
    BY <2>2, <2>3, <2>4, <2>5
<1>2. ASSUME NEW s \in Rank, NEW b \in Arrays, s # Root
      PROVE  \E q1 \in 0 .. Requests - 1 : RequestSource(q1) = s /\ RequestArray(q1) = b
  <2>1. s \in Nat /\ s >= 1 /\ s <= numproc - 1
    BY <1>0, <1>2 DEF Rank
  <2>2. PICK k \in 0 .. 2 : Array[k + 1] = b
    <3>1. Array[0 + 1] = "xc" /\ Array[1 + 1] = "yc" /\ Array[2 + 1] = "dyc"
      BY DEF Array
    <3> QED
      BY <3>1 DEF Arrays
  <2>3. PICK q1 \in Int : q1 = 3 * (s - 1) + k
    BY <2>1
  <2>4. q1 \in 0 .. Requests - 1 /\ q1 \div 3 = s - 1 /\ q1 % 3 = k
    BY <1>0, <2>1, <2>3
  <2> QED
    BY <2>1, <2>2, <2>4 DEF RequestSource, RequestArray
<1> QED
  BY <1>0, <1>1, <1>2

\* The loop is not touched by what else the ranks do.
LEMMA PollingKept ==
    ASSUME Polling, UNCHANGED poll, arg' = arg,
           \A x, y \in Rank, e \in SendBufs :
             Sends(x, y, e) => (Delivered(x, y, e) => Delivered(x, y, e)'),
           Did(Root, Own("test"))' => Did(Root, Own("test"))
    PROVE  Polling'
<1>1. i' = i /\ null' = null /\ count_flag' = count_flag
  BY DEF poll
<1>2. \A q1 \in null : Delivered(RequestSource(q1), Root, RequestArray(q1))'
  <2> SUFFICES ASSUME NEW q1 \in null
               PROVE  Delivered(RequestSource(q1), Root, RequestArray(q1))'
    OBVIOUS
  <2>1. PICK s, b : s = RequestSource(q1) /\ b = RequestArray(q1)
    OBVIOUS
  <2>2. s \in Rank /\ b \in Arrays /\ Sends(s, Root, b) /\ Delivered(s, Root, b)
    BY <2>1, RequestFacts DEF Polling
  <2>3. Root \in Rank /\ b \in SendBufs
    BY <2>2, RankFacts, Buffers
  <2>4. Delivered(s, Root, b)'
    BY <2>2, <2>3
  <2> QED
    BY <2>1, <2>4
<1> QED
  BY <1>1, <1>2 DEF Polling

\* Blocks put in their places.
LEMMA PlaceTyped ==
    ASSUME NEW array \in [1 .. NGRID -> Value], NEW s \in Rank, NEW n \in Nat, NEW values \in [1 .. n -> Value]
    PROVE  Place(array, s, values) \in [1 .. NGRID -> Value]
  BY DEF Place

\* What is moved is of the right size.
LEMMA SentTyped ==
    ASSUME Stored, Carried, NEW s \in Rank, NEW d \in Rank, NEW u \in Message, InQueue(s, d, u),
           NEW values \in Sent(s, u)
    PROVE  values \in Seq(Value) /\ Len(values) = Size(s, u.from)
<1>1. u.from \in SendBufs /\ u.data \in Seq(Value)
  BY DEF Message
<1>2. CASE u.copied
  <2>1. values = u.data
    BY <1>2 DEF Sent
  <2>2. Len(u.data) = Size(s, u.from)
    BY <1>2 DEF Carried
  <2> QED
    BY ONLY <1>1, <2>1, <2>2
<1>3. CASE ~u.copied
  <2>1. PICK n : n = Size(s, u.from)
    OBVIOUS
  <2>2. Contents(s, u.from) \in Seq(Value) /\ Len(Contents(s, u.from)) = n /\ n \in Nat
    BY <1>1, <2>1, ContentsTyped
  <2>3. CASE values = Contents(s, u.from)
    BY <2>1, <2>2, <2>3
  <2>4. CASE values = Blank(Len(Contents(s, u.from)))
    <3>1. values = [k \in 1 .. n |-> {}] /\ {} \in Value
      BY <2>2, <2>4 DEF Blank, Junk, Value
    <3>2. [k \in 1 .. n |-> {}] \in [1 .. n -> Value]
      BY <3>1
    <3>3. \A f \in [1 .. n -> Value] : f \in Seq(Value) /\ Len(f) = n
      BY <2>2
    <3>4. values \in Seq(Value) /\ Len(values) = n
      BY <3>1, <3>2, <3>3
    <3> QED
      BY <2>1, <3>4
  <2> QED
    BY <1>3, <2>3, <2>4 DEF Sent
<1> QED
  BY <1>2, <1>3
----------------------------------------------------------------------------
(* Each action keeps the invariant.  *)

\* The calls that send, receive and wait touch no value.
LEMMA QueuesInv ==
    ASSUME Inv, Control', arg' = arg, UNCHANGED <<data, poll, file>>, NothingReached, OwnsKept, Carried'
    PROVE  Inv'
<1>1. yc' = yc /\ dyc' = dyc /\ full' = full /\ freed' = freed /\ file' = file /\ UNCHANGED poll
  BY DEF data, poll
<1>2. Stored'
  BY <1>1 DEF Inv, Stored
<1>3. FreedDid'
  <2>1. "free" \notin Messages
    BY DEF Messages
  <2> QED
    BY <1>1, <2>1 DEF Inv, FreedDid, OwnsKept
<1>4. Polling'
  <2>1. "test" \notin Messages /\ Root \in Rank
    BY RankFacts DEF Messages
  <2>2. Did(Root, Own("test"))' => Did(Root, Own("test"))
    BY <2>1 DEF OwnsKept
  <2>3. \A x, y \in Rank, e \in SendBufs : Sends(x, y, e) => (Delivered(x, y, e) => Delivered(x, y, e)')
    BY DEF NothingReached
  <2> QED
    BY <1>1, <2>2, <2>3, PollingKept DEF Inv
<1> QED
  BY <1>1, <1>2, <1>3, <1>4 DEF Inv

\* MPI_Isend copies a buffer that is small enough.
LEMMA SendInv ==
    ASSUME Inv, NEW r \in Rank, MPI_Isend(r)
    PROVE  Inv'
<1>1. Control /\ Stored /\ Carried /\ arg' = arg /\ UNCHANGED <<data, poll, file>>
  BY DEF Inv, MPI_Isend
<1>2. Control' /\ NothingReached /\ OwnsKept
  BY <1>1, SendTurn
<1>3. PICK d \in Rank, b \in SendBufs :
         \A x, y \in Rank : \A u : InQueue(x, y, u)' =>
            InQueue(x, y, u) \/ (x = r /\ y = d /\ u = NewMessage(r, b))
  BY <1>1, SendTurn
<1>4. PICK u : u = NewMessage(r, b)
  OBVIOUS
<1>5. IF u.copied THEN Len(u.data) = Size(r, u.from)
                  ELSE u.from \in Arrays /\ counts(r) > arg.eager
  <2>1. u.from = b /\ (u.copied <=> Len(Contents(r, b)) <= arg.eager)
        /\ u.data = IF Len(Contents(r, b)) <= arg.eager THEN Contents(r, b) ELSE << >>
    BY <1>4 DEF NewMessage
  <2>2. Len(Contents(r, b)) = Size(r, b)
    BY <1>1, ContentsTyped
  <2>3. arg.eager \in Nat /\ arg.eager >= 1
    BY <1>1, ArgumentsAssumption DEF Control, Running
  <2>4. counts(r) \in Nat
    BY BlockBounds
  <2>5. CASE u.copied
    BY <2>1, <2>2, <2>5
  <2>6. CASE ~u.copied
    <3>1. ~(Size(r, b) <= arg.eager)
      BY <2>1, <2>2, <2>6
    <3>2. b \in Arrays
      BY <2>3, <3>1 DEF Size
    <3>3. counts(r) > arg.eager
      BY <2>3, <2>4, <3>1, <3>2 DEF Size
    <3> QED
      BY <2>1, <2>6, <3>2, <3>3
  <2> QED
    BY <2>5, <2>6
<1>6. Carried'
  <2> SUFFICES ASSUME NEW x \in Rank, NEW y \in Rank, NEW v, InQueue(x, y, v)'
               PROVE  IF v.copied THEN Len(v.data) = Size(x, v.from)
                                  ELSE v.from \in Arrays /\ counts(x) > arg.eager
    BY <1>1 DEF Carried
  <2>1. CASE InQueue(x, y, v)
    BY <1>1, <2>1 DEF Carried
  <2>2. CASE x = r /\ y = d /\ v = NewMessage(r, b)
    BY <1>4, <1>5, <2>2
  <2> QED
    BY <1>3, <2>1, <2>2
<1> QED
  BY <1>1, <1>2, <1>6, QueuesInv

\* MPI_Irecv.
LEMMA RecvInv ==
    ASSUME Inv, NEW r \in Rank, MPI_Irecv(r)
    PROVE  Inv'
<1>1. Control /\ Carried /\ arg' = arg /\ UNCHANGED <<data, poll, file>>
  BY DEF Inv, MPI_Irecv
<1>2. Control' /\ NothingReached /\ NothingSent /\ OwnsKept
  BY <1>1, RecvTurn
<1> QED
  BY <1>1, <1>2, CarriedKept, QueuesInv

\* MPI_Wait.
LEMMA WaitInv ==
    ASSUME Inv, NEW r \in Rank, MPI_Wait(r)
    PROVE  Inv'
<1>1. Control /\ Carried /\ arg' = arg /\ UNCHANGED <<data, poll, file>>
  BY DEF Inv, MPI_Wait
<1>2. Control' /\ NothingReached /\ NothingSent /\ OwnsKept
  BY <1>1, WaitTurn
<1> QED
  BY <1>1, <1>2, CarriedKept, QueuesInv

\* A call of a rank's own that keeps what is stored well formed.
LEMMA OwnInv ==
    ASSUME Inv, NEW r \in Rank, NEW what, At(r, what), what \notin Messages, what # "test", Advance(r),
           arg' = arg, UNCHANGED poll, sends' = sends, recvs' = recvs,
           Stored', file' \in Seq(Rows), \A s \in freed' : s \in freed \/ (s = r /\ what = "free")
    PROVE  Inv'
<1>1. Control /\ Carried
  BY DEF Inv
<1>2. Control' /\ NothingReached /\ NothingSent /\ TurnAt(r, Own(what))
  BY <1>1, OwnTurn
<1>3. \A s \in Rank : \A w : Did(s, Own(w))' <=> Did(s, Own(w)) \/ (s = r /\ w = what)
  BY <1>2, OwnDid
<1>4. Carried'
  BY <1>1, <1>2, CarriedKept
<1>5. FreedDid'
  BY <1>3 DEF Inv, FreedDid
<1>6. Polling'
  <2>1. Did(Root, Own("test"))' => Did(Root, Own("test"))
    BY <1>3, RankFacts
  <2>2. \A x, y \in Rank, e \in SendBufs : Sends(x, y, e) => (Delivered(x, y, e) => Delivered(x, y, e)')
    BY <1>2 DEF NothingReached
  <2> QED
    BY <2>1, <2>2, PollingKept DEF Inv
<1> QED
  BY <1>2, <1>4, <1>5, <1>6 DEF Inv

\* The calls of its own that change no value.
LEMMA IdleInv ==
    ASSUME Inv, NEW r \in Rank, PrintFile(r) \/ Free(r) \/ MPI_Finalize(r)
    PROVE  Inv'
<1>0. /\ \A what : what \notin {"test", "Isend", "Irecv", "WaitSend", "WaitRecv"} => what \notin Messages /\ what # "test"
      /\ {"xc", "yc", "dyc"} = Arrays
  BY DEF Messages, Arrays
<1>1. CASE PrintFile(r)
  <2>1. At(r, "print") /\ Advance(r) /\ arg' = arg /\ UNCHANGED poll /\ sends' = sends /\ recvs' = recvs
        /\ yc' = yc /\ dyc' = dyc /\ full' = full /\ freed' = freed /\ file' = Append(file, full)
    BY <1>1 DEF PrintFile, data
  <2>2. Stored'
    BY <2>1 DEF Inv, Stored
  <2>3. file' \in Seq(Rows)
    <3>1. full \in Rows /\ file \in Seq(Rows)
      BY DEF Inv, Stored, Rows
    <3> QED
      BY <2>1, <3>1, Appending
  <2>4. Inv' 
    BY <1>0, <2>1, <2>2, <2>3, OwnInv
  <2> QED
    BY <2>4
<1>2. CASE Free(r)
  <2>1. At(r, "free") /\ Advance(r) /\ arg' = arg /\ UNCHANGED poll /\ sends' = sends /\ recvs' = recvs
        /\ yc' = yc /\ dyc' = dyc /\ full' = full /\ freed' = freed \cup {r} /\ file' = file
    BY <1>2 DEF Free
  <2>2. Stored'
    BY <2>1 DEF Inv, Stored
  <2>3. file' \in Seq(Rows) /\ \A s \in freed' : s \in freed \/ s = r
    BY <2>1 DEF Inv
  <2> QED
    BY <1>0, <2>1, <2>2, <2>3, OwnInv
<1>3. CASE MPI_Finalize(r)
  <2>1. At(r, "finalize") /\ Advance(r) /\ arg' = arg /\ UNCHANGED poll /\ sends' = sends /\ recvs' = recvs
        /\ yc' = yc /\ dyc' = dyc /\ full' = full /\ freed' = freed /\ file' = file
    BY <1>3 DEF MPI_Finalize, data
  <2>2. Stored'
    BY <2>1 DEF Inv, Stored
  <2>3. file' \in Seq(Rows)
    BY <2>1 DEF Inv
  <2> QED
    BY <1>0, <2>1, <2>2, <2>3, OwnInv
<1> QED
  BY <1>1, <1>2, <1>3

\* A rank's row and its derivative are set apart from those of the others.
LEMMA GhostsStored ==
    ASSUME Stored, NEW r \in Rank, SetGhosts(r)
    PROVE  /\ yc'[r] = [yc[r] EXCEPT ![0] = IF r = Root /\ DxKnown(r) THEN {0} ELSE Junk,
                            ![counts(r) + 1] = IF r = LastRank /\ DxKnown(r) THEN {NGRID + 1} ELSE Junk]
           /\ \A s \in Rank : s # r => yc'[s] = yc[s]
           /\ Stored'
<1>1. yc' = [yc EXCEPT
         ![r][0] = IF r = Root /\ DxKnown(r) THEN {0} ELSE Junk,
         ![r][counts(r) + 1] = IF r = LastRank /\ DxKnown(r) THEN {NGRID + 1} ELSE Junk]
      /\ dyc' = dyc /\ full' = full
  BY DEF SetGhosts
<1>2. PICK x, y : x = (IF r = Root /\ DxKnown(r) THEN {0} ELSE Junk) /\ y = IF r = LastRank /\ DxKnown(r) THEN {NGRID + 1} ELSE Junk
  OBVIOUS
<1>3. x \in Value /\ y \in Value
  BY <1>2, NGRIDAssumption DEF Value, Junk
<1>4. yc' = [yc EXCEPT ![r][0] = x, ![r][counts(r) + 1] = y]
  BY <1>1, <1>2
<1>5. DOMAIN yc = Rank
  BY DEF Stored
<1>6. /\ DOMAIN yc' = Rank /\ \A s \in Rank : s # r => yc'[s] = yc[s]
      /\ yc'[r] = [yc[r] EXCEPT ![0] = x, ![counts(r) + 1] = y]
  BY <1>4, <1>5
<1>7. yc[r] \in [0 .. counts(r) + 1 -> Value]
  BY DEF Stored
<1>8. yc'[r] \in [0 .. counts(r) + 1 -> Value]
  BY <1>3, <1>6, <1>7
<1>9. Stored'
  BY <1>1, <1>6, <1>8 DEF Stored
<1> QED
  BY <1>2, <1>6, <1>9

\* What ComputeYC stores.
LEMMA YCStored ==
    ASSUME Stored, NEW r \in Rank, ComputeYC(r)
    PROVE  /\ yc'[r] = [k \in 0 .. counts(r) + 1 |-> IF k \in Inner(r) THEN XC(r)[k] ELSE yc[r][k]]
           /\ \A s \in Rank : s # r => yc'[s] = yc[s]
           /\ Stored'
<1>1. yc' = [yc EXCEPT ![r] = [k \in DOMAIN @ |-> IF k \in Inner(r) THEN XC(r)[k] ELSE @[k]]]
      /\ dyc' = dyc /\ full' = full
  BY DEF ComputeYC
<1>2. DOMAIN yc = Rank /\ yc[r] \in [0 .. counts(r) + 1 -> Value]
  BY DEF Stored
<1>3. XC(r) \in [Inner(r) -> Value]
  BY XCTyped
<1>4. PICK f : f = [k \in DOMAIN yc[r] |-> IF k \in Inner(r) THEN XC(r)[k] ELSE yc[r][k]]
  OBVIOUS
<1>5. yc' = [yc EXCEPT ![r] = f]
  BY <1>1, <1>4
<1>6. f = [k \in 0 .. counts(r) + 1 |-> IF k \in Inner(r) THEN XC(r)[k] ELSE yc[r][k]]
  BY <1>2, <1>4
<1>7. f \in [0 .. counts(r) + 1 -> Value]
  BY <1>2, <1>3, <1>6
<1>8. DOMAIN yc' = Rank /\ yc'[r] = f /\ \A s \in Rank : s # r => yc'[s] = yc[s]
  BY <1>2, <1>5
<1>9. Stored'
  BY <1>1, <1>7, <1>8 DEF Stored
<1> QED
  BY <1>6, <1>8, <1>9

\* What ComputeDYC stores.
LEMMA DYCStored ==
    ASSUME Stored, NEW r \in Rank, ComputeDYC(r)
    PROVE  /\ dyc'[r] = [k \in Inner(r) |-> IF DxKnown(r) THEN yc[r][k + 1] \cup yc[r][k - 1] ELSE Junk]
           /\ \A s \in Rank : s # r => dyc'[s] = dyc[s]
           /\ Stored'
<1>1. PICK f : f = [k \in Inner(r) |-> IF DxKnown(r) THEN yc[r][k + 1] \cup yc[r][k - 1] ELSE Junk]
  OBVIOUS
<1>2. dyc' = [dyc EXCEPT ![r] = f] /\ yc' = yc /\ full' = full
  BY <1>1 DEF ComputeDYC
<1>3. DOMAIN dyc = Rank /\ yc[r] \in [0 .. counts(r) + 1 -> Value]
  BY DEF Stored
<1>4. counts(r) \in Nat
  BY BlockBounds
<1>5. \A k \in Inner(r) : yc[r][k + 1] \in Value /\ yc[r][k - 1] \in Value
  BY <1>3, <1>4 DEF Inner
<1>6. \A x, y \in Value : x \cup y \in Value
  BY DEF Value
<1>7. f \in [Inner(r) -> Value]
  <2>1. Junk \in Value
    BY DEF Junk, Value
  <2> QED
    BY <1>1, <1>5, <1>6, <2>1
<1>8. DOMAIN dyc' = Rank /\ dyc'[r] = f /\ \A s \in Rank : s # r => dyc'[s] = dyc[s]
  BY <1>2, <1>3
<1>9. Stored'
  BY <1>2, <1>7, <1>8 DEF Stored
<1> QED
  BY <1>1, <1>8, <1>9

\* An array of the root with the block of rank s.
LEMMA BlockTyped ==
    ASSUME Stored, NEW s \in Rank, NEW b \in Arrays, NEW values \in Seq(Value), Len(values) = counts(s)
    PROVE  /\ Place(full[b], s, values) \in [1 .. NGRID -> Value]
           /\ \A p \in start(s) .. end(s) : p - disp(s) \in 1 .. counts(s) /\ Place(full[b], s, values)[p] = values[p - disp(s)]
           /\ \A p \in 1 .. NGRID : p \notin start(s) .. end(s) => Place(full[b], s, values)[p] = full[b][p]
<1>1. PICK n : n = counts(s)
  OBVIOUS
<1>2. n \in Nat /\ DOMAIN values = 1 .. n /\ values \in [1 .. n -> Value]
  <2>1. n \in Nat
    BY <1>1, BlockBounds
  <2>2. Len(values) = n /\ values \in [1 .. Len(values) -> Value]
    BY <1>1
  <2> QED
    BY <2>1, <2>2
<1>3. full[b] \in [1 .. NGRID -> Value]
  BY DEF Stored
<1>4. Place(full[b], s, values) \in [1 .. NGRID -> Value]
  BY <1>2, <1>3, PlaceTyped
<1>5. /\ start(s) \in Nat /\ start(s) >= 1 /\ start(s) + n - 1 = end(s) /\ end(s) <= NGRID
      /\ disp(s) = start(s) - 1 /\ NGRID \in Nat
  BY <1>1, BlockBounds
<1>6. \A p \in 1 .. NGRID : p - disp(s) \in 1 .. n <=> p \in start(s) .. end(s)
  BY <1>2, <1>5
<1>7. \A p \in start(s) .. end(s) : p \in 1 .. NGRID
  BY <1>2, <1>5
<1>8. \A p \in 1 .. NGRID : Place(full[b], s, values)[p] = IF p - disp(s) \in 1 .. n THEN values[p - disp(s)] ELSE full[b][p]
  BY <1>2 DEF Place
<1> QED
  BY <1>1, <1>4, <1>6, <1>7, <1>8

\* What CopyOwn stores.
LEMMA CopyStored ==
    ASSUME Stored, NEW r \in Rank, CopyOwn(r)
    PROVE  /\ full' = [b \in Arrays |-> Place(full[b], Root, Contents(r, b))]
           /\ yc' = yc /\ dyc' = dyc
           /\ r = Root => Stored'
<1>1. DOMAIN full = Arrays
  BY DEF Stored
<1>2. full' = [b \in Arrays |-> Place(full[b], Root, Contents(r, b))] /\ yc' = yc /\ dyc' = dyc
  BY <1>1 DEF CopyOwn
<1>3. ASSUME r = Root, NEW b \in Arrays
      PROVE  Place(full[b], Root, Contents(r, b)) \in [1 .. NGRID -> Value]
  <2>1. b \in SendBufs
    BY Buffers
  <2>2. Contents(r, b) \in Seq(Value) /\ Len(Contents(r, b)) = counts(r)
    BY <2>1, ContentsTyped DEF Size
  <2> QED
    BY <1>3, <2>2, BlockTyped
<1>4. r = Root => full' \in [Arrays -> [1 .. NGRID -> Value]]
  BY <1>2, <1>3
<1> QED
  BY <1>2, <1>4 DEF Stored

\* A sequence of one element.
LEMMA FirstOf ==
    ASSUME NEW S, NEW z \in Seq(S), Len(z) = 1
    PROVE  z[1] \in S
<1>1. \A k \in 1 .. Len(z) : z[k] \in S
  OBVIOUS
<1>2. 1 \in 1 .. Len(z)
  OBVIOUS
<1> QED
  BY <1>1, <1>2

\* The library puts a message where its receive says.
LEMMA StoreStored ==
    ASSUME Stored, NEW s \in Rank, NEW d \in Rank, NEW b \in SendBufs,
           NEW values \in Seq(Value), Len(values) = Size(s, b), Store(s, d, Into(b), values)
    PROVE  /\ Stored' /\ freed' = freed
           /\ b = "last" => /\ yc'[d] = [yc[d] EXCEPT ![0] = values[1]] /\ dyc' = dyc /\ full' = full
                            /\ \A x \in Rank : x # d => yc'[x] = yc[x]
           /\ b = "first" => /\ yc'[d] = [yc[d] EXCEPT ![counts(d) + 1] = values[1]] /\ dyc' = dyc /\ full' = full
                             /\ \A x \in Rank : x # d => yc'[x] = yc[x]
           /\ b = "time" => yc' = yc /\ dyc' = dyc /\ full' = full
           /\ b \in Arrays => /\ full' = [full EXCEPT ![b] = Place(full[b], s, values)]
                              /\ yc' = yc /\ dyc' = dyc
<1>0. DOMAIN yc = Rank /\ yc[d] \in [0 .. counts(d) + 1 -> Value] /\ counts(d) \in Nat /\ DOMAIN full = Arrays
  BY BlockBounds DEF Stored
<1>1. CASE b = "last"
  <2>1. yc' = [yc EXCEPT ![d][0] = values[1]] /\ dyc' = dyc /\ full' = full /\ freed' = freed
    BY <1>1, IntoFacts DEF Store
  <2>2. values[1] \in Value
    <3>1. Len(values) = 1
      BY <1>1 DEF Size, Arrays
    <3> QED
      BY <3>1, FirstOf
  <2>3. DOMAIN yc' = Rank /\ yc'[d] = [yc[d] EXCEPT ![0] = values[1]] /\ \A x \in Rank : x # d => yc'[x] = yc[x]
    BY <1>0, <2>1
  <2>4. yc'[d] \in [0 .. counts(d) + 1 -> Value]
    BY <1>0, <2>2, <2>3
  <2>5. Stored'
    BY <2>1, <2>3, <2>4 DEF Stored
  <2> QED
    BY <1>1, <2>1, <2>3, <2>5 DEF Arrays
<1>2. CASE b = "first"
  <2>1. yc' = [yc EXCEPT ![d][counts(d) + 1] = values[1]] /\ dyc' = dyc /\ full' = full /\ freed' = freed
    BY <1>2, IntoFacts DEF Store
  <2>2. values[1] \in Value
    <3>1. Len(values) = 1
      BY <1>2 DEF Size, Arrays
    <3> QED
      BY <3>1, FirstOf
  <2>3. DOMAIN yc' = Rank /\ yc'[d] = [yc[d] EXCEPT ![counts(d) + 1] = values[1]] /\ \A x \in Rank : x # d => yc'[x] = yc[x]
    BY <1>0, <2>1
  <2>4. yc'[d] \in [0 .. counts(d) + 1 -> Value]
    BY <1>0, <2>2, <2>3
  <2>5. Stored'
    BY <2>1, <2>3, <2>4 DEF Stored
  <2> QED
    BY <1>2, <2>1, <2>3, <2>5 DEF Arrays
<1>3. CASE b = "time"
  <2>1. yc' = yc /\ dyc' = dyc /\ full' = full /\ freed' = freed
    BY <1>3, IntoFacts DEF Store, data
  <2>2. Stored'
    BY <2>1 DEF Stored
  <2> QED
    BY <1>3, <2>1, <2>2 DEF Arrays
<1>4. CASE b \in Arrays
  <2>1. Into(b) = b /\ b \notin {"left", "right", "time", "first", "last"}
    BY <1>4, IntoFacts DEF Arrays
  <2>2. full' = [full EXCEPT ![b] = Place(full[b], s, values)] /\ yc' = yc /\ dyc' = dyc /\ freed' = freed
    BY <1>4, <2>1 DEF Store
  <2>3. Len(values) = counts(s)
    BY <1>4 DEF Size
  <2>4. Place(full[b], s, values) \in [1 .. NGRID -> Value]
    BY <1>4, <2>3, BlockTyped
  <2>5. Stored'
    BY <1>4, <2>2, <2>4 DEF Stored
  <2> QED
    BY <2>1, <2>2, <2>5
<1> QED
  BY <1>1, <1>2, <1>3, <1>4, Buffers

\* The calls that compute.
LEMMA ComputeInv ==
    ASSUME Inv, NEW r \in Rank, SetGhosts(r) \/ ComputeYC(r) \/ ComputeDYC(r) \/ CopyOwn(r)
    PROVE  Inv'
<1>0. /\ \A what : what \notin {"test", "Isend", "Irecv", "WaitSend", "WaitRecv"} => what \notin Messages /\ what # "test"
      /\ Control /\ Stored /\ file \in Seq(Rows)
  BY DEF Messages, Inv
<1>1. CASE SetGhosts(r)
  <2>1. At(r, "ghosts") /\ Advance(r) /\ arg' = arg /\ UNCHANGED poll /\ sends' = sends /\ recvs' = recvs
        /\ freed' = freed /\ file' = file
    BY <1>1 DEF SetGhosts
  <2>2. Stored'
    BY <1>0, <1>1, GhostsStored
  <2>3. Inv'
    BY <1>0, <2>1, <2>2, OwnInv
  <2> QED
    BY <2>3
<1>2. CASE ComputeYC(r)
  <2>1. At(r, "yc") /\ Advance(r) /\ arg' = arg /\ UNCHANGED poll /\ sends' = sends /\ recvs' = recvs
        /\ freed' = freed /\ file' = file
    BY <1>2 DEF ComputeYC
  <2>2. Stored'
    BY <1>0, <1>2, YCStored
  <2>3. Inv'
    BY <1>0, <2>1, <2>2, OwnInv
  <2> QED
    BY <2>3
<1>3. CASE ComputeDYC(r)
  <2>1. At(r, "dyc") /\ Advance(r) /\ arg' = arg /\ UNCHANGED poll /\ sends' = sends /\ recvs' = recvs
        /\ freed' = freed /\ file' = file
    BY <1>3 DEF ComputeDYC
  <2>2. Stored'
    BY <1>0, <1>3, DYCStored
  <2>3. Inv'
    BY <1>0, <2>1, <2>2, OwnInv
  <2> QED
    BY <2>3
<1>4. CASE CopyOwn(r)
  <2>1. At(r, "copy") /\ Advance(r) /\ arg' = arg /\ UNCHANGED poll /\ sends' = sends /\ recvs' = recvs
        /\ freed' = freed /\ file' = file
    BY <1>4 DEF CopyOwn
  <2>2. "copy" \in OwnCalls(arg, r)
    BY <1>0, <2>1, OwnTurn
  <2>3. r = Root
    BY <2>2 DEF OwnCalls
  <2>4. Stored'
    BY <1>0, <1>4, <2>3, CopyStored
  <2>5. Inv'
    BY <1>0, <2>1, <2>4, OwnInv
  <2> QED
    BY <2>5
<1> QED
  BY <1>1, <1>2, <1>3, <1>4

\* At the loop the root has asked for every block.
LEMMA AtTest ==
    ASSUME Control, NEW r \in Rank, At(r, "test")
    PROVE  /\ r = Root /\ numproc # 1 /\ ~Did(Root, Own("test"))
           /\ \A s \in Rank, b \in Arrays : s # Root => Did(Root, Awaiting(arg, s, b))
<1>0. Running /\ arg \in Arguments /\ ~Done(r)
  BY DEF Control, Running, At
<1>1. /\ Call(r) \in ProgramCalls(arg, r) /\ Call(r).call = "test"
      /\ \A e \in ProgramCalls(arg, r) : Did(r, e) <=> Order(arg, e) < Order(arg, Call(r))
  BY <1>0, Turn DEF At
<1>2. "test" \in OwnCalls(arg, r) /\ Call(r) = Own("test")
  <2>1. "test" \notin Messages
    BY DEF Messages
  <2> QED
    BY <1>1, <2>1, CallKinds
<1>3. r = Root /\ numproc # 1 /\ Early(arg)
  BY <1>2 DEF OwnCalls
<1>4. Order(arg, Own("test")) = 23 * Width
  BY <1>3, Orders
<1>5. ~Did(Root, Own("test"))
  BY <1>1, <1>2, <1>3, <1>4, Widths
<1>6. ASSUME NEW s \in Rank, NEW b \in Arrays, s # Root
      PROVE  Did(Root, Awaiting(arg, s, b))
  <2>1. Sends(s, Root, b) /\ b \in SendBufs
    BY <1>6, Buffers DEF Sends, Arrays
  <2>2. Awaiting(arg, s, b) \in ProgramCalls(arg, r)
    BY <1>3, <2>1, ProgramAwaits
  <2>3. Order(arg, Awaiting(arg, s, b)) = (IF b = "xc" THEN 1 ELSE IF b = "yc" THEN 6 ELSE 17) * Width + 6 * s
    BY <1>3, ArrayOrders
  <2>4. 6 * s < Width /\ Width \in Int /\ s \in Int /\ Width > 0
    <3>1. s \in Nat /\ s < numproc
      BY RankFacts
    <3> QED
      BY <3>1, Widths, numprocAssumption DEF Width
  <2>5. Order(arg, Awaiting(arg, s, b)) < 23 * Width
    BY <2>3, <2>4
  <2> QED
    BY <1>1, <1>2, <1>3, <1>4, <2>2, <2>5
<1> QED
  BY <1>3, <1>5, <1>6

\* The requests found complete.
LEMMA Counting ==
    ASSUME NEW n \in Nat, NEW S, S \subseteq 0 .. n - 1
    PROVE  /\ IsFiniteSet(S) /\ Cardinality(S) \in 0 .. n
           /\ Cardinality(S) = n => S = 0 .. n - 1
           /\ \A x \in 0 .. n - 1 : x \notin S => Cardinality(S \cup {x}) = Cardinality(S) + 1
<1>1. IsFiniteSet(0 .. n - 1) /\ Cardinality(0 .. n - 1) = n
  BY FS_Interval
<1>2. IsFiniteSet(S) /\ Cardinality(S) \in Nat /\ Cardinality(S) <= n
      /\ (Cardinality(S) = n => S = 0 .. n - 1)
  BY <1>1, FS_Subset, FS_CardinalityType
<1>3. \A x : x \notin S => Cardinality(S \cup {x}) = Cardinality(S) + 1
  BY <1>2, FS_AddElement
<1> QED
  BY <1>2, <1>3

\* A turn of the MPI_Test loop: it ends when each request was counted once.
LEMMA TestInv ==
    ASSUME Inv, NEW r \in Rank, MPI_Test(r)
    PROVE  Inv'
<1>1. PICK found \in BOOLEAN : found <=> i \notin null /\ Complete3(i)
  OBVIOUS
<1>2. /\ At(r, "test") /\ arg' = arg /\ UNCHANGED <<data, file>> /\ sends' = sends /\ recvs' = recvs
      /\ null' = (IF found THEN null \cup {i} ELSE null)
      /\ count_flag' = (IF found THEN count_flag + 1 ELSE count_flag)
      /\ IF count_flag' = Requests THEN Advance(r) /\ i' = i ELSE i' = (i + 1) % Requests /\ pc' = pc
  BY <1>1 DEF MPI_Test
<1>3. Control /\ Stored /\ Carried /\ Polling /\ FreedDid /\ file \in Seq(Rows)
  BY DEF Inv
<1>4. /\ r = Root /\ numproc # 1 /\ ~Did(Root, Own("test"))
      /\ \A s \in Rank, b \in Arrays : s # Root => Did(Root, Awaiting(arg, s, b))
  BY <1>2, <1>3, AtTest
<1>5. Requests \in Nat /\ Requests > 0 /\ i \in 0 .. Requests - 1 /\ null \subseteq 0 .. Requests - 1
      /\ count_flag = Cardinality(null)
  BY <1>3, <1>4, RequestFacts DEF Polling
<1>6. found => Delivered(RequestSource(i), Root, RequestArray(i))
  <2> SUFFICES ASSUME found
               PROVE  Delivered(RequestSource(i), Root, RequestArray(i))
    OBVIOUS
  <2>1. PICK s, b : s = RequestSource(i) /\ b = RequestArray(i)
    OBVIOUS
  <2>2. s \in Rank /\ b \in Arrays /\ Sends(s, Root, b)
    BY <1>5, <2>1, RequestFacts
  <2>3. s # Root
    BY <2>2 DEF Sends, Arrays
  <2>4. RecvDone(s, Root, b)
    BY <1>1, <2>1 DEF Complete3, RequestSource, RequestArray
  <2>5. Into(b) = b
    BY <2>2, Buffers, IntoFacts
  <2>6. ~Waited(s, Root, b)
    BY <2>4, <2>5 DEF RecvDone, Waited
  <2>7. Did(Root, Awaiting(arg, s, b))
    BY <1>4, <2>2, <2>3
  <2> QED
    BY <2>1, <2>6, <2>7 DEF Delivered
<1>7. null' \subseteq 0 .. Requests - 1 /\ count_flag' = Cardinality(null')
  <2>1. found => Cardinality(null \cup {i}) = Cardinality(null) + 1
    BY <1>1, <1>5, Counting
  <2> QED
    BY <1>2, <1>5, <2>1
<1>8. \A q1 \in null' : Delivered(RequestSource(q1), Root, RequestArray(q1))
  BY <1>2, <1>3, <1>6 DEF Polling
<1>9. i' \in 0 .. Requests - 1
  <2>1. (i + 1) % Requests \in 0 .. Requests - 1
    BY <1>5
  <2> QED
    BY <1>2, <1>5, <2>1
<1>10. Stored' /\ file' \in Seq(Rows) /\ freed' = freed
  BY <1>2, <1>3 DEF data, Stored
<1>11. CASE count_flag' = Requests
  <2>1. Advance(r) /\ "test" \notin Messages
    BY <1>2, <1>11 DEF Messages
  <2>2. Control' /\ NothingReached /\ NothingSent /\ TurnAt(r, Own("test"))
    BY <1>2, <1>3, <2>1, OwnTurn
  <2>3. Carried'
    BY <1>2, <1>3, <2>2, CarriedKept
  <2>4. \A s \in Rank : \A w : Did(s, Own(w))' <=> Did(s, Own(w)) \/ (s = r /\ w = "test")
    BY <2>2, OwnDid
  <2>5. FreedDid'
    BY <1>3, <1>10, <2>4 DEF FreedDid
  <2>6. null' = 0 .. Requests - 1
    BY <1>5, <1>7, <1>11, Counting
  <2>7. ASSUME NEW q1 \in null'
        PROVE  Delivered(RequestSource(q1), Root, RequestArray(q1))'
    <3>1. PICK s, b : s = RequestSource(q1) /\ b = RequestArray(q1)
      OBVIOUS
    <3>2. s \in Rank /\ b \in Arrays /\ Sends(s, Root, b) /\ Delivered(s, Root, b)
      BY <1>7, <1>8, <3>1, RequestFacts
    <3>3. Root \in Rank /\ b \in SendBufs
      BY <3>2, RankFacts, Buffers
    <3>4. Delivered(s, Root, b)'
      BY <2>2, <3>2, <3>3 DEF NothingReached
    <3> QED
      BY <3>1, <3>4
  <2>8. Polling'
    BY <1>5, <1>7, <1>9, <2>6, <2>7 DEF Polling
  <2> QED
    BY <1>10, <2>2, <2>3, <2>5, <2>8 DEF Inv
<1>12. CASE count_flag' # Requests
  <2>1. pc' = pc
    BY <1>2, <1>12
  <2>2. Control' /\ NothingReached /\ NothingSent /\ OwnsKept
    BY <1>2, <1>3, <2>1, SameControl
  <2>3. Carried'
    BY <1>2, <1>3, <2>2, CarriedKept
  <2>4. "test" \notin Messages /\ "free" \notin Messages /\ Root \in Rank
    BY RankFacts DEF Messages
  <2>5. FreedDid'
    BY <1>3, <1>10, <2>2, <2>4 DEF FreedDid, OwnsKept
  <2>6. ~Did(Root, Own("test"))'
    BY <1>4, <2>2, <2>4 DEF OwnsKept
  <2>7. ASSUME NEW q1 \in null'
        PROVE  Delivered(RequestSource(q1), Root, RequestArray(q1))'
    <3>1. PICK s, b : s = RequestSource(q1) /\ b = RequestArray(q1)
      OBVIOUS
    <3>2. s \in Rank /\ b \in Arrays /\ Sends(s, Root, b) /\ Delivered(s, Root, b)
      BY <1>7, <1>8, <3>1, RequestFacts
    <3>3. Root \in Rank /\ b \in SendBufs
      BY <3>2, RankFacts, Buffers
    <3>4. Delivered(s, Root, b)'
      BY <2>2, <3>2, <3>3 DEF NothingReached
    <3> QED
      BY <3>1, <3>4
  <2>8. Polling'
    BY <1>5, <1>7, <1>9, <2>6, <2>7 DEF Polling
  <2> QED
    BY <1>10, <2>2, <2>3, <2>5, <2>8 DEF Inv
<1> QED
  BY <1>11, <1>12

\* A transfer.
LEMMA TransferInv ==
    ASSUME Inv, NEW s \in Rank, NEW d \in Rank, Transfer(s, d)
    PROVE  Inv'
<1>1. arg' = arg /\ UNCHANGED poll /\ file' = file
  BY DEF Transfer
<1>2. Control /\ Stored /\ Carried /\ Polling /\ FreedDid /\ file \in Seq(Rows)
  BY DEF Inv
<1>3. Control' /\ NothingSent /\ OwnsKept
  BY <1>2, TransferTurn
<1>4. PICK b \in SendBufs : Moved(s, d, b)
  BY <1>2, TransferTurn
<1>5. PICK u \in Message : /\ InQueue(s, d, u) /\ u.from = b
                           /\ \E values \in Sent(s, u) : Store(s, d, Into(b), values)
  BY <1>4 DEF Moved
<1>6. PICK values \in Sent(s, u) : Store(s, d, Into(b), values)
  BY <1>5
<1>7. values \in Seq(Value) /\ Len(values) = Size(s, b)
  BY <1>2, <1>5, SentTyped
<1>8. Stored' /\ freed' = freed
  BY <1>2, <1>6, <1>7, StoreStored
<1>9. Carried'
  BY <1>1, <1>2, <1>3, CarriedKept
<1>10. "test" \notin Messages /\ "free" \notin Messages /\ Root \in Rank
  BY RankFacts DEF Messages
<1>11. FreedDid'
  BY <1>2, <1>3, <1>8, <1>10 DEF FreedDid, OwnsKept
<1>12. Polling'
  <2>1. \A x, y \in Rank, e \in SendBufs : Sends(x, y, e) => (Delivered(x, y, e) => Delivered(x, y, e)')
    BY <1>4 DEF Moved
  <2>2. Did(Root, Own("test"))' => Did(Root, Own("test"))
    BY <1>3, <1>10 DEF OwnsKept
  <2> QED
    BY <1>1, <1>2, <2>1, <2>2, PollingKept
<1> QED
  BY <1>1, <1>2, <1>3, <1>8, <1>9, <1>11, <1>12 DEF Inv
----------------------------------------------------------------------------
(* What every state satisfies.  *)

\* The invariant holds at the start,
LEMMA InitInv ==
    ASSUME Init
    PROVE  Inv
<1>0. /\ arg \in Arguments /\ pc = [r \in Rank |-> 0]
      /\ yc = [r \in Rank |-> [k \in 0 .. counts(r) + 1 |-> Junk]]
      /\ dyc = [r \in Rank |-> Blank(counts(r))]
      /\ full = [b \in {"xc", "yc", "dyc"} |-> Blank(NGRID)]
      /\ freed = {} /\ i = 0 /\ null = {} /\ count_flag = 0 /\ file = << >>
      /\ sends = Idle(Rank) /\ recvs = Idle(Rank)
  BY DEF Init
<1>1. \A r \in Rank : \A c : ~Did(r, c)
  BY <1>0 DEF Did
<1>2. Running
  <2> SUFFICES ASSUME NEW r \in Rank
               PROVE  pc[r] \in 0 .. Len(Programs[arg][r])
    BY <1>0 DEF Running
  <2>1. Programs[arg][r] \in Seq(Calls)
    BY <1>0, CallsTyped
  <2>2. \A z \in Seq(Calls) : 0 \in 0 .. Len(z)
    OBVIOUS
  <2> QED
    BY <1>0, <2>1, <2>2
<1>3. QueuesTyped
  BY <1>0 DEF QueuesTyped, Idle
<1>4. \A s, d \in Rank : sends[<<s, d>>] = << >> /\ recvs[<<s, d>>] = << >>
  BY <1>0 DEF Idle
<1>5. Channels
  <2> SUFFICES ASSUME NEW s \in Rank, NEW d \in Rank
               PROVE  Channel(s, d)
    BY DEF Channels
  <2>1. DOMAIN sends[<<s, d>>] = {} /\ DOMAIN recvs[<<s, d>>] = {}
    BY <1>4
  <2>2. SendsKept(s, d)
    BY <2>1 DEF SendsKept
  <2>3. RecvsKept(s, d)
    BY <2>1 DEF RecvsKept
  <2>4. Met(s, d)
    BY <1>1 DEF Met
  <2>5. Waits(s, d)
    BY <1>1 DEF Waits
  <2> QED
    BY <2>2, <2>3, <2>4, <2>5 DEF Channel
<1>6. Stored
  <2>1. Junk \in Value
    BY DEF Junk, Value
  <2>2. \A r \in Rank : yc[r] \in [0 .. counts(r) + 1 -> Value] /\ dyc[r] \in [Inner(r) -> Value]
    BY <1>0, <2>1 DEF Blank, Inner
  <2>3. full \in [Arrays -> [1 .. NGRID -> Value]]
    BY <1>0, <2>1 DEF Blank, Arrays
  <2> QED
    BY <1>0, <2>2, <2>3 DEF Stored
<1>7. Carried
  BY <1>4 DEF Carried, InQueue
<1>8. Polling
  <2>1. Cardinality({}) = 0
    BY FS_EmptySet
  <2>2. ~Did(Root, Own("test"))
    BY <1>1, RankFacts
  <2> QED
    BY <1>0, <2>1, <2>2, RequestFacts DEF Polling
<1>9. FreedDid /\ file \in Seq(Rows)
  BY <1>0 DEF FreedDid
<1>10. pc \in [Rank -> Nat]
  BY <1>0
<1> QED
  BY <1>2, <1>3, <1>5, <1>6, <1>7, <1>8, <1>9, <1>10 DEF Inv, Control

\* and every step keeps it.
LEMMA NextInv ==
    ASSUME Inv, [Next]_vars
    PROVE  Inv'
<1>1. CASE \E r \in Rank : Step(r)
  <2>1. PICK r \in Rank : Step(r)
    BY <1>1
  <2>2. CASE MPI_Isend(r)
    BY <2>2, SendInv
  <2>3. CASE MPI_Irecv(r)
    BY <2>3, RecvInv
  <2>4. CASE MPI_Wait(r)
    BY <2>4, WaitInv
  <2>5. CASE MPI_Test(r)
    BY <2>5, TestInv
  <2>6. CASE PrintFile(r) \/ Free(r) \/ MPI_Finalize(r)
    BY <2>6, IdleInv
  <2>7. CASE SetGhosts(r) \/ ComputeYC(r) \/ ComputeDYC(r) \/ CopyOwn(r)
    BY <2>7, ComputeInv
  <2> QED
    BY <2>1, <2>2, <2>3, <2>4, <2>5, <2>6, <2>7 DEF Step
<1>2. CASE Delivery
  BY <1>2, TransferInv DEF Delivery
<1>3. CASE UNCHANGED vars
  <2>1. arg' = arg /\ pc' = pc /\ UNCHANGED <<data, poll, file>> /\ sends' = sends /\ recvs' = recvs
    BY <1>3 DEF vars
  <2>2. Control /\ Carried
    BY DEF Inv
  <2>3. Control' /\ NothingReached /\ NothingSent /\ OwnsKept
    BY <2>1, <2>2, SameControl
  <2> QED
    BY <2>1, <2>2, <2>3, CarriedKept, QueuesInv
<1> QED
  BY <1>1, <1>2, <1>3 DEF Next

\* Every state satisfies the invariant: each rank has made the calls of its
\* program up to pc, each queue holds what was sent and not received in the
\* order and with the tags of the calls, edges and blocks alike (lines
\* 113-227), and the MPI_Test loop counts each request once (lines 240-262).
THEOREM Invariance == Spec => []Inv
<1>1. Init => Inv
  BY InitInv
<1>2. Inv /\ [Next]_vars => Inv'
  BY NextInv
<1> QED
  BY <1>1, <1>2, PTL DEF Spec

\* The invariant has the types.
LEMMA TypeOKHolds ==
    ASSUME Inv
    PROVE  TypeOK
<1>1. Control /\ Stored /\ Polling /\ FreedDid /\ file \in Seq(Rows)
  BY DEF Inv
<1>2. arg \in Arguments /\ \A r \in Rank : pc[r] \in 0 .. Len(Programs[arg][r])
  BY <1>1 DEF Control, Running
<1>3. /\ \A r \in Rank : yc[r] \in [0 .. counts(r) + 1 -> Value]
      /\ \A r \in Rank : dyc[r] \in [Inner(r) -> Value]
      /\ full \in [{"xc", "yc", "dyc"} -> [1 .. NGRID -> Value]]
  BY <1>1 DEF Stored, Arrays
<1>4. i \in 0 .. Requests /\ null \subseteq 0 .. Requests /\ count_flag \in 0 .. Requests
  <2>1. Requests \in Nat
    BY RequestFacts
  <2>2. i \in 0 .. Requests /\ null \subseteq 0 .. Requests - 1 /\ count_flag = Cardinality(null)
    BY <1>1 DEF Polling
  <2>3. Cardinality(null) \in 0 .. Requests
    BY <2>1, <2>2, Counting
  <2>4. null \subseteq 0 .. Requests
    BY <2>1, <2>2
  <2> QED
    BY <2>2, <2>3, <2>4
<1>5. file \in Seq([{"xc", "yc", "dyc"} -> [1 .. NGRID -> Value]])
  BY <1>1 DEF Rows, Arrays
<1>6. /\ sends \in [Rank \X Rank -> Seq([tag : Int, from : SendBufs, copied : BOOLEAN, data : Seq(Value)])]
      /\ recvs \in [Rank \X Rank -> Seq([tag : Int, into : RecvBufs])]
  BY <1>1 DEF Control, QueuesTyped, Message, Receive
<1> QED
  BY <1>1, <1>2, <1>3, <1>4, <1>5, <1>6 DEF TypeOK, FreedDid

\* Every variable keeps its type: the blocks fill the arrays that lines 98-103
\* allocate, and no index of the MPI_Test loop leaves gather_data (line 247).
THEOREM TypeCorrect == Spec => []TypeOK
  BY Invariance, TypeOKHolds, PTL

\* A receive that was waited for, by MPI_Wait or in the loop, has its message.
LEMMA Arrived ==
    ASSUME Inv, NEW s \in Rank, NEW d \in Rank, NEW b \in SendBufs, Sends(s, d, b),
           IF WaitsForRecv(arg, b) THEN Did(d, Received(s, b)) ELSE Did(Root, Own("test"))
    PROVE  Delivered(s, d, b)
<1>1. Running /\ Channel(s, d) /\ Polling
  BY DEF Inv, Control, Channels
<1>2. CASE WaitsForRecv(arg, b)
  <2>1. ~Waited(s, d, b)
    BY <1>1, <1>2 DEF Channel, Waits
  <2>2. Awaiting(arg, s, b) \in ProgramCalls(arg, d) /\ Received(s, b) \in ProgramCalls(arg, d)
    BY <1>2, ProgramAwaits
  <2>3. Order(arg, Awaiting(arg, s, b)) < Order(arg, Received(s, b))
    BY <1>2, RecvWaitsAfter
  <2>4. Did(d, Awaiting(arg, s, b))
    BY <1>1, <1>2, <2>2, <2>3, DidBefore
  <2> QED
    BY <2>1, <2>4 DEF Delivered
<1>3. CASE ~WaitsForRecv(arg, b)
  <2>1. b \in Arrays
    BY <1>3 DEF WaitsForRecv
  <2>2. s # Root /\ d = Root
    BY <2>1 DEF Sends, Arrays
  <2>3. PICK q1 \in 0 .. Requests - 1 : RequestSource(q1) = s /\ RequestArray(q1) = b
    BY <2>1, <2>2, RequestFacts
  <2>4. q1 \in null
    BY <1>1, <1>3 DEF Polling
  <2> QED
    BY <1>1, <2>2, <2>3, <2>4 DEF Polling
<1> QED
  BY <1>2, <1>3

\* Every message of a rank that is done has arrived.
LEMMA DoneArrived ==
    ASSUME Inv, \A r \in Rank : Done(r), NEW s \in Rank, NEW d \in Rank, NEW b \in SendBufs, Sends(s, d, b)
    PROVE  ~Queued(s, d, b) /\ ~Waited(s, d, b)
<1>1. Running /\ Channel(s, d)
  BY DEF Inv, Control, Channels
<1>2. WaitsForRecv(arg, b) => Did(d, Received(s, b))
  BY <1>1, ProgramAwaits, DidAll
<1>3. ~WaitsForRecv(arg, b) => Did(Root, Own("test"))
  <2> SUFFICES ASSUME ~WaitsForRecv(arg, b)
               PROVE  Did(Root, Own("test"))
    OBVIOUS
  <2>1. b \in Arrays /\ Early(arg)
    BY DEF WaitsForRecv
  <2>2. s # Root /\ Root \in Rank
    BY <2>1, RankFacts DEF Sends, Arrays
  <2>3. numproc # 1
    BY <2>2 DEF Rank, Root
  <2>4. "test" \in OwnCalls(arg, Root)
    BY <2>1, <2>3 DEF OwnCalls
  <2>5. Own("test") \in ProgramCalls(arg, Root)
    BY <2>2, <2>4, ProgramOwn
  <2> QED
    BY <1>1, <2>2, <2>5, DidAll
<1>4. Delivered(s, d, b)
  BY <1>2, <1>3, Arrived
<1>5. Did(s, Posting(arg, s, d, b))
  BY <1>1, ProgramPosts, DidAll
<1> QED
  BY <1>1, <1>4, <1>5 DEF Channel, Met, Delivered

\* A sequence without an element.
LEMMA EmptyQueue ==
    ASSUME NEW S, NEW z \in Seq(S), \A k \in DOMAIN z : FALSE
    PROVE  z = << >>
<1>1. Len(z) \in Nat /\ DOMAIN z = 1 .. Len(z)
  OBVIOUS
<1>2. Len(z) = 0
  <2>1. SUFFICES ASSUME Len(z) # 0
                 PROVE  FALSE
    OBVIOUS
  <2>2. 1 \in DOMAIN z
    BY <1>1, <2>1
  <2> QED
    BY <2>2
<1> QED
  BY <1>2

\* When all ranks are done, no message and no receive is left, for every way
\* of sending and of gathering: the calls of lines 113-227 pair up, though tag
\* 123 is used both for edges and for blocks.
THEOREM Settled == Spec => []NothingLeft
<1>1. ASSUME Inv
      PROVE  NothingLeft
  <2> SUFFICES ASSUME \A r \in Rank : Done(r)
               PROVE  sends = Idle(Rank) /\ recvs = Idle(Rank)
    BY DEF NothingLeft
  <2>0. /\ sends \in [Rank \X Rank -> Seq(Message)] /\ recvs \in [Rank \X Rank -> Seq(Receive)]
        /\ \A s, d \in Rank : Channel(s, d)
    BY <1>1 DEF Inv, Control, QueuesTyped, Channels
  <2>1. ASSUME NEW s \in Rank, NEW d \in Rank
        PROVE  sends[<<s, d>>] = << >> /\ recvs[<<s, d>>] = << >>
    <3>1. sends[<<s, d>>] \in Seq(Message) /\ recvs[<<s, d>>] \in Seq(Receive)
      BY <2>0
    <3>2. ASSUME NEW k \in DOMAIN sends[<<s, d>>]
          PROVE  FALSE
      <4>1. PICK b : b = sends[<<s, d>>][k].from
        OBVIOUS
      <4>2. b \in SendBufs
        <5>1. \A z \in Seq(Message) : \A l \in DOMAIN z : z[l] \in Message
          OBVIOUS
        <5>2. sends[<<s, d>>][k] \in Message
          BY <3>1, <5>1
        <5> QED
          BY <4>1, <5>2 DEF Message
      <4>3. Sends(s, d, b) /\ Queued(s, d, b)
        BY <2>0, <4>1 DEF Channel, SendsKept, Queued
      <4> QED
        BY <1>1, <4>2, <4>3, DoneArrived
    <3>3. ASSUME NEW k \in DOMAIN recvs[<<s, d>>]
          PROVE  FALSE
      <4>1. PICK b \in SendBufs : Sends(s, d, b) /\ recvs[<<s, d>>][k].into = Into(b)
        BY <2>0 DEF Channel, RecvsKept
      <4>2. Waited(s, d, b)
        BY <4>1 DEF Waited
      <4> QED
        BY <1>1, <4>1, <4>2, DoneArrived
    <3> QED
      BY <3>1, <3>2, <3>3, EmptyQueue
  <2>2. sends = [c \in Rank \X Rank |-> << >>] /\ recvs = [c \in Rank \X Rank |-> << >>]
    BY <2>0, <2>1
  <2> QED
    BY <2>2 DEF Idle
<1> QED
  BY <1>1, Invariance, PTL

\* What a rank has in a queue when it frees its arrays is copied, or a late block.
LEMMA FreedCopied ==
    ASSUME Inv, NEW r \in Rank, Did(r, Own("free")), NEW d \in Rank, NEW k \in DOMAIN sends[<<r, d>>]
    PROVE  sends[<<r, d>>][k].copied \/ (d = Root /\ Late(r, sends[<<r, d>>][k].from))
<1>1. Running /\ Channel(r, d) /\ Carried /\ arg \in Arguments /\ sends \in [Rank \X Rank -> Seq(Message)]
  BY DEF Inv, Control, Channels, Running, QueuesTyped
<1>2. SUFFICES ASSUME ~sends[<<r, d>>][k].copied, ~(d = Root /\ Late(r, sends[<<r, d>>][k].from))
               PROVE  FALSE
  OBVIOUS
<1>3. PICK b : b = sends[<<r, d>>][k].from
  OBVIOUS
<1>4. b \in Arrays /\ counts(r) > arg.eager
  <2>1. InQueue(r, d, sends[<<r, d>>][k])
    BY DEF InQueue
  <2> QED
    BY <1>1, <1>2, <1>3, <2>1 DEF Carried
<1>5. Sends(r, d, b)
  BY <1>1, <1>3 DEF Channel, SendsKept
<1>6. ~Early(arg) \/ b = "yc"
  <2>1. r # Root /\ d = Root
    BY <1>4, <1>5 DEF Sends, Arrays
  <2>2. ~Late(r, b)
    BY <1>2, <1>3, <2>1
  <2> QED
    BY <1>4, <2>1, <2>2 DEF Late, Early, Arrays
<1>7. WaitsForSend(arg, b) /\ b \in SendBufs
  BY <1>4, <1>6, Buffers DEF WaitsForSend, Arrays
<1>8. Posted(d, b) \in ProgramCalls(arg, r)
  BY <1>5, <1>7, ProgramPosts
<1>9. Own("free") \in ProgramCalls(arg, r)
  <2>1. "free" \in OwnCalls(arg, r)
    BY DEF OwnCalls
  <2> QED
    BY <2>1, ProgramOwn
<1>10. Order(arg, Posted(d, b)) < Order(arg, Own("free"))
  <2>1. Order(arg, Own("free")) = 26 * Width
    BY Orders
  <2>2. PICK n \in {0, 1, 2} : n = Block(b)
    BY <1>4, BlockFacts DEF Arrays
  <2>3. PICK w \in Int : w = (19 + Block(b)) * Width /\ w <= 21 * Width
    BY <2>2, Widths
  <2>4. Order(arg, Posted(d, b)) = IF Early(arg) THEN 7 * Width + 6 * d + 1
                                   ELSE IF Manual(arg) THEN 18 * Width + 6 * d + 2 * n + 1 ELSE w + 6 * d + 1
    <3>1. CASE Early(arg)
      BY <1>4, <1>6, <3>1, ArrayOrders
    <3>2. CASE ~Early(arg)
      BY <1>4, <3>2, <2>2, <2>3, ArrayOrders
    <3> QED
      BY <3>1, <3>2
  <2>5. d \in Int /\ 6 * d < Width /\ Width \in Int /\ Width >= 6
    <3>1. d \in Nat /\ d < numproc
      BY RankFacts
    <3> QED
      BY <3>1, Widths, numprocAssumption DEF Width
  <2> QED
    BY <2>1, <2>2, <2>3, <2>4, <2>5
<1>11. Did(r, Posted(d, b))
  BY <1>1, <1>8, <1>9, <1>10, DidBefore
<1>12. SendDone(r, d, b)
  BY <1>1, <1>5, <1>7, <1>11 DEF Channel, Waits
<1> QED
  BY <1>2, <1>3, <1>12 DEF SendDone

\* When a rank frees its arrays (lines 273-280) the library has read all it has
\* to send from them, for every command line and eager limit, but for its late
\* blocks: long ones of xc and dyc, for which nothing waits when non-blocking calls
\* gather them by hand.
THEOREM SendsBeforeFree == Spec => []FreedUnsent
<1>1. ASSUME Inv
      PROVE  FreedUnsent
  <2>1. TypeOK
    BY <1>1, TypeOKHolds
  <2>2. \A r \in freed : r \in Rank /\ Did(r, Own("free"))
    BY <1>1 DEF Inv, FreedDid
  <2> QED
    BY <1>1, <2>1, <2>2, FreedCopied DEF FreedUnsent
<1> QED
  BY <1>1, Invariance, PTL
----------------------------------------------------------------------------
(* What the values are.  *)

\* The values of rank s that belong in its buffer b.
RightValues(s, b) ==
    CASE b = "dyc"   -> [k \in Inner(s) |-> {start(s) + k - 2, start(s) + k}]
      [] b = "first" -> <<{start(s)}>>
      [] b = "last"  -> <<{end(s)}>>
      [] b = "time"  -> <<{}>>
      [] OTHER       -> XC(s)

\* The calls that compute a buffer.
Computed(s, b) ==
    /\ b \in {"yc", "first", "last"} => Did(s, Own("yc"))
    /\ b = "dyc" => Did(s, Own("dyc"))

\* The root has the block of rank s of the array b, if it is not late.
OnBlock(s, b) == Late(s, b) \/ \A p \in start(s) .. end(s) : full[b][p] = Serial!Table[b][p]

Placed(s, d, b) ==
    CASE b = "first" -> yc[d][counts(d) + 1] = {start(s)}
      [] b = "last"  -> yc[d][0] = {end(s)}
      [] b = "time"  -> TRUE
      [] OTHER       -> OnBlock(s, b)

InnerRight(r) == Did(r, Own("yc")) => \A k \in Inner(r) : yc[r][k] = {start(r) + k - 1}
OuterRight ==
    /\ Did(Root, Own("ghosts")) => yc[Root][0] = {0}
    /\ Did(LastRank, Own("ghosts")) => yc[LastRank][counts(LastRank) + 1] = {NGRID + 1}
DYCRight(r) == Did(r, Own("dyc")) => dyc[r] = RightValues(r, "dyc")
PlacedRight == \A s, d \in Rank, b \in SendBufs : Sends(s, d, b) /\ Delivered(s, d, b) => Placed(s, d, b)
CarriedRight == \A s, d \in Rank : \A u : InQueue(s, d, u) /\ u.copied => u.data = RightValues(s, u.from)
CopiedRight == Did(Root, Own("copy")) => \A b \in Arrays : OnBlock(Root, b)
Written == ~Did(Root, Own("print")) => file = << >>

Values ==
    /\ \A r \in Rank : InnerRight(r) /\ DYCRight(r)
    /\ OuterRight /\ PlacedRight /\ CarriedRight /\ CopiedRight /\ Written

\* A message is sent after its values are computed.
LEMMA PostComputed ==
    ASSUME NEW a \in Arguments, NEW s \in Rank, NEW d \in Rank, NEW b \in SendBufs, Sends(s, d, b)
    PROVE  /\ b \in {"yc", "first", "last"} => Order(a, Own("yc")) < Order(a, Posting(a, s, d, b))
           /\ b = "dyc" => Order(a, Own("dyc")) < Order(a, Posting(a, s, d, b))
<1>0. Width \in Int /\ Width >= 6 /\ d \in Nat
  BY Widths, RankFacts
<1>1. Order(a, Own("yc")) = 5 * Width /\ Order(a, Own("dyc")) = 16 * Width
  BY Orders
<1>2. CASE b = "first"
  <2>1. Order(a, Posting(a, s, d, "first")) = 8 * Width
    BY Orders
  <2> QED
    BY <1>0, <1>1, <1>2, <2>1
<1>3. CASE b = "last"
  <2>1. Order(a, Posting(a, s, d, "last")) = IF NonBlocking(a) THEN 9 * Width ELSE 12 * Width
    BY Orders
  <2> QED
    BY <1>0, <1>1, <1>3, <2>1
<1>4. CASE b \in {"yc", "dyc"}
  <2>1. PICK w \in Int : w = (19 + Block(b)) * Width /\ w >= 19 * Width
    BY <1>0, <1>4, BlockFacts
  <2>2. Block(b) \in {1, 2} /\ b \in Arrays
    BY <1>4, BlockFacts DEF Arrays
  <2>3. Order(a, Posting(a, s, d, b)) =
          IF Early(a) THEN (IF b = "xc" THEN 1 ELSE IF b = "yc" THEN 6 ELSE 17) * Width + 6 * d
          ELSE IF Manual(a) THEN 18 * Width + 6 * d + 2 * Block(b) ELSE w + 6 * d
    BY <2>1, <2>2, ArrayOrders
  <2>4. PICK n \in {1, 2} : n = Block(b)
    BY <2>2
  <2>5. Order(a, Posting(a, s, d, b)) =
          IF Early(a) THEN (IF b = "yc" THEN 6 ELSE 17) * Width + 6 * d
          ELSE IF Manual(a) THEN 18 * Width + 6 * d + 2 * n ELSE w + 6 * d
    BY <1>4, <2>3, <2>4
  <2> QED
    BY <1>0, <1>1, <1>4, <2>1, <2>4, <2>5
<1>5. CASE b \notin {"yc", "dyc", "first", "last"}
  BY <1>5
<1> QED
  BY <1>2, <1>3, <1>4, <1>5

\* What a rank has sent it has computed.
LEMMA SentComputed ==
    ASSUME Running, NEW s \in Rank, NEW d \in Rank, NEW b \in SendBufs, Sends(s, d, b),
           Did(s, Posting(arg, s, d, b)) \/ TurnAt(s, Posting(arg, s, d, b))
    PROVE  Computed(s, b)
<1>1. Own("yc") \in ProgramCalls(arg, s) /\ Own("dyc") \in ProgramCalls(arg, s)
  <2>1. "yc" \in OwnCalls(arg, s) /\ "dyc" \in OwnCalls(arg, s)
    BY DEF OwnCalls
  <2> QED
    BY <2>1, ProgramOwn
<1>2. Posting(arg, s, d, b) \in ProgramCalls(arg, s) /\ arg \in Arguments
  BY ProgramPosts DEF Running
<1>3. /\ b \in {"yc", "first", "last"} => Order(arg, Own("yc")) < Order(arg, Posting(arg, s, d, b))
      /\ b = "dyc" => Order(arg, Own("dyc")) < Order(arg, Posting(arg, s, d, b))
  BY <1>2, PostComputed
<1>4. CASE TurnAt(s, Posting(arg, s, d, b))
  BY <1>1, <1>3, <1>4 DEF TurnAt, Computed
<1>5. CASE Did(s, Posting(arg, s, d, b))
  <2>1. \A e \in ProgramCalls(arg, s) : Order(arg, e) < Order(arg, Posting(arg, s, d, b)) => Did(s, e)
    BY <1>2, <1>5, DidBefore
  <2> QED
    BY <1>1, <1>3, <2>1 DEF Computed
<1> QED
  BY <1>4, <1>5

\* A buffer that is computed holds the right values.
LEMMA ContentsRight ==
    ASSUME Stored, NEW s \in Rank, InnerRight(s), DYCRight(s), counts(s) >= 1, NEW b \in SendBufs, Computed(s, b)
    PROVE  Contents(s, b) = RightValues(s, b)
<1>0. counts(s) \in Nat /\ start(s) \in Nat /\ end(s) = start(s) + counts(s) - 1
  BY BlockBounds
<1>1. CASE b = "xc"
  BY <1>1 DEF Contents, RightValues
<1>2. CASE b = "yc"
  <2>1. \A k \in Inner(s) : yc[s][k] = {start(s) + k - 1}
    BY <1>2 DEF Computed, InnerRight
  <2>2. [k \in Inner(s) |-> yc[s][k]] = XC(s)
    BY <2>1 DEF XC
  <2> QED
    BY <1>2, <2>2 DEF Contents, RightValues
<1>3. CASE b = "dyc"
  <2>1. dyc[s] = RightValues(s, "dyc")
    BY <1>3 DEF Computed, DYCRight
  <2> QED
    BY <1>3, <2>1 DEF Contents
<1>4. CASE b = "first"
  <2>1. 1 \in Inner(s) /\ Did(s, Own("yc"))
    BY <1>0, <1>4 DEF Inner, Computed
  <2>2. yc[s][1] = {start(s) + 1 - 1}
    BY <2>1 DEF InnerRight
  <2>3. start(s) + 1 - 1 = start(s)
    BY <1>0
  <2>4. yc[s][1] = {start(s)}
    BY <2>2, <2>3
  <2> QED
    BY <1>4, <2>4 DEF Contents, RightValues
<1>5. CASE b = "last"
  <2>1. counts(s) \in Inner(s) /\ Did(s, Own("yc"))
    BY <1>0, <1>5 DEF Inner, Computed
  <2>2. yc[s][counts(s)] = {start(s) + counts(s) - 1}
    BY <2>1 DEF InnerRight
  <2>3. yc[s][counts(s)] = {end(s)}
    BY <1>0, <2>2
  <2> QED
    BY <1>5, <2>3 DEF Contents, RightValues
<1>6. CASE b = "time"
  BY <1>6 DEF Contents, RightValues
<1> QED
  BY <1>1, <1>2, <1>3, <1>4, <1>5, <1>6, Buffers DEF Arrays

\* The right values of a block are those of the sequential program.
LEMMA RightBlock ==
    ASSUME NEW s \in Rank, NEW b \in Arrays, NEW p \in start(s) .. end(s)
    PROVE  RightValues(s, b)[p - disp(s)] = Serial!Table[b][p]
<1>1. /\ counts(s) \in Nat /\ start(s) \in Nat /\ start(s) >= 1 /\ end(s) = start(s) + counts(s) - 1 /\ end(s) <= NGRID
      /\ disp(s) = start(s) - 1 /\ NGRID \in Nat
  BY BlockBounds
<1>2. PICK k \in Int : k = p - disp(s)
  BY <1>1
<1>3. k \in Inner(s) /\ p \in 1 .. NGRID /\ start(s) + k - 1 = p /\ start(s) + k - 2 = p - 1 /\ start(s) + k = p + 1
  BY <1>1, <1>2 DEF Inner
<1>4. CASE b = "dyc"
  <2>1. RightValues(s, b)[k] = {start(s) + k - 2, start(s) + k}
    BY <1>3, <1>4 DEF RightValues
  <2>2. Serial!Table[b][p] = {p - 1, p + 1}
    BY <1>3, <1>4 DEF Serial!Table
  <2> QED
    BY <1>2, <1>3, <2>1, <2>2
<1>5. CASE b \in {"xc", "yc"}
  <2>1. RightValues(s, b)[k] = {start(s) + k - 1}
    BY <1>3, <1>5 DEF RightValues, XC
  <2>2. Serial!Table["xc"][p] = {p} /\ Serial!Table["yc"][p] = {p}
    BY <1>3 DEF Serial!Table
  <2> QED
    BY <1>2, <1>3, <1>5, <2>1, <2>2
<1> QED
  BY <1>4, <1>5 DEF Arrays

\* A block that is put in place stays there when another is put in place.
LEMMA PlaceRight ==
    ASSUME Stored, NEW s \in Rank, NEW b \in Arrays, NEW values, values \in Seq(Value), Len(values) = counts(s)
    PROVE  /\ values = RightValues(s, b) =>
                \A p \in start(s) .. end(s) : Place(full[b], s, values)[p] = Serial!Table[b][p]
           /\ \A x \in Rank \ {s} : \A p \in start(x) .. end(x) : Place(full[b], s, values)[p] = full[b][p]
<1>1. /\ \A p \in start(s) .. end(s) : Place(full[b], s, values)[p] = values[p - disp(s)]
      /\ \A p \in 1 .. NGRID : p \notin start(s) .. end(s) => Place(full[b], s, values)[p] = full[b][p]
  BY BlockTyped
<1>2. \A x \in Rank \ {s} : \A p \in start(x) .. end(x) : p \in 1 .. NGRID /\ p \notin start(s) .. end(s)
  <2> SUFFICES ASSUME NEW x \in Rank \ {s}, NEW p \in start(x) .. end(x)
               PROVE  p \in 1 .. NGRID /\ p \notin start(s) .. end(s)
    OBVIOUS
  <2>1. p \in 1 .. NGRID
    BY BlockBounds
  <2>2. start(x) <= p /\ p <= end(x)
    BY BlockBounds
  <2>3. p \in start(s) .. end(s) => start(s) <= p /\ p <= end(s)
    BY BlockBounds
  <2> QED
    BY <2>1, <2>2, <2>3, PointsOwned
<1>3. values = RightValues(s, b) => \A p \in start(s) .. end(s) : values[p - disp(s)] = Serial!Table[b][p]
  BY RightBlock
<1> QED
  BY <1>1, <1>2, <1>3
----------------------------------------------------------------------------
(* Each action keeps the values.  *)

\* Which blocks are late depends on the command line alone; the root's are not.
LEMMA LateSame ==
    /\ arg' = arg => \A s, b : Late(s, b)' <=> Late(s, b)
    /\ \A b : ~Late(Root, b)
  BY DEF Late, Manual, NonBlocking


\* The values depend on five calls of a rank's own.
Marks == {"ghosts", "yc", "dyc", "copy", "print"}

\* They are calls of a rank's own.
LEMMA MarkFacts ==
    /\ \A w \in Marks : w \notin Messages
    /\ Root \in Rank /\ LastRank \in Rank
    /\ "ghosts" \in Marks /\ "yc" \in Marks /\ "dyc" \in Marks /\ "copy" \in Marks /\ "print" \in Marks
  BY RankFacts DEF Marks, Messages

\* A step that changes no value.
LEMMA ValuesKept ==
    ASSUME Values, arg' = arg, yc' = yc, dyc' = dyc, full' = full, file' = file,
           NothingReached, CarriedRight',
           \A s \in Rank, w \in Marks : Did(s, Own(w))' <=> Did(s, Own(w))
    PROVE  Values'
<1>0. /\ Root \in Rank /\ LastRank \in Rank
      /\ "ghosts" \in Marks /\ "yc" \in Marks /\ "dyc" \in Marks /\ "copy" \in Marks /\ "print" \in Marks
  BY MarkFacts
<1>1. \A r \in Rank : InnerRight(r)' /\ DYCRight(r)'
  BY <1>0 DEF Values, InnerRight, DYCRight
<1>2. OuterRight'
  BY <1>0 DEF Values, OuterRight
<1>3. PlacedRight'
  BY LateSame DEF Values, PlacedRight, Placed, OnBlock, NothingReached
<1>4. CopiedRight'
  BY <1>0, LateSame DEF Values, CopiedRight, OnBlock
<1>5. Written'
  BY <1>0 DEF Values, Written
<1> QED
  BY <1>1, <1>2, <1>3, <1>4, <1>5 DEF Values

\* When nothing is sent, the values in the queues are as they were.
LEMMA CarriedRightKept ==
    ASSUME CarriedRight, arg' = arg, NothingSent
    PROVE  CarriedRight'
  BY DEF CarriedRight, NothingSent

\* MPI_Isend copies the right values.
LEMMA SendValues ==
    ASSUME Inv, Values, NGRID >= 2 * numproc, NEW r \in Rank, MPI_Isend(r)
    PROVE  Values'
<1>1. /\ Control /\ Stored /\ arg' = arg /\ yc' = yc /\ dyc' = dyc /\ full' = full /\ file' = file
      /\ Running
  BY DEF Inv, MPI_Isend, data, Control
<1>2. NothingReached /\ OwnsKept
  BY <1>1, SendTurn
<1>3. PICK d \in Rank, b \in SendBufs :
         /\ Sends(r, d, b) /\ TurnAt(r, Posting(arg, r, d, b))
         /\ \A x, y \in Rank : \A u : InQueue(x, y, u)' =>
              InQueue(x, y, u) \/ (x = r /\ y = d /\ u = NewMessage(r, b))
  BY <1>1, SendTurn
<1>4. counts(r) >= 1
  <2>1. counts(r) >= 2 /\ counts(r) \in Nat
    BY BlocksHaveDx, BlockBounds
  <2> QED
    BY <2>1
<1>5. Contents(r, b) = RightValues(r, b)
  <2>1. Computed(r, b)
    BY <1>1, <1>3, SentComputed
  <2>2. InnerRight(r) /\ DYCRight(r)
    BY DEF Values
  <2> QED
    BY <1>1, <1>4, <2>1, <2>2, ContentsRight
<1>6. CarriedRight'
  <2> SUFFICES ASSUME NEW x \in Rank, NEW y \in Rank, NEW u, InQueue(x, y, u)', u.copied
               PROVE  u.data = RightValues(x, u.from)
    BY <1>1 DEF CarriedRight
  <2>1. CASE InQueue(x, y, u)
    BY <2>1 DEF Values, CarriedRight
  <2>2. CASE x = r /\ u = NewMessage(r, b)
    <3>1. u.from = b /\ u.copied = (Len(Contents(r, b)) <= arg.eager)
          /\ u.data = IF Len(Contents(r, b)) <= arg.eager THEN Contents(r, b) ELSE << >>
      BY <2>2 DEF NewMessage
    <3> QED
      BY <1>5, <2>2, <3>1
  <2> QED
    BY <1>3, <2>1, <2>2
<1>7. \A s \in Rank, w \in Marks : Did(s, Own(w))' <=> Did(s, Own(w))
  BY <1>2, MarkFacts DEF OwnsKept
<1> QED
  BY <1>1, <1>2, <1>6, <1>7, ValuesKept

\* The other calls that compute nothing.
LEMMA IdleValues ==
    ASSUME Inv, Values, NEW r \in Rank,
           MPI_Irecv(r) \/ MPI_Wait(r) \/ MPI_Test(r) \/ MPI_Finalize(r) \/ Free(r)
    PROVE  Values'
<1>0. Control /\ CarriedRight
  BY DEF Inv, Values
<1>1. arg' = arg /\ yc' = yc /\ dyc' = dyc /\ full' = full /\ file' = file
  <2>1. CASE MPI_Irecv(r)
    BY <2>1 DEF MPI_Irecv, data
  <2>2. CASE MPI_Wait(r)
    BY <2>2 DEF MPI_Wait, data
  <2>3. CASE MPI_Test(r)
    BY <2>3 DEF MPI_Test, data
  <2>4. CASE MPI_Finalize(r)
    BY <2>4 DEF MPI_Finalize, data
  <2>5. CASE Free(r)
    BY <2>5 DEF Free
  <2> QED
    BY <2>1, <2>2, <2>3, <2>4, <2>5
<1>2. NothingReached /\ NothingSent /\ \A s \in Rank, w \in Marks : Did(s, Own(w))' <=> Did(s, Own(w))
  <2>1. CASE MPI_Irecv(r)
    BY <1>0, <2>1, RecvTurn, MarkFacts DEF OwnsKept
  <2>2. CASE MPI_Wait(r)
    BY <1>0, <2>2, WaitTurn, MarkFacts DEF OwnsKept
  <2>3. ASSUME NEW what \in {"test", "free", "finalize"}, At(r, what), Advance(r), sends' = sends, recvs' = recvs
        PROVE  NothingReached /\ NothingSent /\ \A s \in Rank, w \in Marks : Did(s, Own(w))' <=> Did(s, Own(w))
    <3>1. what \notin Messages /\ what \notin Marks
      BY DEF Messages, Marks
    <3>2. NothingReached /\ NothingSent /\ TurnAt(r, Own(what))
      BY <1>0, <1>1, <2>3, <3>1, OwnTurn
    <3>3. \A s \in Rank : \A w : Did(s, Own(w))' <=> Did(s, Own(w)) \/ (s = r /\ w = what)
      BY <3>2, OwnDid
    <3> QED
      BY <3>1, <3>2, <3>3
  <2>4. CASE MPI_Finalize(r)
    <3>1. At(r, "finalize") /\ Advance(r) /\ sends' = sends /\ recvs' = recvs
      BY <2>4 DEF MPI_Finalize
    <3> QED
      BY <2>3, <3>1
  <2>5. CASE Free(r)
    <3>1. At(r, "free") /\ Advance(r) /\ sends' = sends /\ recvs' = recvs
      BY <2>5 DEF Free
    <3> QED
      BY <2>3, <3>1
  <2>6. CASE MPI_Test(r)
    <3>1. At(r, "test") /\ sends' = sends /\ recvs' = recvs /\ (Advance(r) \/ pc' = pc)
      BY <2>6 DEF MPI_Test
    <3>2. CASE Advance(r)
      BY <2>3, <3>1, <3>2
    <3>3. CASE pc' = pc
      <4>1. NothingReached /\ NothingSent /\ OwnsKept
        BY <1>0, <1>1, <3>1, <3>3, SameControl
      <4> QED
        BY <4>1, MarkFacts DEF OwnsKept
    <3> QED
      BY <3>1, <3>2, <3>3
  <2> QED
    BY <2>1, <2>2, <2>4, <2>5, <2>6
<1>3. CarriedRight'
  BY <1>0, <1>1, <1>2, CarriedRightKept
<1> QED
  BY <1>1, <1>2, <1>3, ValuesKept

\* SetGhosts runs before an edge can arrive.
LEMMA GhostValues ==
    ASSUME Inv, Values, NGRID >= 2 * numproc, NEW r \in Rank, SetGhosts(r)
    PROVE  Values'
<1>0. Control /\ Stored /\ CarriedRight /\ Running /\ arg \in Arguments
  BY DEF Inv, Values, Control, Running
<1>1. /\ At(r, "ghosts") /\ "ghosts" \notin Messages /\ Advance(r) /\ arg' = arg
      /\ sends' = sends /\ recvs' = recvs /\ dyc' = dyc /\ full' = full /\ file' = file
  BY DEF SetGhosts, Messages
<1>2. NothingReached /\ NothingSent /\ TurnAt(r, Own("ghosts"))
  BY <1>0, <1>1, OwnTurn
<1>3. \A s \in Rank : \A w : Did(s, Own(w))' <=> Did(s, Own(w)) \/ (s = r /\ w = "ghosts")
  BY <1>2, OwnDid
<1>4. PICK n \in Nat : n = counts(r) /\ n >= 2
  BY BlocksHaveDx, BlockBounds
<1>5. PICK x, y : /\ x = (IF r = Root /\ DxKnown(r) THEN {0} ELSE Junk)
                  /\ y = (IF r = LastRank /\ DxKnown(r) THEN {NGRID + 1} ELSE Junk)
  OBVIOUS
<1>6. /\ yc'[r] = [yc[r] EXCEPT ![0] = x, ![n + 1] = y]
      /\ \A s \in Rank : s # r => yc'[s] = yc[s]
  BY <1>0, <1>4, <1>5, GhostsStored
<1>7. yc[r] \in [0 .. n + 1 -> Value]
  BY <1>0, <1>4 DEF Stored
<1>8. yc'[r][0] = x /\ yc'[r][n + 1] = y /\ \A k \in 1 .. n : yc'[r][k] = yc[r][k]
  BY <1>4, <1>6, <1>7
<1>9. \A s \in Rank : InnerRight(s)' /\ DYCRight(s)'
  <2> SUFFICES ASSUME NEW s \in Rank
               PROVE  InnerRight(s)' /\ DYCRight(s)'
    OBVIOUS
  <2>1. InnerRight(s) /\ DYCRight(s)
    BY DEF Values
  <2>2. DYCRight(s)'
    BY <1>1, <1>3, <2>1 DEF DYCRight
  <2>3. \A k \in Inner(s) : yc'[s][k] = yc[s][k]
    BY <1>4, <1>6, <1>8 DEF Inner
  <2>4. InnerRight(s)'
    BY <1>3, <2>1, <2>3 DEF InnerRight
  <2> QED
    BY <2>2, <2>4
<1>10. OuterRight'
  <2>0. Root \in Rank /\ LastRank \in Rank /\ DxKnown(r)
    BY <1>4, RankFacts DEF DxKnown
  <2>1. Did(Root, Own("ghosts"))' => yc'[Root][0] = {0}
    <3>1. CASE r = Root
      BY <1>5, <1>8, <2>0, <3>1
    <3>2. CASE r # Root
      BY <1>3, <1>6, <2>0, <3>2 DEF Values, OuterRight
    <3> QED
      BY <3>1, <3>2
  <2>2. Did(LastRank, Own("ghosts"))' => yc'[LastRank][counts(LastRank) + 1] = {NGRID + 1}
    <3>1. CASE r = LastRank
      BY <1>4, <1>5, <1>8, <2>0, <3>1
    <3>2. CASE r # LastRank
      BY <1>3, <1>6, <2>0, <3>2 DEF Values, OuterRight
    <3> QED
      BY <3>1, <3>2
  <2> QED
    BY <2>1, <2>2 DEF OuterRight
<1>11. \A s \in Rank, b \in {"first", "last"} : Sends(s, r, b) => ~Delivered(s, r, b)
  <2> SUFFICES ASSUME NEW s \in Rank, NEW b \in {"first", "last"}, Sends(s, r, b)
               PROVE  ~Did(r, Awaiting(arg, s, b))
    BY DEF Delivered
  <2>1. b \in SendBufs
    BY Buffers
  <2>2. Awaiting(arg, s, b) \in ProgramCalls(arg, r)
    BY <2>1, ProgramAwaits
  <2>3. /\ Order(arg, Own("ghosts")) = 2 * Width
        /\ Order(arg, Awaiting(arg, s, "last")) = (IF NonBlocking(arg) THEN 3 * Width ELSE 10 * Width)
        /\ Order(arg, Awaiting(arg, s, "first")) = (IF NonBlocking(arg) THEN 4 * Width ELSE 14 * Width)
    BY Orders
  <2>4. ~(Order(arg, Awaiting(arg, s, b)) < Order(arg, Own("ghosts")))
    BY <2>3, Widths
  <2> QED
    BY <1>2, <2>2, <2>4 DEF TurnAt
<1>12. PlacedRight'
  <2> SUFFICES ASSUME NEW s \in Rank, NEW d \in Rank, NEW b \in SendBufs, Sends(s, d, b), Delivered(s, d, b)'
               PROVE  Placed(s, d, b)'
    BY DEF PlacedRight
  <2>1. Delivered(s, d, b)
    BY <1>2 DEF NothingReached
  <2>2. Placed(s, d, b)
    BY <2>1 DEF Values, PlacedRight
  <2>3. CASE b \in {"first", "last"}
    <3>1. d # r
      BY <1>11, <2>1, <2>3
    <3> QED
      BY <1>6, <2>2, <2>3, <3>1 DEF Placed
  <2>4. CASE b \notin {"first", "last"}
    BY <1>1, <2>2, <2>4, LateSame DEF Placed, OnBlock
  <2> QED
    BY <2>3, <2>4
<1>13. CarriedRight'
  BY <1>0, <1>1, <1>2, CarriedRightKept
<1>14. CopiedRight' /\ Written'
  BY <1>1, <1>3, RankFacts, LateSame DEF Values, CopiedRight, OnBlock, Written
<1> QED
  BY <1>9, <1>10, <1>12, <1>13, <1>14 DEF Values

\* ComputeYC leaves the ghost cells alone.
LEMMA YCValues ==
    ASSUME Inv, Values, NEW r \in Rank, ComputeYC(r)
    PROVE  Values'
<1>0. Control /\ Stored /\ CarriedRight
  BY DEF Inv, Values
<1>1. /\ At(r, "yc") /\ "yc" \notin Messages /\ Advance(r) /\ arg' = arg
      /\ sends' = sends /\ recvs' = recvs /\ dyc' = dyc /\ full' = full /\ file' = file
  BY DEF ComputeYC, Messages
<1>2. NothingReached /\ NothingSent /\ TurnAt(r, Own("yc"))
  BY <1>0, <1>1, OwnTurn
<1>3. \A s \in Rank : \A w : Did(s, Own(w))' <=> Did(s, Own(w)) \/ (s = r /\ w = "yc")
  BY <1>2, OwnDid
<1>4. PICK n \in Nat : n = counts(r)
  BY BlockBounds
<1>5. /\ yc'[r] = [k \in 0 .. n + 1 |-> IF k \in 1 .. n THEN XC(r)[k] ELSE yc[r][k]]
      /\ \A s \in Rank : s # r => yc'[s] = yc[s]
  BY <1>0, <1>4, YCStored DEF Inner
<1>6. /\ \A k \in 1 .. n : yc'[r][k] = XC(r)[k]
      /\ yc'[r][0] = yc[r][0] /\ yc'[r][n + 1] = yc[r][n + 1]
  BY <1>4, <1>5
<1>7. \A s \in Rank : yc'[s][0] = yc[s][0] /\ yc'[s][counts(s) + 1] = yc[s][counts(s) + 1]
  BY <1>4, <1>5, <1>6
<1>8. \A s \in Rank : InnerRight(s)' /\ DYCRight(s)'
  <2> SUFFICES ASSUME NEW s \in Rank
               PROVE  InnerRight(s)' /\ DYCRight(s)'
    OBVIOUS
  <2>1. InnerRight(s) /\ DYCRight(s)
    BY DEF Values
  <2>2. DYCRight(s)'
    BY <1>1, <1>3, <2>1 DEF DYCRight
  <2>3. CASE s = r
    <3>1. \A k \in Inner(r) : yc'[r][k] = {start(r) + k - 1}
      BY <1>4, <1>6 DEF Inner, XC
    <3> QED
      BY <2>2, <2>3, <3>1 DEF InnerRight
  <2>4. CASE s # r
    BY <1>3, <1>5, <2>1, <2>2, <2>4 DEF InnerRight
  <2> QED
    BY <2>3, <2>4
<1>9. OuterRight'
  BY <1>3, <1>7, RankFacts DEF Values, OuterRight
<1>10. PlacedRight'
  <2> SUFFICES ASSUME NEW s \in Rank, NEW d \in Rank, NEW b \in SendBufs, Sends(s, d, b), Delivered(s, d, b)'
               PROVE  Placed(s, d, b)'
    BY DEF PlacedRight
  <2>1. Delivered(s, d, b)
    BY <1>2 DEF NothingReached
  <2>2. Placed(s, d, b)
    BY <2>1 DEF Values, PlacedRight
  <2> QED
    BY <1>1, <1>7, <2>2, LateSame DEF Placed, OnBlock
<1>11. CarriedRight'
  BY <1>0, <1>1, <1>2, CarriedRightKept
<1>12. CopiedRight' /\ Written'
  BY <1>1, <1>3, RankFacts, LateSame DEF Values, CopiedRight, OnBlock, Written
<1> QED
  BY <1>8, <1>9, <1>10, <1>11, <1>12 DEF Values

\* At the derivative both ghost cells hold the value of the point next to the block.
LEMMA GhostsRight ==
    ASSUME Inv, Values, NEW r \in Rank, TurnAt(r, Own("dyc"))
    PROVE  /\ Did(r, Own("yc"))
           /\ yc[r][0] = {start(r) - 1}
           /\ yc[r][counts(r) + 1] = {end(r) + 1}
<1>0. Running /\ arg \in Arguments
  BY DEF Inv, Control, Running
<1>1. Own("yc") \in ProgramCalls(arg, r) /\ Own("ghosts") \in ProgramCalls(arg, r)
  <2>1. "yc" \in OwnCalls(arg, r) /\ "ghosts" \in OwnCalls(arg, r)
    BY DEF OwnCalls
  <2> QED
    BY <2>1, ProgramOwn
<1>2. /\ Order(arg, Own("yc")) = 5 * Width /\ Order(arg, Own("ghosts")) = 2 * Width /\ Order(arg, Own("dyc")) = 16 * Width
      /\ \A s \in Rank : Order(arg, Received(s, "last")) = 11 * Width /\ Order(arg, Received(s, "first")) = 15 * Width
  BY Orders
<1>3. Did(r, Own("yc")) /\ Did(r, Own("ghosts"))
  BY <1>1, <1>2, Widths DEF TurnAt
<1>4. "first" \in SendBufs /\ "last" \in SendBufs /\ WaitsForRecv(arg, "first") /\ WaitsForRecv(arg, "last")
  BY Buffers DEF WaitsForRecv, Arrays
<1>5. yc[r][0] = {start(r) - 1}
  <2>1. CASE r = Root
    <3>1. yc[r][0] = {0}
      BY <1>3, <2>1 DEF Values, OuterRight
    <3>2. start(r) = 1
      BY <2>1, BlocksFollow DEF Root
    <3> QED
      BY <3>1, <3>2
  <2>2. CASE r # Root
    <3>1. PICK s \in Rank : s = r - 1
      BY <2>2, Neighbours
    <3>2. s + 1 = r
      BY <3>1, RankFacts
    <3>3. Sends(s, r, "last")
      <4>1. r < numproc /\ r \in Nat /\ numproc \in Nat
        BY RankFacts, numprocAssumption
      <4>2. s # LastRank
        BY <3>1, <4>1 DEF LastRank
      <4> QED
        BY <3>2, <4>2 DEF Sends
    <3>4. Received(s, "last") \in ProgramCalls(arg, r)
      BY <1>4, <3>3, ProgramAwaits
    <3>5. Did(r, Received(s, "last"))
      BY <1>2, <3>4, Widths DEF TurnAt
    <3>6. Delivered(s, r, "last")
      BY <1>4, <3>3, <3>5, Arrived
    <3>7. yc[r][0] = {end(s)}
      BY <1>4, <3>3, <3>6 DEF Values, PlacedRight, Placed
    <3>8. start(r) = end(s) + 1 /\ end(s) \in Int
      BY <3>2, BlocksFollow, Blocks
    <3>9. end(s) = start(r) - 1
      BY <3>8
    <3> QED
      BY <3>7, <3>9
  <2> QED
    BY <2>1, <2>2
<1>6. yc[r][counts(r) + 1] = {end(r) + 1}
  <2>1. CASE r = LastRank
    <3>1. yc[r][counts(r) + 1] = {NGRID + 1}
      BY <1>3, <2>1 DEF Values, OuterRight
    <3>2. end(r) = NGRID
      BY <2>1, BlocksFollow DEF LastRank
    <3> QED
      BY <3>1, <3>2
  <2>2. CASE r # LastRank
    <3>1. PICK s \in Rank : s = r + 1
      BY <2>2, Neighbours
    <3>2. s - 1 = r
      BY <3>1, RankFacts
    <3>3. Sends(s, r, "first")
      BY <3>1, <3>2, RankFacts DEF Sends
    <3>4. Received(s, "first") \in ProgramCalls(arg, r)
      BY <1>4, <3>3, ProgramAwaits
    <3>5. Did(r, Received(s, "first"))
      BY <1>2, <3>4, Widths DEF TurnAt
    <3>6. Delivered(s, r, "first")
      BY <1>4, <3>3, <3>5, Arrived
    <3>7. yc[r][counts(r) + 1] = {start(s)}
      BY <1>4, <3>3, <3>6 DEF Values, PlacedRight, Placed
    <3>8. start(s) = end(r) + 1
      BY <3>1, BlocksFollow
    <3> QED
      BY <3>7, <3>8
  <2> QED
    BY <2>1, <2>2
<1> QED
  BY <1>3, <1>5, <1>6

\* ComputeDYC finds the right values on the block and at both its sides.
LEMMA DYCValues ==
    ASSUME Inv, Values, NGRID >= 2 * numproc, NEW r \in Rank, ComputeDYC(r)
    PROVE  Values'
<1>0. Control /\ Stored /\ CarriedRight
  BY DEF Inv, Values
<1>1. /\ At(r, "dyc") /\ "dyc" \notin Messages /\ Advance(r) /\ arg' = arg
      /\ sends' = sends /\ recvs' = recvs /\ yc' = yc /\ full' = full /\ file' = file
  BY DEF ComputeDYC, Messages
<1>2. NothingReached /\ NothingSent /\ TurnAt(r, Own("dyc"))
  BY <1>0, <1>1, OwnTurn
<1>3. \A s \in Rank : \A w : Did(s, Own(w))' <=> Did(s, Own(w)) \/ (s = r /\ w = "dyc")
  BY <1>2, OwnDid
<1>4. PICK n \in Nat : n = counts(r) /\ n >= 2
  BY BlocksHaveDx, BlockBounds
<1>5. PICK a \in Nat : a = start(r) /\ end(r) = a + n - 1 /\ a >= 1
  BY <1>4, BlockBounds
<1>6. /\ dyc'[r] = [k \in 1 .. n |-> yc[r][k + 1] \cup yc[r][k - 1]]
      /\ \A s \in Rank : s # r => dyc'[s] = dyc[s]
  <2>1. DxKnown(r) /\ Inner(r) = 1 .. n
    BY <1>4 DEF DxKnown, Inner
  <2> QED
    BY <1>0, <2>1, DYCStored
<1>7. \A k \in 0 .. n + 1 : yc[r][k] = {a + k - 1}
  <2>1. Did(r, Own("yc")) /\ yc[r][0] = {a - 1} /\ yc[r][n + 1] = {end(r) + 1}
    BY <1>2, <1>4, <1>5, GhostsRight
  <2>2. \A k \in 1 .. n : yc[r][k] = {a + k - 1}
    BY <1>4, <1>5, <2>1 DEF Values, InnerRight, Inner
  <2> SUFFICES ASSUME NEW k \in 0 .. n + 1
               PROVE  yc[r][k] = {a + k - 1}
    OBVIOUS
  <2>3. CASE k = 0
    <3>1. a + k - 1 = a - 1
      BY <2>3
    <3> QED
      BY <2>1, <2>3, <3>1
  <2>4. CASE k = n + 1
    <3>1. a + k - 1 = end(r) + 1
      BY <1>5, <2>4
    <3> QED
      BY <2>1, <2>4, <3>1
  <2>5. CASE k \in 1 .. n
    BY <2>2, <2>5
  <2>6. k = 0 \/ k = n + 1 \/ k \in 1 .. n
    OBVIOUS
  <2> QED
    BY <2>3, <2>4, <2>5, <2>6
<1>8. dyc'[r] = RightValues(r, "dyc")
  <2>1. \A k \in 1 .. n : yc[r][k + 1] \cup yc[r][k - 1] = {a + k - 2, a + k}
    <3> SUFFICES ASSUME NEW k \in 1 .. n
                 PROVE  yc[r][k + 1] \cup yc[r][k - 1] = {a + k - 2, a + k}
      OBVIOUS
    <3>1. k + 1 \in 0 .. n + 1 /\ k - 1 \in 0 .. n + 1 /\ a + (k + 1) - 1 = a + k /\ a + (k - 1) - 1 = a + k - 2
      OBVIOUS
    <3>2. yc[r][k + 1] = {a + k} /\ yc[r][k - 1] = {a + k - 2}
      BY <1>7, <3>1
    <3> QED
      BY <3>2
  <2>2. RightValues(r, "dyc") = [k \in 1 .. n |-> {a + k - 2, a + k}]
    BY <1>4, <1>5 DEF RightValues, Inner
  <2> QED
    BY <1>6, <2>1, <2>2
<1>9. \A s \in Rank : InnerRight(s)' /\ DYCRight(s)'
  <2> SUFFICES ASSUME NEW s \in Rank
               PROVE  InnerRight(s)' /\ DYCRight(s)'
    OBVIOUS
  <2>1. InnerRight(s) /\ DYCRight(s)
    BY DEF Values
  <2>2. InnerRight(s)'
    BY <1>1, <1>3, <2>1 DEF InnerRight
  <2>3. RightValues(s, "dyc")' = RightValues(s, "dyc")
    BY DEF RightValues
  <2>4. DYCRight(s)'
    BY <1>3, <1>6, <1>8, <2>1, <2>3 DEF DYCRight
  <2> QED
    BY <2>2, <2>4
<1>10. OuterRight'
  BY <1>1, <1>3, RankFacts DEF Values, OuterRight
<1>11. PlacedRight'
  BY <1>1, <1>2, LateSame DEF Values, PlacedRight, Placed, OnBlock, NothingReached
<1>12. CarriedRight'
  BY <1>0, <1>1, <1>2, CarriedRightKept
<1>13. CopiedRight' /\ Written'
  BY <1>1, <1>3, RankFacts, LateSame DEF Values, CopiedRight, OnBlock, Written
<1> QED
  BY <1>9, <1>10, <1>11, <1>12, <1>13 DEF Values

\* CopyOwn puts the root's block in its place.
LEMMA CopyValues ==
    ASSUME Inv, Values, NGRID >= 2 * numproc, NEW r \in Rank, CopyOwn(r)
    PROVE  Values'
<1>0. Control /\ Stored /\ CarriedRight /\ Running /\ arg \in Arguments
  BY DEF Inv, Values, Control, Running
<1>1. /\ At(r, "copy") /\ "copy" \notin Messages /\ Advance(r) /\ arg' = arg
      /\ sends' = sends /\ recvs' = recvs /\ file' = file
  BY DEF CopyOwn, Messages
<1>2. NothingReached /\ NothingSent /\ TurnAt(r, Own("copy")) /\ "copy" \in OwnCalls(arg, r)
  BY <1>0, <1>1, OwnTurn
<1>3. \A s \in Rank : \A w : Did(s, Own(w))' <=> Did(s, Own(w)) \/ (s = r /\ w = "copy")
  BY <1>2, OwnDid
<1>4. r = Root
  BY <1>2 DEF OwnCalls
<1>5. full' = [b \in Arrays |-> Place(full[b], Root, Contents(Root, b))] /\ yc' = yc /\ dyc' = dyc
  BY <1>0, <1>4, CopyStored
<1>6. Did(Root, Own("yc")) /\ Did(Root, Own("dyc"))
  <2>1. Own("yc") \in ProgramCalls(arg, r) /\ Own("dyc") \in ProgramCalls(arg, r)
    <3>1. "yc" \in OwnCalls(arg, r) /\ "dyc" \in OwnCalls(arg, r)
      BY DEF OwnCalls
    <3> QED
      BY <3>1, ProgramOwn
  <2>2. Order(arg, Own("yc")) = 5 * Width /\ Order(arg, Own("dyc")) = 16 * Width /\ Order(arg, Own("copy")) = 22 * Width
    BY Orders
  <2> QED
    BY <1>2, <1>4, <2>1, <2>2, Widths DEF TurnAt
<1>7. \A b \in Arrays : /\ b \in SendBufs /\ Contents(Root, b) = RightValues(Root, b)
                        /\ Contents(Root, b) \in Seq(Value) /\ Len(Contents(Root, b)) = counts(Root)
  <2> SUFFICES ASSUME NEW b \in Arrays
               PROVE  /\ b \in SendBufs /\ Contents(Root, b) = RightValues(Root, b)
                      /\ Contents(Root, b) \in Seq(Value) /\ Len(Contents(Root, b)) = counts(Root)
    OBVIOUS
  <2>1. b \in SendBufs /\ Root \in Rank
    BY Buffers, RankFacts
  <2>2. counts(Root) >= 1
    <3>1. counts(Root) >= 2 /\ counts(Root) \in Nat
      BY <2>1, BlocksHaveDx, BlockBounds
    <3> QED
      BY <3>1
  <2>3. InnerRight(Root) /\ DYCRight(Root)
    BY <2>1 DEF Values
  <2>4. Computed(Root, b)
    BY <1>6 DEF Computed
  <2>5. Contents(Root, b) = RightValues(Root, b)
    BY <1>0, <2>1, <2>2, <2>3, <2>4, ContentsRight
  <2>6. Contents(Root, b) \in Seq(Value) /\ Len(Contents(Root, b)) = counts(Root)
    BY <1>0, <2>1, ContentsTyped DEF Size
  <2> QED
    BY <2>1, <2>5, <2>6
<1>8. \A b \in Arrays : /\ \A p \in start(Root) .. end(Root) : full'[b][p] = Serial!Table[b][p]
                        /\ \A x \in Rank \ {Root} : \A p \in start(x) .. end(x) : full'[b][p] = full[b][p]
  <2> SUFFICES ASSUME NEW b \in Arrays
               PROVE  /\ \A p \in start(Root) .. end(Root) : full'[b][p] = Serial!Table[b][p]
                      /\ \A x \in Rank \ {Root} : \A p \in start(x) .. end(x) : full'[b][p] = full[b][p]
    OBVIOUS
  <2>1. full'[b] = Place(full[b], Root, Contents(Root, b))
    BY <1>5
  <2>2. Root \in Rank
    BY RankFacts
  <2> QED
    BY <1>0, <1>7, <2>1, <2>2, PlaceRight
<1>9. \A s \in Rank : InnerRight(s)' /\ DYCRight(s)'
  BY <1>3, <1>5 DEF Values, InnerRight, DYCRight
<1>10. OuterRight'
  BY <1>3, <1>5, RankFacts DEF Values, OuterRight
<1>11. PlacedRight'
  <2> SUFFICES ASSUME NEW s \in Rank, NEW d \in Rank, NEW b \in SendBufs, Sends(s, d, b), Delivered(s, d, b)'
               PROVE  Placed(s, d, b)'
    BY DEF PlacedRight
  <2>1. Delivered(s, d, b)
    BY <1>2 DEF NothingReached
  <2>2. Placed(s, d, b)
    BY <2>1 DEF Values, PlacedRight
  <2>3. CASE b \in Arrays
    <3>1. s \in Rank \ {Root} /\ b \notin {"first", "last", "time"}
      BY <2>3 DEF Sends, Arrays
    <3>2. OnBlock(s, b)
      BY <2>2, <3>1 DEF Placed
    <3>3. OnBlock(s, b)'
      BY <1>1, <1>8, <2>3, <3>1, <3>2, LateSame DEF OnBlock
    <3> QED
      BY <3>1, <3>3 DEF Placed
  <2>4. CASE b \notin Arrays
    <3>1. b \in {"first", "last", "time"}
      BY <2>4, Buffers
    <3> QED
      BY <1>5, <2>2, <3>1 DEF Placed
  <2> QED
    BY <2>3, <2>4
<1>12. CarriedRight'
  BY <1>0, <1>1, <1>2, CarriedRightKept
<1>13. CopiedRight'
  BY <1>8, LateSame DEF CopiedRight, OnBlock
<1>14. Written'
  BY <1>1, <1>3, RankFacts DEF Values, Written
<1> QED
  BY <1>9, <1>10, <1>11, <1>12, <1>13, <1>14 DEF Values

\* When the root prints, it has every block.
LEMMA PrintRight ==
    ASSUME Inv, Values, TurnAt(Root, Own("print"))
    PROVE  Serial!Agrees(full)
<1>0. Stored /\ Running /\ arg \in Arguments /\ Root \in Rank
  BY RankFacts DEF Inv, Control, Running
<1>1. full \in [Arrays -> [1 .. NGRID -> Value]]
  BY <1>0 DEF Stored
<1>2. Order(arg, Own("print")) = 25 * Width /\ Order(arg, Own("copy")) = 22 * Width /\ Order(arg, Own("test")) = 23 * Width
  BY <1>0, Orders
<1>3. \A b \in Arrays : OnBlock(Root, b)
  <2>1. "copy" \in OwnCalls(arg, Root)
    BY DEF OwnCalls
  <2>2. Own("copy") \in ProgramCalls(arg, Root)
    BY <1>0, <2>1, ProgramOwn
  <2>3. Did(Root, Own("copy"))
    BY <1>2, <2>2, Widths DEF TurnAt
  <2> QED
    BY <2>3 DEF Values, CopiedRight
<1>4. ASSUME NEW s \in Rank \ {Root}, NEW b \in Arrays
      PROVE  OnBlock(s, b)
  <2>1. Sends(s, Root, b) /\ b \in SendBufs /\ b \notin {"first", "last", "time"}
    BY Buffers DEF Sends, Arrays
  <2>2. IF WaitsForRecv(arg, b) THEN Did(Root, Received(s, b)) ELSE Did(Root, Own("test"))
    <3>1. CASE WaitsForRecv(arg, b)
      <4>1. ~Early(arg)
        BY <3>1 DEF WaitsForRecv
      <4>2. Received(s, b) \in ProgramCalls(arg, Root)
        BY <1>0, <2>1, <3>1, ProgramAwaits
      <4>3. PICK n \in {0, 1, 2} : n = Block(b)
        BY BlockFacts DEF Arrays
      <4>4. PICK w \in Int : w = (19 + Block(b)) * Width /\ w <= 21 * Width
        BY <4>3, Widths
      <4>5. Order(arg, Received(s, b)) = IF Manual(arg) THEN 18 * Width + 6 * s + 2 * n + 1 ELSE w + 6 * s + 1
        BY <4>1, <4>3, <4>4, ArrayOrders
      <4>6. s \in Int /\ 6 * s < Width /\ Width \in Int /\ Width >= 6
        <5>1. s \in Nat /\ s < numproc
          BY RankFacts
        <5> QED
          BY <5>1, Widths, numprocAssumption DEF Width
      <4>7. Order(arg, Received(s, b)) < 25 * Width
        BY <4>3, <4>4, <4>5, <4>6
      <4> QED
        BY <1>2, <3>1, <4>2, <4>7 DEF TurnAt
    <3>2. CASE ~WaitsForRecv(arg, b)
      <4>1. Early(arg)
        BY <3>2 DEF WaitsForRecv
      <4>2. numproc # 1
        BY <1>0 DEF Rank, Root
      <4>3. "test" \in OwnCalls(arg, Root)
        BY <4>1, <4>2 DEF OwnCalls
      <4>4. Own("test") \in ProgramCalls(arg, Root)
        BY <1>0, <4>3, ProgramOwn
      <4>5. Did(Root, Own("test"))
        BY <1>2, <4>4, Widths DEF TurnAt
      <4> QED
        BY <3>2, <4>5
    <3> QED
      BY <3>1, <3>2
  <2>3. Delivered(s, Root, b)
    BY <1>0, <2>1, <2>2, Arrived
  <2>4. Placed(s, Root, b)
    BY <1>0, <2>1, <2>3 DEF Values, PlacedRight
  <2> QED
    BY <2>1, <2>4 DEF Placed
<1>5. ASSUME NEW b \in Arrays, NEW p \in 1 .. NGRID, <<b, p>> \notin LateCells
      PROVE  full[b][p] = Serial!Table[b][p]
  <2>1. PICK s \in Rank : start(s) <= p /\ p <= end(s)
    BY PointsOwned
  <2>2. p \in start(s) .. end(s)
    BY <2>1, Blocks, NGRIDAssumption
  <2>3. ~Late(s, b)
    <3>1. b \in Range(Array)
      BY Buffers
    <3> QED
      BY <1>5, <2>2, <3>1 DEF LateCells
  <2>4. OnBlock(s, b)
    BY <1>3, <1>4
  <2> QED
    BY <2>2, <2>3, <2>4 DEF OnBlock
<1>6. DOMAIN full = Arrays /\ \A b \in Arrays : DOMAIN full[b] = 1 .. NGRID
  BY <1>1
<1>7. DOMAIN Serial!Table = Arrays
  BY DEF Serial!Table, Arrays
<1> QED
  BY <1>5, <1>6, <1>7 DEF Serial!Agrees

\* The one table that is written is the sequential program's, but for late blocks.
LEMMA PrintValues ==
    ASSUME Inv, Values, NEW r \in Rank, PrintFile(r)
    PROVE  Values' /\ Serial!PrintFile
<1>0. Control /\ CarriedRight
  BY DEF Inv, Values
<1>1. /\ At(r, "print") /\ "print" \notin Messages /\ Advance(r) /\ arg' = arg
      /\ sends' = sends /\ recvs' = recvs /\ yc' = yc /\ dyc' = dyc /\ full' = full
      /\ file' = Append(file, full)
  BY DEF PrintFile, data, Messages
<1>2. NothingReached /\ NothingSent /\ TurnAt(r, Own("print")) /\ "print" \in OwnCalls(arg, r)
  BY <1>0, <1>1, OwnTurn
<1>3. /\ \A s \in Rank : \A w : Did(s, Own(w))' <=> Did(s, Own(w)) \/ (s = r /\ w = "print")
      /\ ~Did(r, Own("print"))
  BY <1>2, OwnDid
<1>4. r = Root /\ Root \in Rank
  BY <1>2, RankFacts DEF OwnCalls
<1>5. file = << >> /\ Serial!Agrees(full)
  <2>1. Serial!Agrees(full)
    BY <1>2, <1>4, PrintRight
  <2> QED
    BY <1>3, <1>4, <2>1 DEF Values, Written
<1>6. Len(file') = 1 /\ file'[1] = full
  <2>1. \A x : Append(<< >>, x) = <<x>>
    OBVIOUS
  <2> QED
    BY <1>1, <1>5, <2>1
<1>7. \A s \in Rank : InnerRight(s)' /\ DYCRight(s)'
  BY <1>1, <1>3 DEF Values, InnerRight, DYCRight
<1>8. OuterRight'
  BY <1>1, <1>3, RankFacts DEF Values, OuterRight
<1>9. PlacedRight'
  BY <1>1, <1>2, LateSame DEF Values, PlacedRight, Placed, OnBlock, NothingReached
<1>10. CarriedRight'
  BY <1>0, <1>1, <1>2, CarriedRightKept
<1>11. CopiedRight'
  BY <1>1, <1>3, <1>4, LateSame DEF Values, CopiedRight, OnBlock
<1>12. Written'
  <2>1. Did(Root, Own("print"))'
    BY <1>3, <1>4
  <2> QED
    BY <2>1 DEF Written
<1>13. Serial!PrintFile
  BY <1>5, <1>6 DEF Serial!PrintFile
<1> QED
  BY <1>7, <1>8, <1>9, <1>10, <1>11, <1>12, <1>13 DEF Values

\* What the library reads is what the rank computed, if the block is not late.
LEMMA SentRight ==
    ASSUME Inv, Values, NGRID >= 2 * numproc, NEW s \in Rank, NEW d \in Rank, NEW b \in SendBufs, ~Late(s, b),
           Sends(s, d, b), Did(s, Posting(arg, s, d, b)),
           NEW u \in Message, InQueue(s, d, u), u.from = b, NEW values \in Sent(s, u)
    PROVE  values = RightValues(s, b)
<1>1. CASE u.copied
  <2>1. values = u.data
    BY <1>1 DEF Sent
  <2>2. u.data = RightValues(s, u.from)
    BY <1>1 DEF Values, CarriedRight
  <2> QED
    BY <2>1, <2>2
<1>2. CASE ~u.copied
  <2>1. s \notin freed
    <3>1. SUFFICES ASSUME s \in freed
                   PROVE  FALSE
      OBVIOUS
    <3>2. Did(s, Own("free"))
      BY <3>1 DEF Inv, FreedDid
    <3>3. PICK k \in DOMAIN sends[<<s, d>>] : sends[<<s, d>>][k] = u
      BY DEF InQueue
    <3>4. sends[<<s, d>>][k].copied
      BY <3>2, <3>3, FreedCopied
    <3> QED
      BY <1>2, <3>3, <3>4
  <2>2. values = Contents(s, b)
    BY <1>2, <2>1 DEF Sent
  <2>3. Stored /\ Running /\ InnerRight(s) /\ DYCRight(s)
    BY DEF Inv, Control, Values
  <2>4. Computed(s, b)
    BY <2>3, SentComputed
  <2>5. counts(s) >= 1
    <3>1. counts(s) >= 2 /\ counts(s) \in Nat
      BY BlocksHaveDx, BlockBounds
    <3> QED
      BY <3>1
  <2> QED
    BY <2>2, <2>3, <2>4, <2>5, ContentsRight
<1> QED
  BY <1>1, <1>2

\* A message has one sender for each cell it is for.
LEMMA OneSender ==
    ASSUME NEW s \in Rank, NEW x \in Rank, NEW d \in Rank, NEW b \in {"first", "last"},
           Sends(s, d, b), Sends(x, d, b)
    PROVE  x = s
  BY RankFacts DEF Sends

\* The edge in buffer b of s is put in cell c of rank d, which has n values.
EdgeStored(s, d, b, n, c, v) ==
    /\ n \in Nat /\ n = counts(d)
    /\ c = IF b = "last" THEN 0 ELSE n + 1
    /\ v = IF b = "last" THEN {end(s)} ELSE {start(s)}
    /\ yc[d] \in [0 .. n + 1 -> Value] /\ yc'[d] = [yc[d] EXCEPT ![c] = v]
    /\ \A x \in Rank : x # d => yc'[x] = yc[x]
    /\ dyc' = dyc /\ full' = full /\ arg' = arg

\* An edge value goes to the outer cell it is for.
LEMMA EdgeMoved ==
    ASSUME Values, NEW s \in Rank, NEW d \in Rank, NEW b \in {"first", "last"}, Moved(s, d, b),
           NEW n, NEW c, NEW v, EdgeStored(s, d, b, n, c, v),
           \A x \in Rank, w \in Marks : Did(x, Own(w))' <=> Did(x, Own(w))
    PROVE  /\ \A r \in Rank : InnerRight(r)'
           /\ OuterRight' /\ PlacedRight'
<1> /\ n \in Nat /\ n = counts(d)
    /\ c = IF b = "last" THEN 0 ELSE n + 1
    /\ v = IF b = "last" THEN {end(s)} ELSE {start(s)}
    /\ yc[d] \in [0 .. n + 1 -> Value] /\ yc'[d] = [yc[d] EXCEPT ![c] = v]
    /\ \A x \in Rank : x # d => yc'[x] = yc[x]
    /\ dyc' = dyc /\ full' = full /\ arg' = arg
  BY DEF EdgeStored
<1>0. /\ Root \in Rank /\ LastRank \in Rank
      /\ "ghosts" \in Marks /\ "yc" \in Marks
  BY MarkFacts
<1>1. Sends(s, d, b)
  BY DEF Moved
<1>2. yc'[d][c] = v /\ \A k \in 0 .. n + 1 : k # c => yc'[d][k] = yc[d][k]
  <2>1. c \in 0 .. n + 1
    OBVIOUS
  <2> QED
    BY <2>1
<1>3. \A k \in 1 .. n : yc'[d][k] = yc[d][k]
  <2>1. \A k \in 1 .. n : k \in 0 .. n + 1 /\ k # c
    OBVIOUS
  <2> QED
    BY <1>2, <2>1
<1>4. ASSUME NEW r \in Rank
      PROVE  InnerRight(r)'
  <2>1. \A k \in Inner(r) : yc'[r][k] = yc[r][k]
    BY <1>3 DEF Inner
  <2>2. InnerRight(r)
    BY DEF Values
  <2> QED
    BY <1>0, <2>1, <2>2 DEF InnerRight
<1>5. OuterRight'
  <2>1. Did(Root, Own("ghosts"))' => yc'[Root][0] = {0}
    <3>1. d = Root => b # "last"
      <4>1. s \in Nat /\ Root = 0
        BY RankFacts
      <4> QED
        BY <1>1, <4>1 DEF Sends
    <3>2. yc'[Root][0] = yc[Root][0]
      <4>1. d = Root => c = n + 1 /\ c # 0 /\ 0 \in 0 .. n + 1
        BY <3>1
      <4> QED
        BY <1>0, <1>2, <4>1
    <3> QED
      BY <1>0, <3>2 DEF Values, OuterRight
  <2>2. Did(LastRank, Own("ghosts"))' => yc'[LastRank][counts(LastRank) + 1] = {NGRID + 1}
    <3>1. d = LastRank => b # "first"
      <4>1. s \in Nat /\ s < numproc /\ LastRank = numproc - 1 /\ numproc \in Nat
        BY RankFacts, numprocAssumption
      <4> QED
        BY <1>1, <4>1 DEF Sends
    <3>2. yc'[LastRank][counts(LastRank) + 1] = yc[LastRank][counts(LastRank) + 1]
      <4>1. d = LastRank => c = 0 /\ n + 1 # c /\ n + 1 \in 0 .. n + 1
        BY <3>1
      <4> QED
        BY <1>0, <1>2, <4>1
    <3> QED
      BY <1>0, <3>2 DEF Values, OuterRight
  <2> QED
    BY <2>1, <2>2 DEF OuterRight
<1>6. ASSUME NEW x \in Rank, NEW y \in Rank, NEW e \in SendBufs, Sends(x, y, e), Delivered(x, y, e)'
      PROVE  Placed(x, y, e)'
  <2>1. Delivered(x, y, e) \/ (x = s /\ y = d /\ e = b)
    BY <1>6 DEF Moved
  <2>2. CASE y = d /\ e = b
    <3>1. x = s
      BY <1>1, <1>6, <2>2, OneSender
    <3>2. b = "last" => yc'[y][0] = {end(x)}
      BY <1>2, <2>2, <3>1
    <3>3. b = "first" => yc'[y][counts(y) + 1] = {start(x)}
      BY <1>2, <2>2, <3>1
    <3> QED
      BY <2>2, <3>2, <3>3 DEF Placed
  <2>3. CASE ~(y = d /\ e = b)
    <3>1. Placed(x, y, e)
      BY <1>6, <2>1, <2>3 DEF Values, PlacedRight
    <3>2. CASE e = "last"
      <4>1. yc'[y][0] = yc[y][0]
        <5>1. y = d => c = n + 1 /\ c # 0 /\ 0 \in 0 .. n + 1
          BY <2>3, <3>2
        <5> QED
          BY <1>2, <5>1
      <4> QED
        BY <3>1, <3>2, <4>1 DEF Placed
    <3>3. CASE e = "first"
      <4>1. yc'[y][counts(y) + 1] = yc[y][counts(y) + 1]
        <5>1. y = d => c = 0 /\ n + 1 # c /\ n + 1 \in 0 .. n + 1
          BY <2>3, <3>3
        <5> QED
          BY <1>2, <5>1
      <4> QED
        BY <3>1, <3>3, <4>1 DEF Placed
    <3>4. CASE e \notin {"first", "last"}
      BY <3>1, <3>4, LateSame DEF Placed, OnBlock
    <3> QED
      BY <3>2, <3>3, <3>4
  <2> QED
    BY <2>2, <2>3
<1>7. PlacedRight'
  BY <1>6 DEF PlacedRight
<1> QED
  BY <1>4, <1>5, <1>7

\* A block goes to its place, and moves no other.
LEMMA BlockMoved ==
    ASSUME Stored, Values, NEW s \in Rank, NEW d \in Rank, NEW b \in Arrays, Moved(s, d, b),
           NEW values \in Seq(Value), Len(values) = counts(s), Late(s, b) \/ values = RightValues(s, b),
           full' = [full EXCEPT ![b] = Place(full[b], s, values)], yc' = yc, dyc' = dyc, arg' = arg,
           \A x \in Rank, w \in Marks : Did(x, Own(w))' <=> Did(x, Own(w))
    PROVE  PlacedRight' /\ CopiedRight'
<1>0. Root \in Rank /\ "copy" \in Marks /\ s # Root /\ b \in SendBufs
  BY MarkFacts, Buffers DEF Moved, Sends, Arrays
<1>1. full \in [Arrays -> [1 .. NGRID -> Value]]
  BY DEF Stored
<1>2. full'[b] = Place(full[b], s, values) /\ \A e \in Arrays : e # b => full'[e] = full[e]
  BY <1>1
<1>3. /\ values = RightValues(s, b) => \A p \in start(s) .. end(s) : full'[b][p] = Serial!Table[b][p]
      /\ \A x \in Rank \ {s} : \A p \in start(x) .. end(x) : full'[b][p] = full[b][p]
  BY <1>2, PlaceRight
<1>4. OnBlock(s, b)'
  BY <1>3, LateSame DEF OnBlock
<1>5. ASSUME NEW x \in Rank, NEW e \in Arrays, OnBlock(x, e)
      PROVE  OnBlock(x, e)'
  <2>1. CASE x = s /\ e = b
    BY <1>4, <2>1
  <2>2. CASE e # b
    BY <1>2, <1>5, <2>2, LateSame DEF OnBlock
  <2>3. CASE e = b /\ x # s
    BY <1>3, <1>5, <2>3, LateSame DEF OnBlock
  <2> QED
    BY <2>1, <2>2, <2>3
<1>6. ASSUME NEW x \in Rank, NEW y \in Rank, NEW e \in SendBufs, Sends(x, y, e), Delivered(x, y, e)'
      PROVE  Placed(x, y, e)'
  <2>1. Delivered(x, y, e) \/ (x = s /\ y = d /\ e = b)
    BY <1>0, <1>6 DEF Moved
  <2>2. CASE e \in Arrays
    <3>1. e \notin {"first", "last", "time"}
      BY <2>2 DEF Arrays
    <3>2. OnBlock(x, e) \/ (x = s /\ e = b)
      BY <1>6, <2>1, <3>1 DEF Values, PlacedRight, Placed
    <3>3. OnBlock(x, e)'
      BY <1>4, <1>5, <2>2, <3>2
    <3> QED
      BY <3>1, <3>3 DEF Placed
  <2>3. CASE e \notin Arrays
    <3>1. e \in {"first", "last", "time"} /\ e # b
      BY <2>3, Buffers
    <3>2. Placed(x, y, e)
      BY <1>6, <2>1, <3>1 DEF Values, PlacedRight
    <3> QED
      BY <3>1, <3>2 DEF Placed
  <2> QED
    BY <2>2, <2>3
<1>7. PlacedRight'
  BY <1>6 DEF PlacedRight
<1>8. CopiedRight'
  BY <1>0, <1>5 DEF Values, CopiedRight
<1> QED
  BY <1>7, <1>8

\* A transfer moves the right values to the right place.
LEMMA TransferValues ==
    ASSUME Inv, Values, NGRID >= 2 * numproc, NEW s \in Rank, NEW d \in Rank, Transfer(s, d)
    PROVE  Values' /\ file' = file
<1>0. Control /\ Stored /\ Carried /\ CarriedRight /\ arg' = arg /\ file' = file
  BY DEF Inv, Values, Transfer
<1>1. NothingSent /\ OwnsKept
  BY <1>0, TransferTurn
<1>2. PICK b \in SendBufs : Moved(s, d, b)
  BY <1>0, TransferTurn
<1>3. PICK u \in Message : /\ InQueue(s, d, u) /\ u.from = b
                           /\ \E values \in Sent(s, u) : Store(s, d, Into(b), values)
  BY <1>2 DEF Moved
<1>4. PICK values \in Sent(s, u) : Store(s, d, Into(b), values)
  BY <1>3
<1>5. values \in Seq(Value) /\ Len(values) = Size(s, b)
  BY <1>0, <1>3, SentTyped
<1>11. /\ b = "last" => /\ yc'[d] = [yc[d] EXCEPT ![0] = values[1]] /\ dyc' = dyc /\ full' = full
                         /\ \A x \in Rank : x # d => yc'[x] = yc[x]
       /\ b = "first" => /\ yc'[d] = [yc[d] EXCEPT ![counts(d) + 1] = values[1]] /\ dyc' = dyc /\ full' = full
                          /\ \A x \in Rank : x # d => yc'[x] = yc[x]
       /\ b = "time" => yc' = yc /\ dyc' = dyc /\ full' = full
       /\ b \in Arrays => /\ full' = [full EXCEPT ![b] = Place(full[b], s, values)]
                          /\ yc' = yc /\ dyc' = dyc
  BY <1>0, <1>4, <1>5, StoreStored
<1>6. Late(s, b) \/ values = RightValues(s, b)
  <2>1. Sends(s, d, b) /\ Did(s, Posting(arg, s, d, b))
    BY <1>2 DEF Moved
  <2> QED
    BY <1>3, <2>1, SentRight
<1>7. \A x \in Rank, w \in Marks : Did(x, Own(w))' <=> Did(x, Own(w))
  BY <1>1, MarkFacts DEF OwnsKept
<1>8. "dyc" \in Marks /\ "copy" \in Marks /\ "print" \in Marks /\ Root \in Rank
  BY MarkFacts
<1>9. CarriedRight' /\ Written'
  BY <1>0, <1>1, <1>7, <1>8, CarriedRightKept DEF Values, Written
<1>10. (\A r \in Rank : InnerRight(r)' /\ DYCRight(r)') /\ OuterRight' /\ PlacedRight' /\ CopiedRight'
  <2>1. ASSUME b \in {"first", "last"}
        PROVE  (\A r \in Rank : InnerRight(r)' /\ DYCRight(r)') /\ OuterRight' /\ PlacedRight' /\ CopiedRight'
    <3>1. PICK n \in Nat : n = counts(d)
      BY BlockBounds
    <3>2. yc[d] \in [0 .. n + 1 -> Value]
      BY <1>0, <3>1 DEF Stored
    <3>3. PICK c, v : /\ c = (IF b = "last" THEN 0 ELSE n + 1)
                      /\ v = (IF b = "last" THEN {end(s)} ELSE {start(s)})
      OBVIOUS
    <3>4. values[1] = v
      <4>1. values = RightValues(s, b)
        BY <1>6, <2>1 DEF Late
      <4> QED
        BY <2>1, <3>3, <4>1 DEF RightValues
    <3>5. /\ yc'[d] = [yc[d] EXCEPT ![IF b = "last" THEN 0 ELSE counts(d) + 1] = values[1]]
          /\ dyc' = dyc /\ full' = full
          /\ \A x \in Rank : x # d => yc'[x] = yc[x]
      BY <1>11, <2>1
    <3>6. yc'[d] = [yc[d] EXCEPT ![c] = v]
      BY <3>1, <3>3, <3>4, <3>5
    <3>7. (\A r \in Rank : InnerRight(r)') /\ OuterRight' /\ PlacedRight'
      <4>1. EdgeStored(s, d, b, n, c, v)
        BY <1>0, <3>1, <3>2, <3>3, <3>5, <3>6 DEF EdgeStored
      <4> QED
        BY <1>2, <1>7, <2>1, <4>1, EdgeMoved
    <3>8. \A r \in Rank : DYCRight(r)'
      BY <1>7, <1>8, <3>5 DEF Values, DYCRight
    <3>9. CopiedRight'
      BY <1>7, <1>8, <3>5, LateSame DEF Values, CopiedRight, OnBlock
    <3> QED
      BY <3>7, <3>8, <3>9
  <2>2. ASSUME b \in Arrays
        PROVE  (\A r \in Rank : InnerRight(r)' /\ DYCRight(r)') /\ OuterRight' /\ PlacedRight' /\ CopiedRight'
    <3>1. full' = [full EXCEPT ![b] = Place(full[b], s, values)] /\ yc' = yc /\ dyc' = dyc
      BY <1>11, <2>2
    <3>2. Len(values) = counts(s)
      BY <1>5, <2>2 DEF Size
    <3>3. PlacedRight' /\ CopiedRight'
      BY <1>0, <1>2, <1>5, <1>6, <1>7, <2>2, <3>1, <3>2, BlockMoved
    <3>4. "yc" \in Marks /\ "ghosts" \in Marks /\ LastRank \in Rank
      BY MarkFacts
    <3>5. \A r \in Rank : InnerRight(r)' /\ DYCRight(r)'
      BY <1>7, <1>8, <3>1, <3>4 DEF Values, InnerRight, DYCRight
    <3>6. OuterRight'
      BY <1>7, <1>8, <3>1, <3>4 DEF Values, OuterRight
    <3> QED
      BY <3>3, <3>5, <3>6
  <2>3. ASSUME b = "time"
        PROVE  (\A r \in Rank : InnerRight(r)' /\ DYCRight(r)') /\ OuterRight' /\ PlacedRight' /\ CopiedRight'
    <3>1. yc' = yc /\ dyc' = dyc /\ full' = full
      BY <1>11, <2>3
    <3>2. "yc" \in Marks /\ "ghosts" \in Marks /\ LastRank \in Rank
      BY MarkFacts
    <3>3. \A r \in Rank : InnerRight(r)' /\ DYCRight(r)'
      BY <1>7, <1>8, <3>1, <3>2 DEF Values, InnerRight, DYCRight
    <3>4. OuterRight'
      BY <1>7, <1>8, <3>1, <3>2 DEF Values, OuterRight
    <3>5. CopiedRight'
      BY <1>7, <1>8, <3>1, LateSame DEF Values, CopiedRight, OnBlock
    <3>6. PlacedRight'
      <4> SUFFICES ASSUME NEW x \in Rank, NEW y \in Rank, NEW e \in SendBufs, Sends(x, y, e), Delivered(x, y, e)'
                   PROVE  Placed(x, y, e)'
        BY DEF PlacedRight
      <4>1. Delivered(x, y, e) \/ e = "time"
        BY <1>2, <2>3 DEF Moved
      <4>2. Placed(x, y, e)
        BY <4>1 DEF Values, PlacedRight, Placed
      <4>3. OnBlock(x, e) => OnBlock(x, e)'
        BY <1>0, <3>1, LateSame DEF OnBlock
      <4> QED
        BY <3>1, <4>2, <4>3 DEF Placed
    <3> QED
      BY <3>3, <3>4, <3>5, <3>6
  <2> QED
    BY <2>1, <2>2, <2>3, Buffers
<1> QED
  BY <1>0, <1>9, <1>10 DEF Values

----------------------------------------------------------------------------
(* The parallel program implements the sequential one.  *)

\* Nothing is computed at the start.
LEMMA InitValues ==
    ASSUME Init
    PROVE  Values /\ Serial!Init
<1>0. pc = [r \in Rank |-> 0] /\ file = << >> /\ sends = Idle(Rank)
  BY DEF Init
<1>1. \A r \in Rank : \A c : ~Did(r, c)
  BY <1>0 DEF Did
<1>2. \A r \in Rank : InnerRight(r) /\ DYCRight(r)
  BY <1>1 DEF InnerRight, DYCRight
<1>3. OuterRight /\ CopiedRight /\ Written
  BY <1>0, <1>1, RankFacts DEF OuterRight, CopiedRight, Written
<1>4. PlacedRight
  BY <1>1 DEF PlacedRight, Delivered
<1>5. CarriedRight
  <2>1. \A s, d \in Rank : sends[<<s, d>>] = << >>
    BY <1>0 DEF Idle
  <2> QED
    BY <2>1 DEF CarriedRight, InQueue
<1> QED
  BY <1>0, <1>2, <1>3, <1>4, <1>5 DEF Values, Serial!Init

\* Only the root's call of print_function_data writes.
LEMMA Unwritten ==
    ASSUME NEW r \in Rank, Step(r)
    PROVE  PrintFile(r) \/ file' = file
  BY DEF Step, MPI_Isend, MPI_Irecv, MPI_Wait, MPI_Test, MPI_Finalize, SetGhosts, ComputeYC, ComputeDYC,
         CopyOwn, Free

\* Every step keeps the values, and writes only what the sequential program writes.
LEMMA NextValues ==
    ASSUME Inv, Values, NGRID >= 2 * numproc, [Next]_vars
    PROVE  Values' /\ [Serial!PrintFile]_file
<1>1. CASE \E r \in Rank : Step(r)
  <2>1. PICK r \in Rank : Step(r)
    BY <1>1
  <2>2. CASE PrintFile(r)
    BY <2>2, PrintValues
  <2>3. CASE ~PrintFile(r)
    <3>1. file' = file
      BY <2>1, <2>3, Unwritten
    <3>2. CASE MPI_Isend(r)
      BY <3>1, <3>2, SendValues
    <3>3. CASE MPI_Irecv(r) \/ MPI_Wait(r) \/ MPI_Test(r) \/ MPI_Finalize(r) \/ Free(r)
      BY <3>1, <3>3, IdleValues
    <3>4. CASE SetGhosts(r)
      BY <3>1, <3>4, GhostValues
    <3>5. CASE ComputeYC(r)
      BY <3>1, <3>5, YCValues
    <3>6. CASE ComputeDYC(r)
      BY <3>1, <3>6, DYCValues
    <3>7. CASE CopyOwn(r)
      BY <3>1, <3>7, CopyValues
    <3> QED
      BY <2>1, <2>3, <3>2, <3>3, <3>4, <3>5, <3>6, <3>7 DEF Step
  <2> QED
    BY <2>2, <2>3
<1>2. CASE Delivery
  <2>1. PICK s \in Rank, d \in Rank : Transfer(s, d)
    BY <1>2 DEF Delivery
  <2> QED
    BY <2>1, TransferValues
<1>3. CASE UNCHANGED vars
  <2>1. arg' = arg /\ pc' = pc /\ yc' = yc /\ dyc' = dyc /\ full' = full /\ file' = file /\ sends' = sends /\ recvs' = recvs
    BY <1>3 DEF vars, data
  <2>2. Control /\ CarriedRight
    BY DEF Inv, Values
  <2>3. NothingReached /\ NothingSent /\ OwnsKept
    BY <2>1, <2>2, SameControl
  <2>4. CarriedRight'
    BY <2>1, <2>2, <2>3, CarriedRightKept
  <2>5. \A s \in Rank, w \in Marks : Did(s, Own(w))' <=> Did(s, Own(w))
    BY <2>3, MarkFacts DEF OwnsKept
  <2> QED
    BY <2>1, <2>3, <2>4, <2>5, ValuesKept
<1> QED
  BY <1>1, <1>2, <1>3 DEF Next

\* The parallel program implements the sequential one, for every number of
\* ranks, grid and command line: the root writes one file (line 270), with the
\* table of hw1/q2/serial.c in every cell that is not in a late block.  Each rank
\* needs two points, for dx (line 108).
THEOREM SerialImplemented ==
    ASSUME NGRID >= 2 * numproc
    PROVE  Spec => ImplementsSerial
<1>1. Init => Inv /\ Values /\ Serial!Init
  BY InitInv, InitValues
<1>2. Inv /\ Values /\ [Next]_vars => Inv' /\ Values' /\ [Serial!PrintFile]_file
  BY NextInv, NextValues
<1> QED
  BY <1>1, <1>2, PTL DEF Spec, ImplementsSerial, Serial!Spec
=============================================================================
