--------------------------- MODULE PermChunksProofs ---------------------------
(***************************************************************************)
(* Every chunk of the persistent heap has one owner, free extents are      *)
(* joined, and no node that describes one is lost, for every number of     *)
(* threads, chunks, nodes and calls.                                       *)
(***************************************************************************)
EXTENDS PermChunks, FiniteSetTheorems, SequenceTheorems, TLAPS

----------------------------------------------------------------------------
(* Sets of extents that do not overlap.  *)

Ext            == [addr : Nat, size : Nat \ {0}]
End(e)         == e.addr + e.size
Within(e, end) == e \in Ext /\ End(e) <= end
Apart(e, f)    == End(e) <= f.addr \/ End(f) <= e.addr
Inside(e, f)   == f.addr <= e.addr /\ End(e) <= End(f)

\* The extents of the pieces of S lie below end, and no two overlap.
Separate(S, end) ==
    /\ \A p \in S : Within(p.extent, end)
    /\ \A p, q \in S : p # q => Apart(p.extent, q.extent)

\* Every chunk below end is in a piece of S.
Covered(S, end) == \A c \in 0 .. end - 1 : \E p \in S : c \in ChunksOf(p.extent)

\* S divides the chunks below end.
Divided(S, end) == Separate(S, end) /\ Covered(S, end)

\* A piece is replaced by pieces that divide it.
LEMMA SplitPiece ==
    ASSUME NEW S, NEW end \in Nat, Divided(S, end), NEW p \in S, NEW N,
           \A n \in N : n.extent \in Ext /\ Inside(n.extent, p.extent),
           \A n, o \in N : n # o => Apart(n.extent, o.extent),
           \A c \in ChunksOf(p.extent) : \E n \in N : c \in ChunksOf(n.extent)
    PROVE  Divided((S \ {p}) \union N, end)
<1> DEFINE T == (S \ {p}) \union N
<1>1. \A q \in S : q.extent \in Ext /\ End(q.extent) <= end
  BY DEF Divided, Separate, Within
<1>2. \A q \in T : Within(q.extent, end)
  BY <1>1 DEF Within, Inside, End, Ext
<1>3. ASSUME NEW q \in S \ {p}, NEW n \in N
      PROVE  Apart(q.extent, n.extent)
  <2>1. Apart(q.extent, p.extent)
    BY DEF Divided, Separate
  <2>2. n.extent \in Ext /\ Inside(n.extent, p.extent) /\ q.extent \in Ext /\ p.extent \in Ext
    BY <1>1
  <2> QED
    BY <2>1, <2>2 DEF Apart, Inside, End, Ext
<1>4. ASSUME NEW n \in T, NEW o \in T, n # o
      PROVE  Apart(n.extent, o.extent)
  <2>1. CASE n \in S \ {p} /\ o \in S \ {p}
    BY <1>4, <2>1 DEF Divided, Separate
  <2>2. CASE n \in S \ {p} /\ o \in N
    BY <1>3, <2>2
  <2>3. CASE n \in N /\ o \in S \ {p}
    BY <1>3, <2>3 DEF Apart
  <2>4. CASE n \in N /\ o \in N
    BY <1>4, <2>4
  <2> QED
    BY <2>1, <2>2, <2>3, <2>4
<1>5. Covered(T, end)
  BY DEF Divided, Covered
<1> QED
  BY <1>2, <1>4, <1>5 DEF Divided, Separate

\* A piece goes to another owner.
LEMMA MovePiece ==
    ASSUME NEW S, NEW end \in Nat, Divided(S, end), NEW p \in S, NEW n, n.extent = p.extent
    PROVE  Divided((S \ {p}) \union {n}, end)
<1>1. p.extent \in Ext
  BY DEF Divided, Separate, Within
<1>2. Inside(n.extent, p.extent)
  BY <1>1 DEF Inside, End, Ext
<1> QED
  BY <1>1, <1>2, SplitPiece

\* The memory in use is extended.
LEMMA AddPiece ==
    ASSUME NEW S, NEW end \in Nat, Divided(S, end), NEW n, NEW k \in Nat \ {0},
           n.extent = Extent(end, k)
    PROVE  Divided(S \union {n}, end + k)
<1>1. \A q \in S : q.extent \in Ext /\ End(q.extent) <= end
  BY DEF Divided, Separate, Within
<1>2. n.extent \in Ext /\ n.extent.addr = end /\ End(n.extent) = end + k
  BY DEF Extent, Ext, End
<1>3. \A q \in S \union {n} : Within(q.extent, end + k)
  BY <1>1, <1>2 DEF Within, End, Ext
<1>4. \A q \in S : Apart(q.extent, n.extent) /\ Apart(n.extent, q.extent)
  BY <1>1, <1>2 DEF Apart
<1>5. \A o, q \in S \union {n} : o # q => Apart(o.extent, q.extent)
  BY <1>4 DEF Divided, Separate
<1>6. Covered(S \union {n}, end + k)
  <2> SUFFICES ASSUME NEW c \in 0 .. end + k - 1
               PROVE  \E q \in S \union {n} : c \in ChunksOf(q.extent)
    BY DEF Covered
  <2>1. CASE c < end
    BY <2>1 DEF Divided, Covered
  <2>2. CASE c >= end
    BY <2>2 DEF ChunksOf, Extent
  <2> QED
    BY <2>1, <2>2
<1> QED
  BY <1>3, <1>5, <1>6 DEF Divided, Separate

\* The last piece is not in use any more.
LEMMA DropPiece ==
    ASSUME NEW S, NEW end \in Nat, Divided(S, end), NEW p \in S, End(p.extent) = end
    PROVE  Divided(S \ {p}, p.extent.addr) /\ p.extent.addr \in Nat /\ p.extent.addr < end
<1>1. \A q \in S : q.extent \in Ext /\ End(q.extent) <= end
  BY DEF Divided, Separate, Within
<1>2. p.extent.addr \in Nat /\ p.extent.addr < end
  BY <1>1 DEF Ext, End
<1>3. ASSUME NEW q \in S \ {p}
      PROVE  Within(q.extent, p.extent.addr)
  <2>1. Apart(q.extent, p.extent)
    BY DEF Divided, Separate
  <2> QED
    BY <1>1, <2>1 DEF Within, Apart, End, Ext
<1>4. \A c \in 0 .. p.extent.addr - 1 : c \in 0 .. end - 1 /\ c \notin ChunksOf(p.extent)
  BY <1>1, <1>2 DEF ChunksOf, Ext
<1>5. Covered(S \ {p}, p.extent.addr)
  BY <1>4 DEF Divided, Covered
<1> QED
  BY <1>2, <1>3, <1>5 DEF Divided, Separate

\* Pieces P of S become one that has their chunks.
Merge(S, P, w, end) ==
    /\ P \subseteq S /\ w.extent \in Ext /\ End(w.extent) <= end
    /\ \A o \in S \ P : Apart(o.extent, w.extent)
    /\ \A p \in P : ChunksOf(p.extent) \subseteq ChunksOf(w.extent)

\* Pieces that touch become one: the division stays one.
LEMMA MergePieces ==
    ASSUME NEW S, NEW end \in Nat, Divided(S, end), NEW P, NEW w, Merge(S, P, w, end)
    PROVE  Divided((S \ P) \union {w}, end) /\ w \notin S \ P
<1> DEFINE T == (S \ P) \union {w}
<1>0. /\ P \subseteq S /\ w.extent \in Ext /\ End(w.extent) <= end
      /\ \A o \in S \ P : Apart(o.extent, w.extent)
      /\ \A p \in P : ChunksOf(p.extent) \subseteq ChunksOf(w.extent)
  BY DEF Merge
<1>1. \A o \in T : Within(o.extent, end)
  BY <1>0 DEF Divided, Separate, Within
<1>2. \A o, r \in T : o # r => Apart(o.extent, r.extent)
  <2>1. \A o \in S \ P : Apart(w.extent, o.extent)
    BY <1>0 DEF Apart
  <2> QED
    BY <1>0, <2>1 DEF Divided, Separate
<1>3. Covered(T, end)
  <2> SUFFICES ASSUME NEW c \in 0 .. end - 1
               PROVE  \E o \in T : c \in ChunksOf(o.extent)
    BY DEF Covered
  <2>1. PICK o \in S : c \in ChunksOf(o.extent)
    BY DEF Divided, Covered
  <2> QED
    BY <1>0, <2>1
<1>4. w \notin S \ P
  BY <1>0 DEF Apart, End, Ext
<1> QED
  BY <1>1, <1>2, <1>3, <1>4 DEF Divided, Separate

----------------------------------------------------------------------------
(* What a thread has yet to do.  *)

Dos ==
    {"base_node_alloc", "base_alloc", "base_pages", "base_node_dealloc", "unlock_swap", "recycle",
     "extend", "dealloc", "dealloc2", "trim", "insert", "lock_base", "lock_huge", "lock_swap", "postfork"}
CallSet == [do : Dos, addr : Int, size : Int]

\* The fields of the calls.
LEMMA CallFacts ==
    /\ NULL \in Int
    /\ \A what \in Dos : /\ Do(what) \in CallSet
                         /\ Do(what).do = what
    /\ \A what \in Dos, a, k \in Int : /\ Call(what, a, k) \in CallSet
                                       /\ Call(what, a, k).do = what
                                       /\ Call(what, a, k).addr = a
                                       /\ Call(what, a, k).size = k
<1>1. NULL \in Int
  BY DEF NULL
<1> QED
  BY <1>1 DEF Do, Call, CallSet

\* Calls after which the thread takes no chunks for a call that waits for them.
Closing(c) == Named(c) \/ c.do \in {"trim", "lock_base", "lock_huge", "lock_swap", "postfork"}

\* The arguments of call k of s, and which calls follow it.
Follows(s, k) ==
    LET c == s[k]
    IN  /\ Named(c) => Extent(c.addr, c.size) \in Ext
        /\ c.do \in {"recycle", "extend"} => c.size \in Nat \ {0}
        /\ c.do = "trim" => c.addr \in Nat \ {0} /\ c.size \in Nat \ {0} /\ k = Len(s)
        /\ c.do = "recycle" => k < Len(s) /\ s[k + 1].do = "extend" /\ s[k + 1].size = c.size
        /\ c.do = "extend" => k < Len(s) /\ User(s[k + 1]) /\ Taken(s[k + 1]) = c.size
        /\ c.do \in {"base_node_alloc", "base_alloc", "base_pages"} =>
             /\ k < Len(s) /\ s[k + 1].do \in {"dealloc2", "recycle"}
             /\ s[k + 1].do = "recycle" => \A j \in k + 1 .. Len(s) : ~Named(s[j])
        /\ Closing(c) => \A j \in k + 1 .. Len(s) : ~User(s[j])

Script(s) == s \in Seq(CallSet) /\ \A k \in 1 .. Len(s) : Follows(s, k)

\* The extents of the hand do not overlap, also those of different calls.
Several(s, ret) ==
    /\ \A k \in Claims(s, ret) : Claim(s, ret, k) \in Ext
    /\ \A j, k \in Claims(s, ret) : j # k => Apart(Claim(s, ret, j), Claim(s, ret, k))

\* No chunks have been taken for a call of s.
Cold(s, ret) == \A k \in Claims(s, ret) : Named(s[k])

\* Nor for a call after the first i.
ColdAfter(s, ret, i) == \A k \in Claims(s, ret) : k > i => Named(s[k])

\* n is s with its first i calls replaced by m others.
Replaced(n, m, s, i) ==
    /\ m \in Nat /\ i \in Nat /\ Len(n) - m = Len(s) - i /\ i <= Len(s)
    /\ \A k \in 1 .. Len(s) - i : n[m + k] = s[i + k]

\* Calls that start a script and go on with what remains of one are a script.
LEMMA ScriptReplaced ==
    ASSUME NEW s, Script(s), NEW n \in Seq(CallSet), NEW m, NEW i, Replaced(n, m, s, i),
           \A k \in 1 .. m : Follows(n, k)
    PROVE  Script(n)
<1>0. s \in Seq(CallSet) /\ Len(s) \in Nat /\ Len(n) \in Nat /\ m \in Nat /\ i \in Nat
      /\ Len(n) - m = Len(s) - i
  BY DEF Script, Replaced
<1> SUFFICES ASSUME NEW k \in 1 .. Len(n), k > m
             PROVE  Follows(n, k)
  BY <1>0 DEF Script
<1> DEFINE j == k - m + i
<1>1. j \in 1 .. Len(s) /\ n[k] = s[j] /\ (k = Len(n) <=> j = Len(s))
  <2>1. k - m \in 1 .. Len(s) - i
    BY <1>0
  <2>2. n[m + (k - m)] = s[i + (k - m)]
    BY <2>1 DEF Replaced
  <2>3. m + (k - m) = k /\ i + (k - m) = j
    BY <1>0
  <2> QED
    BY <1>0, <2>1, <2>2, <2>3
<1>2. k < Len(n) => j < Len(s) /\ n[k + 1] = s[j + 1]
  <2> SUFFICES ASSUME k < Len(n)
               PROVE  j < Len(s) /\ n[k + 1] = s[j + 1]
    OBVIOUS
  <2>1. k + 1 - m \in 1 .. Len(s) - i
    BY <1>0
  <2>2. n[m + (k + 1 - m)] = s[i + (k + 1 - m)]
    BY <2>1 DEF Replaced
  <2>3. m + (k + 1 - m) = k + 1 /\ i + (k + 1 - m) = j + 1
    BY <1>0
  <2> QED
    BY <1>0, <2>1, <2>2, <2>3
<1>3. ASSUME NEW l \in k + 1 .. Len(n)
      PROVE  l - m + i \in j + 1 .. Len(s) /\ n[l] = s[l - m + i]
  <2>1. l - m \in 1 .. Len(s) - i
    BY <1>0
  <2>2. n[m + (l - m)] = s[i + (l - m)]
    BY <2>1 DEF Replaced
  <2>3. m + (l - m) = l /\ i + (l - m) = l - m + i
    BY <1>0
  <2> QED
    BY <1>0, <2>1, <2>2, <2>3
<1>4. Follows(s, j)
  BY <1>1 DEF Script
<1> HIDE DEF j
<1> QED
  BY <1>1, <1>2, <1>3, <1>4, <1>0 DEF Follows

\* The claims of n, but those in L, are those of s, but those in K.
Kept(n, r, L, s, ret, K, d) ==
    /\ K \subseteq Claims(s, ret) /\ L \subseteq Claims(n, r) /\ d \in Int
    /\ \A k \in Claims(n, r) \ L :
          k + d \in Claims(s, ret) \ K /\ Claim(n, r, k) = Claim(s, ret, k + d)
    /\ \A k \in Claims(s, ret) \ K :
          k - d \in Claims(n, r) \ L /\ Claim(n, r, k - d) = Claim(s, ret, k)

\* The hand for the calls n is that for s, with the claims K exchanged for L.
LEMMA HandKept ==
    ASSUME NEW s, NEW n, NEW r, NEW ret, NEW L, NEW K, NEW d, Kept(n, r, L, s, ret, K, d),
           Several(s, ret), Claims(s, ret) \subseteq Int, Claims(n, r) \subseteq Int,
           \A k \in L : Claim(n, r, k) \in Ext,
           \A j, k \in L : j # k => Apart(Claim(n, r, j), Claim(n, r, k)),
           \A j \in L, k \in Claims(s, ret) \ K : Apart(Claim(n, r, j), Claim(s, ret, k))
    PROVE  /\ HandOf(n, r) = (HandOf(s, ret) \ {Claim(s, ret, k) : k \in K})
                               \union {Claim(n, r, k) : k \in L}
           /\ Several(n, r)
<1>1. Several(n, r)
  <2>1. \A k \in Claims(n, r) : Claim(n, r, k) \in Ext
    BY DEF Kept, Several
  <2>2. ASSUME NEW j \in Claims(n, r), NEW k \in Claims(n, r), j # k
        PROVE  Apart(Claim(n, r, j), Claim(n, r, k))
    <3>1. CASE j \in L /\ k \in L
      BY <2>2, <3>1
    <3>2. CASE j \in L /\ k \notin L
      BY <3>2 DEF Kept
    <3>3. CASE j \notin L /\ k \in L
      <4>1. Apart(Claim(n, r, k), Claim(n, r, j))
        BY <3>3 DEF Kept
      <4> QED
        BY <4>1 DEF Apart
    <3>4. CASE j \notin L /\ k \notin L
      <4>1. /\ j + d \in Claims(s, ret) /\ Claim(n, r, j) = Claim(s, ret, j + d)
            /\ k + d \in Claims(s, ret) /\ Claim(n, r, k) = Claim(s, ret, k + d)
        BY <3>4 DEF Kept
      <4>2. j + d # k + d
        BY <2>2 DEF Kept
      <4> QED
        BY <4>1, <4>2 DEF Several
    <3> QED
      BY <3>1, <3>2, <3>3, <3>4
  <2> QED
    BY <2>1, <2>2 DEF Several
<1>2. ASSUME NEW j \in Claims(s, ret), NEW k \in Claims(s, ret), j # k
      PROVE  Claim(s, ret, j) # Claim(s, ret, k)
  <2>1. Apart(Claim(s, ret, j), Claim(s, ret, k)) /\ Claim(s, ret, j) \in Ext
    BY <1>2 DEF Several
  <2> QED
    BY <2>1 DEF Apart, End, Ext
<1>3. ASSUME NEW x
      PROVE  x \in HandOf(n, r) <=> \/ x \in HandOf(s, ret) \ {Claim(s, ret, k) : k \in K}
                                    \/ x \in {Claim(n, r, k) : k \in L}
  <2>1. ASSUME x \in HandOf(n, r)
        PROVE  \/ x \in HandOf(s, ret) \ {Claim(s, ret, k) : k \in K}
               \/ x \in {Claim(n, r, k) : k \in L}
    <3>1. PICK k \in Claims(n, r) : x = Claim(n, r, k)
      BY <2>1 DEF HandOf
    <3>2. CASE k \in L
      BY <3>1, <3>2
    <3>3. CASE k \notin L
      <4>1. k + d \in Claims(s, ret) \ K /\ x = Claim(s, ret, k + d)
        BY <3>1, <3>3 DEF Kept
      <4>2. x \notin {Claim(s, ret, i) : i \in K}
        BY <4>1, <1>2 DEF Kept
      <4> QED
        BY <4>1, <4>2 DEF HandOf
    <3> QED
      BY <3>2, <3>3
  <2>2. ASSUME x \in HandOf(s, ret), x \notin {Claim(s, ret, k) : k \in K}
        PROVE  x \in HandOf(n, r)
    <3>1. PICK k \in Claims(s, ret) : x = Claim(s, ret, k)
      BY <2>2 DEF HandOf
    <3>2. k \notin K
      BY <2>2, <3>1
    <3>3. k - d \in Claims(n, r) /\ x = Claim(n, r, k - d)
      BY <3>1, <3>2 DEF Kept
    <3> QED
      BY <3>3 DEF HandOf
  <2>3. ASSUME x \in {Claim(n, r, k) : k \in L}
        PROVE  x \in HandOf(n, r)
    BY <2>3 DEF HandOf, Kept
  <2> QED
    BY <2>1, <2>2, <2>3
<1> QED
  BY <1>1, <1>3

\* The calls that follow the one made.
LEMMA TailReplaced ==
    ASSUME NEW s, s \in Seq(CallSet), s # << >>
    PROVE  /\ Replaced(Tail(s), 0, s, 1) /\ Tail(s) \in Seq(CallSet)
           /\ Len(Tail(s)) = Len(s) - 1 /\ Head(s) = s[1] /\ Len(s) \in Nat \ {0} /\ s[1] \in CallSet
           /\ \A k \in 1 .. Len(s) - 1 : Tail(s)[k] = s[k + 1]
<1>1. Len(s) \in Nat \ {0} /\ Head(s) = s[1] /\ s[1] \in CallSet
  BY EmptySeq
<1>2. Tail(s) \in Seq(CallSet) /\ Len(Tail(s)) = Len(s) - 1
  BY <1>1
<1>3. \A k \in 1 .. Len(s) - 1 : Tail(s)[k] = s[k + 1]
  BY <1>1
<1> QED
  BY <1>1, <1>2, <1>3 DEF Replaced

\* Calls put before those that remain.
LEMMA PushReplaced ==
    ASSUME NEW p \in Seq(CallSet), NEW s, NEW u \in Seq(CallSet), NEW i,
           Replaced(u, 0, s, i), Len(s) \in Nat
    PROVE  /\ Replaced(p \o u, Len(p), s, i) /\ p \o u \in Seq(CallSet)
           /\ Len(p \o u) = Len(p) + Len(u)
           /\ \A k \in 1 .. Len(p) : (p \o u)[k] = p[k]
           /\ \A k \in 1 .. Len(u) : (p \o u)[Len(p) + k] = u[k]
<1>1. /\ p \o u \in Seq(CallSet) /\ Len(p) \in Nat /\ Len(u) \in Nat
      /\ Len(p \o u) = Len(p) + Len(u)
  OBVIOUS
<1>2. \A k \in 1 .. Len(p) : (p \o u)[k] = p[k]
  BY <1>1
<1>3. \A k \in 1 .. Len(u) : (p \o u)[Len(p) + k] = u[k]
  BY <1>1
<1>4. \A k \in 1 .. Len(s) - i : (p \o u)[Len(p) + k] = s[i + k]
  <2> SUFFICES ASSUME NEW k \in 1 .. Len(s) - i
               PROVE  (p \o u)[Len(p) + k] = s[i + k]
    OBVIOUS
  <2>1. Len(u) - 0 = Len(s) - i /\ u[0 + k] = s[i + k]
    BY DEF Replaced
  <2>2. k \in 1 .. Len(u) /\ 0 + k = k
    BY <1>1, <2>1
  <2> QED
    BY <1>3, <2>1, <2>2
<1> QED
  BY <1>1, <1>2, <1>3, <1>4 DEF Replaced

\* No chunks wait for a call when none were got, when no call takes them, or when another
\* call is to be made first.
LEMMA ColdFacts ==
    ASSUME NEW s \in Seq(CallSet), NEW ret,
           \/ ret = NULL
           \/ \A k \in 1 .. Len(s) : ~User(s[k])
           \/ s # << >> /\ ~Passive(s[1]) /\ ~User(s[1])
    PROVE  Cold(s, ret)
<1> SUFFICES ASSUME NEW k \in Claims(s, ret), ~Named(s[k])
             PROVE  FALSE
  BY DEF Cold
<1>1. k \in 1 .. Len(s) /\ User(s[k]) /\ ret # NULL /\ \A j \in 1 .. k - 1 : Passive(s[j])
  BY DEF Claims
<1>2. s # << >> /\ ~Passive(s[1]) /\ ~User(s[1])
  BY <1>1
<1>3. k > 1 /\ k \in Nat
  BY <1>1, <1>2
<1> QED
  BY <1>1, <1>2, <1>3

\* The calls that remain keep what they name.
LEMMA ColdReplaced ==
    ASSUME NEW s \in Seq(CallSet), NEW n \in Seq(CallSet), NEW m, NEW i, Replaced(n, m, s, i),
           NEW ret, NEW r, ColdAfter(s, ret, i), \A k \in 1 .. m : ~Named(n[k])
    PROVE  Kept(n, r, {k \in Claims(n, r) : ~Named(n[k])}, s, ret, {k \in Claims(s, ret) : k <= i}, i - m)
<1> DEFINE L == {k \in Claims(n, r) : ~Named(n[k])}
           K == {k \in Claims(s, ret) : k <= i}
<1>0. /\ Len(s) \in Nat /\ Len(n) \in Nat /\ m \in Nat /\ i \in Nat
      /\ Len(n) - m = Len(s) - i /\ i <= Len(s)
      /\ \A k \in 1 .. Len(s) - i : n[m + k] = s[i + k]
  BY DEF Replaced
<1>1. \A k \in i + 1 .. Len(s) : k \in Claims(s, ret) <=> Named(s[k])
  BY <1>0 DEF Claims, ColdAfter
<1>2. \A k \in 1 .. Len(n) : Named(n[k]) => k \in Claims(n, r)
  BY DEF Claims
<1>3. Claims(s, ret) \subseteq 1 .. Len(s) /\ Claims(n, r) \subseteq 1 .. Len(n)
  BY DEF Claims
<1>4. K \subseteq Claims(s, ret)
  OBVIOUS
<1>5. ASSUME NEW k \in Claims(n, r) \ L
      PROVE  k + (i - m) \in Claims(s, ret) \ K /\ Claim(n, r, k) = Claim(s, ret, k + (i - m))
  <2>1. Named(n[k]) /\ k \in 1 .. Len(n)
    BY <1>3
  <2>2. k - m \in 1 .. Len(s) - i
    BY <1>0, <2>1
  <2>3. n[m + (k - m)] = s[i + (k - m)]
    BY <1>0, <2>2
  <2>4. m + (k - m) = k /\ i + (k - m) = k + (i - m)
    BY <1>0, <2>1
  <2>5. n[k] = s[k + (i - m)]
    BY <2>3, <2>4
  <2>6. k + (i - m) \in i + 1 .. Len(s)
    BY <1>0, <2>1, <2>2
  <2>7. k + (i - m) \in Claims(s, ret) /\ k + (i - m) \notin K
    BY <1>0, <1>1, <2>1, <2>5, <2>6
  <2> QED
    BY <2>1, <2>5, <2>7 DEF Claim
<1>6. ASSUME NEW k \in Claims(s, ret) \ K
      PROVE  k - (i - m) \in Claims(n, r) \ L /\ Claim(n, r, k - (i - m)) = Claim(s, ret, k)
  <2>1. k \in i + 1 .. Len(s) /\ Named(s[k])
    BY <1>0, <1>1, <1>3
  <2>2. k - i \in 1 .. Len(s) - i
    BY <1>0, <2>1
  <2>3. n[m + (k - i)] = s[i + (k - i)]
    BY <1>0, <2>2
  <2>4. i + (k - i) = k /\ m + (k - i) = k - (i - m)
    BY <1>0, <2>1
  <2>5. n[k - (i - m)] = s[k]
    BY <2>3, <2>4
  <2>6. k - (i - m) \in 1 .. Len(n)
    BY <1>0, <2>1, <2>2
  <2> QED
    BY <1>2, <2>1, <2>5, <2>6 DEF Claim
<1> QED
  BY <1>0, <1>4, <1>5, <1>6 DEF Kept

\* No chunks have been taken for the calls that remain either: the hand keeps what they name.
LEMMA ColdHand ==
    ASSUME NEW s \in Seq(CallSet), NEW n \in Seq(CallSet), NEW m, NEW i, Replaced(n, m, s, i),
           NEW ret, NEW r, ColdAfter(s, ret, i), \A k \in 1 .. m : ~Named(n[k]), Several(s, ret), Cold(n, r)
    PROVE  /\ HandOf(n, r) = HandOf(s, ret) \ {Claim(s, ret, k) : k \in {j \in Claims(s, ret) : j <= i}}
           /\ Several(n, r)
<1> DEFINE L == {k \in Claims(n, r) : ~Named(n[k])}
           K == {k \in Claims(s, ret) : k <= i}
<1>1. Kept(n, r, L, s, ret, K, i - m)
  BY ColdReplaced
<1>2. L = {}
  BY DEF Cold
<1>3. Claims(s, ret) \subseteq Int /\ Claims(n, r) \subseteq Int
  BY DEF Claims
<1> HIDE DEF L, K
<1>4. /\ HandOf(n, r) = (HandOf(s, ret) \ {Claim(s, ret, k) : k \in K})
                               \union {Claim(n, r, k) : k \in L}
      /\ Several(n, r)
  BY <1>1, <1>2, <1>3, HandKept
<1> QED
  BY <1>2, <1>4 DEF K

\* e are the chunks at r, which have been taken for call m + 1 of n.
TakenAt(n, r, m, e) ==
    m < Len(n) /\ User(n[m + 1]) /\ r # NULL /\ e \in Ext /\ e = Extent(r, Taken(n[m + 1]))

\* The hand has e and what the calls that remain name.
LEMMA WarmHand ==
    ASSUME NEW s \in Seq(CallSet), NEW n \in Seq(CallSet), NEW m, NEW i, Replaced(n, m, s, i),
           NEW ret, NEW r, ColdAfter(s, ret, i), \A k \in 1 .. m : Passive(n[k]), Several(s, ret),
           \A k \in 1 .. i : k \notin Claims(s, ret), NEW e, TakenAt(n, r, m, e),
           \A x \in HandOf(s, ret) : Apart(e, x)
    PROVE  HandOf(n, r) = HandOf(s, ret) \union {e} /\ Several(n, r)
<1> DEFINE L == {k \in Claims(n, r) : ~Named(n[k])}
           K == {k \in Claims(s, ret) : k <= i}
<1>0. /\ m \in Nat /\ Len(n) \in Nat /\ m < Len(n) /\ User(n[m + 1]) /\ r # NULL
      /\ e \in Ext /\ e = Extent(r, Taken(n[m + 1]))
  BY DEF Replaced, TakenAt
<1>a. \A c : (Passive(c) => ~Named(c) /\ ~User(c)) /\ (User(c) => ~Named(c))
  BY DEF Passive, Named, User
<1>1. Kept(n, r, L, s, ret, K, i - m)
  BY <1>a, ColdReplaced
<1>2. K = {}
  BY DEF Claims
<1>3. Claims(s, ret) \subseteq Int /\ Claims(n, r) \subseteq Int
  BY DEF Claims
<1>4. L = {m + 1} /\ Claim(n, r, m + 1) = e /\ e \in Ext
  <2>1. m + 1 \in L /\ Claim(n, r, m + 1) = e
    BY <1>0, <1>a DEF Claims, Claim
  <2>2. ASSUME NEW k \in L
        PROVE  k = m + 1
    <3>1. k \in 1 .. Len(n) /\ User(n[k]) /\ \A j \in 1 .. k - 1 : Passive(n[j])
      BY DEF Claims
    <3>2. k > m
      BY <1>0, <1>a, <3>1
    <3>3. CASE k > m + 1
      BY <1>0, <1>a, <3>1, <3>3
    <3> QED
      BY <1>0, <3>1, <3>2, <3>3
  <2> QED
    BY <1>0, <2>1, <2>2
<1>5. \A k \in Claims(s, ret) : Claim(s, ret, k) \in HandOf(s, ret)
  BY DEF HandOf
<1> HIDE DEF L, K
<1>6. /\ HandOf(n, r) = (HandOf(s, ret) \ {Claim(s, ret, k) : k \in K})
                               \union {Claim(n, r, k) : k \in L}
      /\ Several(n, r)
  BY <1>1, <1>2, <1>3, <1>4, <1>5, HandKept
<1> QED
  BY <1>2, <1>4, <1>6

\* The mutexes are unlocked on the way.
LEMMA PassiveHand ==
    ASSUME NEW s, s \in Seq(CallSet), s # << >>, Passive(s[1]), NEW ret, Several(s, ret)
    PROVE  HandOf(Tail(s), ret) = HandOf(s, ret) /\ Several(Tail(s), ret)
<1> DEFINE n == Tail(s)
<1>1. /\ n \in Seq(CallSet) /\ Len(n) = Len(s) - 1 /\ Len(s) \in Nat \ {0}
      /\ \A k \in 1 .. Len(s) - 1 : n[k] = s[k + 1]
  BY TailReplaced
<1>2. ~Named(s[1]) /\ ~User(s[1])
  BY DEF Passive, Named, User
<1> HIDE DEF n
<1>3. ASSUME NEW k \in 1 .. Len(n)
      PROVE  /\ k + 1 \in 1 .. Len(s) /\ n[k] = s[k + 1]
             /\ (\A j \in 1 .. k - 1 : Passive(n[j])) <=> \A j \in 1 .. k + 1 - 1 : Passive(s[j])
  <2>1. k + 1 \in 1 .. Len(s) /\ n[k] = s[k + 1]
    BY <1>1
  <2>2. ASSUME \A j \in 1 .. k - 1 : Passive(n[j]), NEW j \in 1 .. k + 1 - 1
        PROVE  Passive(s[j])
    <3>1. CASE j = 1
      BY <3>1
    <3>2. CASE j # 1
      <4>1. j - 1 \in 1 .. k - 1 /\ j - 1 \in 1 .. Len(s) - 1 /\ j - 1 + 1 = j
        BY <1>1, <3>2
      <4> QED
        BY <1>1, <2>2, <4>1
    <3> QED
      BY <3>1, <3>2
  <2>3. ASSUME \A j \in 1 .. k + 1 - 1 : Passive(s[j]), NEW j \in 1 .. k - 1
        PROVE  Passive(n[j])
    <3>1. j + 1 \in 1 .. k + 1 - 1 /\ j \in 1 .. Len(s) - 1
      BY <1>1
    <3> QED
      BY <1>1, <2>3, <3>1
  <2> QED
    BY <2>1, <2>2, <2>3
<1>4. Claims(s, ret) \subseteq 2 .. Len(s) /\ Claims(n, ret) \subseteq 1 .. Len(n)
  BY <1>1, <1>2 DEF Claims
<1>5. \A k \in 1 .. Len(n) : k \in Claims(n, ret) <=> k + 1 \in Claims(s, ret)
  BY <1>3 DEF Claims
<1>6. \A k \in 1 .. Len(n) : Claim(n, ret, k) = Claim(s, ret, k + 1)
  BY <1>3 DEF Claim
<1>7. Kept(n, ret, {}, s, ret, {}, 1)
  <2>1. \A k \in Claims(n, ret) : k + 1 \in Claims(s, ret) /\ Claim(n, ret, k) = Claim(s, ret, k + 1)
    BY <1>4, <1>5, <1>6
  <2>2. ASSUME NEW k \in Claims(s, ret)
        PROVE  k - 1 \in Claims(n, ret) /\ Claim(n, ret, k - 1) = Claim(s, ret, k)
    <3>1. k - 1 \in 1 .. Len(n) /\ k - 1 + 1 = k
      BY <1>1, <1>4
    <3> QED
      BY <1>5, <1>6, <3>1
  <2> QED
    BY <2>1, <2>2 DEF Kept
<1>8. Claims(s, ret) \subseteq Int /\ Claims(n, ret) \subseteq Int
  BY <1>4
<1>9. /\ HandOf(n, ret) = (HandOf(s, ret) \ {Claim(s, ret, k) : k \in {}})
                               \union {Claim(n, ret, k) : k \in {}}
      /\ Several(n, ret)
  BY <1>7, <1>8, HandKept
<1> QED
  BY <1>9 DEF n

----------------------------------------------------------------------------
(* The inductive invariant.  *)

LocalSet == [ret : Int, node : BOOLEAN, zero : BOOLEAN]

Typed ==
    /\ swap_end \in 0 .. SwapMax
    /\ base_nodes \in Nat /\ base_left \in 0 .. NodesPerChunk
    /\ owner \in [Mutexes -> Threads \union {NoThread}]
    /\ calls \in [Threads -> Seq(CallSet)]
    /\ local \in [Threads -> LocalSet]
    /\ dirty \subseteq 0 .. SwapMax - 1
    /\ ops \in 0 .. MaxOps

Scripts == \A t \in Threads : Script(calls[t]) /\ Several(calls[t], local[t].ret)

Inv == Typed /\ Scripts /\ Divided(Pieces, swap_end) /\ Joined

----------------------------------------------------------------------------
(* What a step changes.  *)

Piece(what, t, e)    == [in |-> what, by |-> t, extent |-> e]
PieceSet(what, t, S) == {Piece(what, t, e) : e \in S}
Single(S)            == {Extent(c, 1) : c \in S}

\* A piece is determined by its owner and its extent.
LEMMA PieceFacts ==
    ASSUME NEW w, NEW t, NEW e, NEW v, NEW u, NEW f
    PROVE  /\ Piece(w, t, e) = Piece(v, u, f) <=> w = v /\ t = u /\ e = f
           /\ Piece(w, t, e).extent = e
  BY DEF Piece

\* The pieces by owner.
LEMMA PiecesAre ==
    ASSUME NEW p
    PROVE  p \in Pieces <=>
             \/ \E e \in free : p = Piece("free", NoThread, e)
             \/ \E e \in huge : p = Piece("huge", NoThread, e)
             \/ \E e \in Single(base_chunks) : p = Piece("base", NoThread, e)
             \/ \E e \in Single(leaked) : p = Piece("leaked", NoThread, e)
             \/ \E t \in Threads : \E e \in InHand(t) : p = Piece("hand", t, e)
  BY DEF Pieces, Piece, Single

\* The pieces by owner, after a step.
LEMMA NextPiecesAre ==
    ASSUME NEW p
    PROVE  p \in Pieces' <=>
             \/ \E e \in free' : p = Piece("free", NoThread, e)
             \/ \E e \in huge' : p = Piece("huge", NoThread, e)
             \/ \E e \in Single(base_chunks') : p = Piece("base", NoThread, e)
             \/ \E e \in Single(leaked') : p = Piece("leaked", NoThread, e)
             \/ \E t \in Threads : \E e \in InHand(t)' : p = Piece("hand", t, e)
  BY DEF Pieces, Piece, Single

\* Extents of free, huge and thread t's hand; with those of base and leaked chunks.
Gone(t, F, H, K) ==
    PieceSet("free", NoThread, F) \union PieceSet("huge", NoThread, H) \union PieceSet("hand", t, K)
Come(t, F, H, B, L, K) ==
    Gone(t, F, H, K) \union PieceSet("base", NoThread, Single(B))
    \union PieceSet("leaked", NoThread, Single(L))

\* A step takes F1, H1 and K1 from their owners and gives F2, H2, B, L and K2.
Change(t, F1, F2, H1, H2, B, L, K1, K2) ==
    /\ free' = (free \ F1) \union F2 /\ huge' = (huge \ H1) \union H2
    /\ base_chunks' = base_chunks \union B /\ leaked' = leaked \union L
    /\ InHand(t)' = (InHand(t) \ K1) \union K2
    /\ \A u \in Threads \ {t} : InHand(u)' = InHand(u)

\* The pieces that a step removes and adds.
LEMMA PiecesChange ==
    ASSUME NEW t \in Threads, NEW F1, NEW F2, NEW H1, NEW H2, NEW B, NEW L, NEW K1, NEW K2,
           Change(t, F1, F2, H1, H2, B, L, K1, K2)
    PROVE  Pieces' = (Pieces \ Gone(t, F1, H1, K1)) \union Come(t, F2, H2, B, L, K2)
<1> DEFINE R == Gone(t, F1, H1, K1)
           N == Come(t, F2, H2, B, L, K2)
<1>0. /\ free' = (free \ F1) \union F2 /\ huge' = (huge \ H1) \union H2
      /\ base_chunks' = base_chunks \union B /\ leaked' = leaked \union L
      /\ InHand(t)' = (InHand(t) \ K1) \union K2
      /\ \A u \in Threads \ {t} : InHand(u)' = InHand(u)
  BY DEF Change
<1>1. ASSUME NEW e
      PROVE  /\ Piece("free", NoThread, e) \in Pieces <=> e \in free
             /\ Piece("huge", NoThread, e) \in Pieces <=> e \in huge
             /\ Piece("base", NoThread, e) \in Pieces <=> e \in Single(base_chunks)
             /\ Piece("leaked", NoThread, e) \in Pieces <=> e \in Single(leaked)
             /\ \A u \in Threads : Piece("hand", u, e) \in Pieces <=> e \in InHand(u)
  BY PiecesAre, PieceFacts
<1>2. ASSUME NEW e
      PROVE  /\ Piece("free", NoThread, e) \in R <=> e \in F1
             /\ Piece("huge", NoThread, e) \in R <=> e \in H1
             /\ Piece("base", NoThread, e) \notin R
             /\ Piece("leaked", NoThread, e) \notin R
             /\ \A u \in Threads : Piece("hand", u, e) \in R <=> u = t /\ e \in K1
  BY PieceFacts DEF PieceSet, Gone, Come
<1>3. ASSUME NEW e
      PROVE  /\ Piece("free", NoThread, e) \in N <=> e \in F2
             /\ Piece("huge", NoThread, e) \in N <=> e \in H2
             /\ Piece("base", NoThread, e) \in N <=> e \in Single(B)
             /\ Piece("leaked", NoThread, e) \in N <=> e \in Single(L)
             /\ \A u \in Threads : Piece("hand", u, e) \in N <=> u = t /\ e \in K2
  BY PieceFacts DEF PieceSet, Gone, Come
<1>4. ASSUME NEW p \in N
      PROVE  \/ \E e : p = Piece("free", NoThread, e)
             \/ \E e : p = Piece("huge", NoThread, e)
             \/ \E e : p = Piece("base", NoThread, e)
             \/ \E e : p = Piece("leaked", NoThread, e)
             \/ \E e : p = Piece("hand", t, e)
  BY DEF PieceSet, Gone, Come
<1>5. /\ Single(base_chunks') = Single(base_chunks) \union Single(B)
      /\ Single(leaked') = Single(leaked) \union Single(L)
  BY <1>0 DEF Single
<1> HIDE DEF R, N
<1>6. ASSUME NEW p \in Pieces'
      PROVE  p \in (Pieces \ R) \union N
  <2>1. CASE \E e \in free' : p = Piece("free", NoThread, e)
    BY <2>1, <1>1, <1>2, <1>3, <1>0
  <2>2. CASE \E e \in huge' : p = Piece("huge", NoThread, e)
    BY <2>2, <1>1, <1>2, <1>3, <1>0
  <2>3. CASE \E e \in Single(base_chunks') : p = Piece("base", NoThread, e)
    <3>1. PICK e \in Single(base_chunks') : p = Piece("base", NoThread, e)
      BY <2>3
    <3>2. p \notin R
      BY <3>1, <1>2
    <3>3. p \in Pieces \/ p \in N
      BY <3>1, <1>1, <1>3, <1>5
    <3> QED
      BY <3>2, <3>3
  <2>4. CASE \E e \in Single(leaked') : p = Piece("leaked", NoThread, e)
    <3>1. PICK e \in Single(leaked') : p = Piece("leaked", NoThread, e)
      BY <2>4
    <3>2. p \notin R
      BY <3>1, <1>2
    <3>3. p \in Pieces \/ p \in N
      BY <3>1, <1>1, <1>3, <1>5
    <3> QED
      BY <3>2, <3>3
  <2>5. CASE \E u \in Threads : \E e \in InHand(u)' : p = Piece("hand", u, e)
    <3>0. PICK u \in Threads : \E e \in InHand(u)' : p = Piece("hand", u, e)
      BY <2>5
    <3>1. PICK e \in InHand(u)' : p = Piece("hand", u, e)
      BY <3>0
    <3>2. CASE u = t
      BY <3>1, <3>2, <1>1, <1>2, <1>3, <1>0
    <3>3. CASE u # t
      BY <3>1, <3>3, <1>1, <1>2, <1>3, <1>0
    <3> QED
      BY <3>2, <3>3
  <2> QED
    BY <2>1, <2>2, <2>3, <2>4, <2>5, NextPiecesAre
<1>7. ASSUME NEW p \in Pieces, p \notin R
      PROVE  p \in Pieces'
  <2>1. CASE \E e \in free : p = Piece("free", NoThread, e)
    BY <1>7, <2>1, <1>0, <1>2, NextPiecesAre
  <2>2. CASE \E e \in huge : p = Piece("huge", NoThread, e)
    BY <1>7, <2>2, <1>0, <1>2, NextPiecesAre
  <2>3. CASE \E e \in Single(base_chunks) : p = Piece("base", NoThread, e)
    BY <2>3, <1>5, NextPiecesAre
  <2>4. CASE \E e \in Single(leaked) : p = Piece("leaked", NoThread, e)
    BY <2>4, <1>5, NextPiecesAre
  <2>5. CASE \E u \in Threads : \E e \in InHand(u) : p = Piece("hand", u, e)
    <3>0. PICK u \in Threads : \E e \in InHand(u) : p = Piece("hand", u, e)
      BY <2>5
    <3>1. PICK e \in InHand(u) : p = Piece("hand", u, e)
      BY <3>0
    <3>2. e \in InHand(u)'
      BY <1>0, <1>7, <3>1, <1>2
    <3> QED
      BY <3>1, <3>2, NextPiecesAre
  <2> QED
    BY <2>1, <2>2, <2>3, <2>4, <2>5, PiecesAre
<1>8. ASSUME NEW p \in N
      PROVE  p \in Pieces'
  <2>1. CASE \E e : p = Piece("free", NoThread, e)
    BY <2>1, <1>0, <1>3, NextPiecesAre
  <2>2. CASE \E e : p = Piece("huge", NoThread, e)
    BY <2>2, <1>0, <1>3, NextPiecesAre
  <2>3. CASE \E e : p = Piece("base", NoThread, e)
    BY <2>3, <1>3, <1>5, NextPiecesAre
  <2>4. CASE \E e : p = Piece("leaked", NoThread, e)
    BY <2>4, <1>3, <1>5, NextPiecesAre
  <2>5. CASE \E e : p = Piece("hand", t, e)
    BY <2>5, <1>0, <1>3, NextPiecesAre
  <2> QED
    BY <2>1, <2>2, <2>3, <2>4, <2>5, <1>4
<1>9. Pieces' = (Pieces \ R) \union N
  BY <1>6, <1>7, <1>8
<1> QED
  BY <1>9 DEF R, N

\* Thread t is to make the calls n next, and has r as the address it got.
Moved(t, n, r) ==
    /\ calls' \in [Threads -> Seq(CallSet)] /\ calls'[t] = n
    /\ local' \in [Threads -> LocalSet] /\ local'[t].ret = r
    /\ \A u \in Threads \ {t} : calls'[u] = calls[u] /\ local'[u] = local[u]

\* What Set leaves alone.
LEMMA SetFacts ==
    ASSUME Typed, NEW t \in Threads
    PROVE  /\ local' = local => local' \in [Threads -> LocalSet]
           /\ \A v \in BOOLEAN : Set(t, "node", v) => local' \in [Threads -> LocalSet]
                                                      /\ local'[t].ret = local[t].ret
           /\ \A v \in Int : Set(t, "ret", v) => local' \in [Threads -> LocalSet] /\ local'[t].ret = v
           /\ \A f, v : Set(t, f, v) => \A u \in Threads \ {t} : local'[u] = local[u]
<1>1. local' = local => local' \in [Threads -> LocalSet]
  BY DEF Typed
<1>2. ASSUME NEW v \in BOOLEAN, Set(t, "node", v)
      PROVE  local' \in [Threads -> LocalSet] /\ local'[t].ret = local[t].ret
  BY <1>2 DEF Set, LocalSet, Typed
<1>3. ASSUME NEW v \in Int, Set(t, "ret", v)
      PROVE  local' \in [Threads -> LocalSet] /\ local'[t].ret = v
  BY <1>3 DEF Set, LocalSet, Typed
<1>4. ASSUME NEW f, NEW v, Set(t, f, v), NEW u \in Threads \ {t}
      PROVE  local'[u] = local[u]
  BY <1>4 DEF Set, Typed
<1> QED
  BY <1>1, <1>2, <1>3, <1>4

\* What Goto leaves alone.
LEMMA GotoFacts ==
    ASSUME Typed, NEW t \in Threads, NEW n \in Seq(CallSet), Goto(t, n)
    PROVE  /\ calls' \in [Threads -> Seq(CallSet)] /\ calls'[t] = n
           /\ \A u \in Threads \ {t} : calls'[u] = calls[u]
  BY DEF Goto, Typed

\* Only the hand of the thread that moves changes.
LEMMA MovedHands ==
    ASSUME Inv, NEW t \in Threads, NEW n, NEW r, Moved(t, n, r), Script(n), Several(n, r)
    PROVE  /\ Scripts'
           /\ InHand(t)' = HandOf(n, r)
           /\ \A u \in Threads \ {t} : InHand(u)' = InHand(u)
<1>1. InHand(t)' = HandOf(n, r)
  BY DEF InHand, Moved
<1>2. \A u \in Threads \ {t} : InHand(u)' = InHand(u)
  BY DEF InHand, Moved
<1>3. Script(calls'[t]) /\ Several(calls'[t], local'[t].ret)
  BY DEF Moved
<1>4. \A u \in Threads \ {t} : Script(calls'[u]) /\ Several(calls'[u], local'[u].ret)
  BY DEF Moved, Inv, Scripts
<1>5. Scripts'
  BY <1>3, <1>4 DEF Scripts
<1> QED
  BY <1>1, <1>2, <1>5

\* The types that a step of the trees and the calls leaves alone.
LEMMA LeaveFacts ==
    ASSUME Typed, NEW t \in Threads, NEW nodes \in Nat, NEW cs \in Seq(CallSet), Leave(t, nodes, cs)
    PROVE  /\ owner' \in [Mutexes -> Threads \union {NoThread}]
           /\ \E p \in Seq(CallSet) : /\ p \o cs \in Seq(CallSet) /\ Goto(t, p \o cs)
                                      /\ \A k \in 1 .. Len(p) : Passive(p[k])
<1>1. CASE nodes = 0
  <2>1. Goto(t, cs) /\ owner' = owner
    BY <1>1 DEF Leave
  <2> DEFINE p == << >>
  <2>2. p \in Seq(CallSet) /\ p \o cs = cs /\ Len(p) = 0
    OBVIOUS
  <2> HIDE DEF p
  <2>3. p \o cs \in Seq(CallSet) /\ Goto(t, p \o cs) /\ \A k \in 1 .. Len(p) : Passive(p[k])
    BY <2>1, <2>2
  <2> QED
    BY <2>1, <2>2, <2>3 DEF Typed
<1>2. CASE nodes # 0
  <2> DEFINE q == [k \in 1 .. nodes |-> Do("base_node_dealloc")]
             u == <<Do("unlock_swap")>>
             p == q \o u
  <2>1. Do("base_node_dealloc") \in CallSet /\ Do("unlock_swap") \in CallSet
    BY CallFacts DEF Dos
  <2>2. q \in Seq(CallSet) /\ Len(q) = nodes
    BY <2>1
  <2>3. u \in Seq(CallSet) /\ Len(u) = 1 /\ u[1] = Do("unlock_swap")
    BY <2>1
  <2>4. \A k \in 1 .. nodes : q[k] = Do("base_node_dealloc")
    OBVIOUS
  <2> HIDE DEF q, u
  <2>5. p \in Seq(CallSet) /\ Len(p) = nodes + 1
    <3>1. p \in Seq(CallSet)
      BY <2>2, <2>3
    <3>2. Len(p) = Len(q) + Len(u)
      BY <2>2, <2>3, ConcatProperties
    <3> QED
      BY <2>2, <2>3, <3>1, <3>2
  <2>6. ASSUME NEW k \in 1 .. Len(p)
        PROVE  Passive(p[k])
    <3>1. CASE k <= nodes
      <4>1. p[k] = q[k]
        BY <2>2, <2>3, <2>5, <3>1
      <4> QED
        BY <4>1, <2>4, <3>1 DEF Passive, Do, Call
    <3>2. CASE k = nodes + 1
      <4>1. p[k] = u[1]
        BY <2>2, <2>3, <2>5, <3>2
      <4> QED
        BY <4>1, <2>3 DEF Passive, Do, Call
    <3> QED
      BY <2>5, <3>1, <3>2
  <2>7. Goto(t, p \o cs) /\ owner' = [owner EXCEPT !["swap"] = t]
    BY <1>2 DEF Leave, Hold, q, u
  <2>8. owner' \in [Mutexes -> Threads \union {NoThread}]
    BY <2>7 DEF Typed
  <2> HIDE DEF p
  <2>9. p \o cs \in Seq(CallSet)
    BY <2>5
  <2> QED
    BY <2>5, <2>6, <2>7, <2>8, <2>9
<1> QED
  BY <1>1, <1>2

\* What the invariant says of the extents.
LEMMA ExtentFacts ==
    ASSUME Inv
    PROVE  /\ \A f \in free : Piece("free", NoThread, f) \in Pieces /\ f \in Ext /\ End(f) <= swap_end
           /\ \A f \in huge : Piece("huge", NoThread, f) \in Pieces /\ f \in Ext /\ End(f) <= swap_end
           /\ \A t \in Threads : \A e \in InHand(t) : /\ Piece("hand", t, e) \in Pieces
                                                      /\ e \in Ext /\ End(e) <= swap_end
           /\ \A f, g \in free : f # g => Apart(f, g)
           /\ \A t \in Threads : \A e \in InHand(t), f \in free : Apart(e, f)
           /\ swap_end \in Nat
<1>1. /\ \A f \in free : Piece("free", NoThread, f) \in Pieces
      /\ \A f \in huge : Piece("huge", NoThread, f) \in Pieces
      /\ \A t \in Threads : \A e \in InHand(t) : Piece("hand", t, e) \in Pieces
  BY PiecesAre
<1>2. \A p \in Pieces : p.extent \in Ext /\ End(p.extent) <= swap_end
  BY DEF Inv, Divided, Separate, Within
<1>3. \A p, q \in Pieces : p # q => Apart(p.extent, q.extent)
  BY DEF Inv, Divided, Separate
<1>4. ASSUME NEW f \in free, NEW g \in free, f # g
      PROVE  Apart(f, g)
  BY <1>1, <1>3, <1>4, PieceFacts
<1>5. ASSUME NEW t \in Threads, NEW e \in InHand(t), NEW f \in free
      PROVE  Apart(e, f)
  BY <1>1, <1>3, PieceFacts
<1>6. swap_end \in Nat
  BY ChunksAssumption DEF Inv, Typed
<1> QED
  BY <1>1, <1>2, <1>4, <1>5, <1>6, PieceFacts

----------------------------------------------------------------------------
(* An extent is joined with its neighbours.  *)

\* An element that none is below, or above, is the least, or greatest.
LEMMA LeastIs ==
    ASSUME NEW S, S \subseteq Int, NEW x \in S
    PROVE  /\ (\A y \in S : x <= y) => Min(S) = x
           /\ (\A y \in S : y <= x) => Max(S) = x
<1>1. ASSUME \A y \in S : x <= y
      PROVE  Min(S) = x
  <2>1. Min(S) \in S /\ \A y \in S : Min(S) <= y
    BY <1>1 DEF Min
  <2>2. PICK m : m = Min(S)
    OBVIOUS
  <2>3. m \in Int /\ x \in Int /\ m <= x /\ x <= m
    BY <1>1, <2>1, <2>2
  <2> QED
    BY <2>2, <2>3
<1>2. ASSUME \A y \in S : y <= x
      PROVE  Max(S) = x
  <2>1. \A y \in S : x >= y
    BY <1>2
  <2>2. Max(S) \in S /\ \A y \in S : Max(S) >= y
    BY <2>1 DEF Max
  <2>3. PICK m : m = Max(S)
    OBVIOUS
  <2>4. m \in Int /\ x \in Int /\ m <= x /\ x <= m
    BY <1>2, <2>2, <2>3
  <2> QED
    BY <2>3, <2>4
<1> QED
  BY <1>1, <1>2

FirstOf(parts) == Min({o.addr : o \in parts})
LastOf(parts)  == Max({o.addr + o.size : o \in parts})

\* The neighbours of e, and the extent they make with it.
LEMMA NeighboursAre ==
    ASSUME free \subseteq Ext, \A f, g \in free : f # g => Apart(f, g),
           NEW e \in Ext, \A f \in free : Apart(e, f),
           NEW parts, parts = Neighbours(e) \union {e},
           NEW first, first = FirstOf(parts), NEW last, last = LastOf(parts)
    PROVE  /\ \/ Before(e) = {} /\ first = e.addr
              \/ \E b \in free : Before(e) = {b} /\ End(b) = e.addr /\ first = b.addr
           /\ \/ After(e) = {} /\ last = End(e)
              \/ \E a \in free : After(e) = {a} /\ a.addr = End(e) /\ last = End(a)
           /\ Cardinality(Neighbours(e)) \in Nat
           /\ After(e) # {} => Cardinality(Neighbours(e)) > 0
<1>1. Before(e) = {} \/ \E b \in free : Before(e) = {b} /\ End(b) = e.addr
  <2>1. \A b, c \in Before(e) : b = c
    BY DEF Before, Apart, End, Ext
  <2> QED
    BY <2>1 DEF Before, End
<1>2. After(e) = {} \/ \E a \in free : After(e) = {a} /\ a.addr = End(e)
  <2>1. \A b, c \in After(e) : b = c
    BY DEF After, Apart, End, Ext
  <2> QED
    BY <2>1 DEF After, End
<1>3. /\ \A b \in Before(e) : b \in Ext /\ b.addr < e.addr /\ End(b) = e.addr
      /\ \A a \in After(e) : a \in Ext /\ a.addr = End(e) /\ End(a) > End(e)
      /\ End(e) \in Nat /\ e.addr \in Nat /\ e.addr < End(e)
  BY DEF Before, After, End, Ext
<1>4. parts = Before(e) \union After(e) \union {e}
  BY DEF Neighbours
<1> DEFINE Addrs == {o.addr : o \in parts}
           Ends  == {o.addr + o.size : o \in parts}
<1>5. /\ \A o \in parts : o \in Ext /\ o.addr \in Addrs /\ End(o) \in Ends
      /\ \A x \in Addrs : \E o \in parts : x = o.addr
      /\ \A x \in Ends : \E o \in parts : x = End(o)
  BY <1>3, <1>4 DEF End
<1>6. Addrs \subseteq Int /\ Ends \subseteq Int
  <2>1. \A o \in Ext : o.addr \in Int /\ End(o) \in Int
    BY DEF Ext, End
  <2> QED
    BY <1>5, <2>1
<1> HIDE DEF Addrs, Ends
<1>7. \/ Before(e) = {} /\ first = e.addr
      \/ \E b \in free : Before(e) = {b} /\ End(b) = e.addr /\ first = b.addr
  <2>1. CASE Before(e) = {}
    <3>1. \A x \in Addrs : e.addr <= x
      BY <2>1, <1>3, <1>4, <1>5
    <3>2. e.addr \in Addrs
      BY <1>4, <1>5
    <3>3. Min(Addrs) = e.addr
      BY <1>6, <3>1, <3>2, LeastIs
    <3> QED
      BY <2>1, <3>3 DEF Addrs, FirstOf
  <2>2. ASSUME NEW b \in free, Before(e) = {b}, End(b) = e.addr
        PROVE  first = b.addr
    <3>1. \A o \in parts : b.addr <= o.addr
      <4>1. b \in Ext /\ b.addr < e.addr
        BY <2>2, <1>3
      <4> QED
        BY <2>2, <1>3, <1>4, <4>1 DEF Ext
    <3>2. b.addr \in Addrs
      BY <2>2, <1>4, <1>5
    <3>3. \A x \in Addrs : b.addr <= x
      BY <1>5, <3>1
    <3>4. Min(Addrs) = b.addr
      BY <1>6, <3>2, <3>3, LeastIs
    <3> QED
      BY <3>4 DEF Addrs, FirstOf
  <2> QED
    BY <1>1, <2>1, <2>2
<1>8. \/ After(e) = {} /\ last = End(e)
      \/ \E a \in free : After(e) = {a} /\ a.addr = End(e) /\ last = End(a)
  <2>1. CASE After(e) = {}
    <3>1. \A x \in Ends : x <= End(e)
      BY <2>1, <1>3, <1>4, <1>5
    <3>2. End(e) \in Ends
      BY <1>4, <1>5
    <3>3. Max(Ends) = End(e)
      BY <1>6, <3>1, <3>2, LeastIs
    <3> QED
      BY <2>1, <3>3 DEF Ends, LastOf
  <2>2. ASSUME NEW a \in free, After(e) = {a}, a.addr = End(e)
        PROVE  last = End(a)
    <3>1. \A o \in parts : End(o) <= End(a)
      <4>1. a \in Ext /\ End(a) > End(e) /\ End(a) \in Nat
        BY <2>2, <1>3 DEF End, Ext
      <4> QED
        BY <2>2, <1>3, <1>4, <4>1
    <3>2. End(a) \in Ends
      BY <2>2, <1>4, <1>5
    <3>3. \A x \in Ends : x <= End(a)
      BY <1>5, <3>1
    <3>4. Max(Ends) = End(a)
      BY <1>6, <3>2, <3>3, LeastIs
    <3> QED
      BY <3>4 DEF Ends, LastOf
  <2> QED
    BY <1>2, <2>1, <2>2
<1>9. IsFiniteSet(Neighbours(e))
  <2>1. IsFiniteSet(Before(e))
    <3>1. CASE Before(e) = {}
      BY <3>1, FS_EmptySet
    <3>2. CASE \E b : Before(e) = {b}
      BY <3>2, FS_Singleton
    <3> QED
      BY <1>1, <3>1, <3>2
  <2>2. IsFiniteSet(After(e))
    <3>1. CASE After(e) = {}
      BY <3>1, FS_EmptySet
    <3>2. CASE \E a : After(e) = {a}
      BY <3>2, FS_Singleton
    <3> QED
      BY <1>2, <3>1, <3>2
  <2> QED
    BY <2>1, <2>2, FS_Union DEF Neighbours
<1>10. Cardinality(Neighbours(e)) \in Nat
  BY <1>9, FS_CardinalityType
<1>11. After(e) # {} => Cardinality(Neighbours(e)) # 0
  BY <1>9, FS_EmptySet DEF Neighbours
<1>12. After(e) # {} => Cardinality(Neighbours(e)) > 0
  <2> DEFINE c == Cardinality(Neighbours(e))
  <2>1. c \in Nat /\ (After(e) # {} => c # 0)
    BY <1>10, <1>11
  <2> HIDE DEF c
  <2>2. After(e) # {} => c > 0
    BY <2>1
  <2> QED
    BY <2>2 DEF c
<1> QED
  BY <1>7, <1>8, <1>10, <1>12

\* e, in the hand of t, and its neighbours, from first to last.
Touching(e, parts, first, last) ==
    parts = Neighbours(e) \union {e} /\ first = FirstOf(parts) /\ last = LastOf(parts)
Union(t, e, P, w, first, last) ==
    /\ w.extent = Extent(first, last - first)
    /\ P = PieceSet("free", NoThread, Neighbours(e)) \union PieceSet("hand", t, {e})

\* An extent and its neighbours become one that overlaps no other piece.
LEMMA NeighboursJoined ==
    ASSUME Inv, NEW t \in Threads, NEW e \in InHand(t),
           NEW parts, NEW first, NEW last, Touching(e, parts, first, last),
           NEW w, NEW P, Union(t, e, P, w, first, last)
    PROVE  /\ Merge(Pieces, P, w, swap_end)
           /\ first \in Nat /\ last \in Nat /\ first < last /\ last <= swap_end
           /\ w.extent.addr = first /\ End(w.extent) = last
<1>0. /\ parts = Neighbours(e) \union {e} /\ first = FirstOf(parts) /\ last = LastOf(parts)
      /\ w.extent = Extent(first, last - first)
      /\ P = PieceSet("free", NoThread, Neighbours(e)) \union PieceSet("hand", t, {e})
  BY DEF Touching, Union
<1>1. /\ free \subseteq Ext /\ \A f, g \in free : f # g => Apart(f, g)
      /\ e \in Ext /\ End(e) <= swap_end /\ \A f \in free : Apart(e, f) /\ End(f) <= swap_end
      /\ Piece("hand", t, e) \in Pieces /\ \A f \in free : Piece("free", NoThread, f) \in Pieces
      /\ swap_end \in Nat
  BY ExtentFacts
<1>2. /\ \/ Before(e) = {} /\ first = e.addr
         \/ \E b \in free : Before(e) = {b} /\ End(b) = e.addr /\ first = b.addr
      /\ \/ After(e) = {} /\ last = End(e)
         \/ \E a \in free : After(e) = {a} /\ a.addr = End(e) /\ last = End(a)
  BY <1>0, <1>1, NeighboursAre
<1>3. /\ first \in Nat /\ first <= e.addr /\ last \in Nat /\ End(e) <= last /\ last <= swap_end
      /\ e.addr \in Nat /\ End(e) \in Nat /\ e.addr < End(e)
  <2>1. e.addr \in Nat /\ End(e) \in Nat /\ e.addr < End(e)
    BY <1>1 DEF Ext, End
  <2>2. ASSUME NEW b \in free, End(b) = e.addr
        PROVE  b.addr \in Nat /\ b.addr <= e.addr
    BY <1>1, <2>2 DEF Ext, End
  <2>3. first \in Nat /\ first <= e.addr
    <3>1. CASE first = e.addr
      BY <2>1, <3>1
    <3>2. CASE \E b \in free : End(b) = e.addr /\ first = b.addr
      BY <2>2, <3>2
    <3> QED
      BY <1>2, <3>1, <3>2
  <2>4. ASSUME NEW a \in free, a.addr = End(e)
        PROVE  End(a) \in Nat /\ End(e) <= End(a) /\ End(a) <= swap_end
    BY <1>1, <2>4 DEF Ext, End
  <2>5. last \in Nat /\ End(e) <= last /\ last <= swap_end
    <3>1. CASE last = End(e)
      BY <1>1, <2>1, <3>1
    <3>2. CASE \E a \in free : a.addr = End(e) /\ last = End(a)
      BY <2>4, <3>2
    <3> QED
      BY <1>2, <3>1, <3>2
  <2> QED
    BY <2>1, <2>3, <2>5
<1>4. w.extent \in Ext /\ w.extent.addr = first /\ End(w.extent) = last
  BY <1>0, <1>3 DEF Extent, Ext, End
<1>5. Neighbours(e) \subseteq free /\ P \in SUBSET Pieces
  BY <1>0, <1>1 DEF Neighbours, Before, After, PieceSet
<1>6. /\ \A o \in Pieces : o.extent \in Ext
      /\ \A o, q \in Pieces : o # q => Apart(o.extent, q.extent)
  BY DEF Inv, Divided, Separate, Within
<1>7. /\ Piece("hand", t, e) \in P
      /\ \A f \in Neighbours(e) : Piece("free", NoThread, f) \in P
  BY <1>0 DEF PieceSet
<1>8. ASSUME NEW o \in Pieces \ P
      PROVE  Apart(o.extent, w.extent)
  <2>1. Apart(o.extent, e) /\ o.extent \in Ext
    BY <1>1, <1>6, <1>7, PieceFacts
  <2>2. ASSUME NEW f \in Neighbours(e)
        PROVE  Apart(o.extent, f)
    <3>1. Piece("free", NoThread, f) \in P /\ Piece("free", NoThread, f) \in Pieces
      BY <1>1, <1>5, <1>7
    <3>2. Apart(o.extent, Piece("free", NoThread, f).extent)
      BY <1>6, <3>1
    <3> QED
      BY <3>2, PieceFacts
  <2>3. End(o.extent) <= first \/ e.addr < End(o.extent)
    <3>1. CASE Before(e) = {} /\ first = e.addr
      BY <2>1, <1>3, <3>1 DEF Ext, End
    <3>2. ASSUME NEW b \in free, Before(e) = {b}, End(b) = e.addr, first = b.addr
          PROVE  End(o.extent) <= first \/ e.addr < End(o.extent)
      <4>1. Apart(o.extent, b)
        BY <2>2, <3>2 DEF Neighbours
      <4> QED
        BY <1>3, <2>1, <3>2, <4>1 DEF Apart, Ext, End
    <3> QED
      BY <1>2, <3>1, <3>2
  <2>4. last <= o.extent.addr \/ o.extent.addr < End(e)
    <3>1. CASE After(e) = {} /\ last = End(e)
      BY <2>1, <1>3, <3>1 DEF Ext, End
    <3>2. ASSUME NEW a \in free, After(e) = {a}, a.addr = End(e), last = End(a)
          PROVE  last <= o.extent.addr \/ o.extent.addr < End(e)
      <4>1. Apart(o.extent, a)
        BY <2>2, <3>2 DEF Neighbours
      <4> QED
        BY <1>1, <1>3, <2>1, <3>2, <4>1 DEF Apart, Ext, End
    <3> QED
      BY <1>2, <3>1, <3>2
  <2> QED
    BY <1>3, <1>4, <2>1, <2>3, <2>4 DEF Apart, Ext, End
<1>9. ASSUME NEW p \in P
      PROVE  ChunksOf(p.extent) \subseteq ChunksOf(w.extent)
  <2>1. p.extent \in Neighbours(e) \union {e}
    BY <1>0, PieceFacts DEF PieceSet
  <2>2. p.extent \in Ext /\ first <= p.extent.addr /\ End(p.extent) <= last
    <3>1. CASE p.extent = e
      BY <1>1, <1>3, <3>1
    <3>2. ASSUME NEW b \in free, Before(e) = {b}, End(b) = e.addr, first = b.addr, p.extent = b
          PROVE  p.extent \in Ext /\ first <= p.extent.addr /\ End(p.extent) <= last
      BY <1>1, <1>3, <3>2
    <3>3. ASSUME NEW a \in free, After(e) = {a}, a.addr = End(e), last = End(a), p.extent = a
          PROVE  p.extent \in Ext /\ first <= p.extent.addr /\ End(p.extent) <= last
      BY <1>1, <1>3, <3>3
    <3>4. CASE p.extent \in Before(e)
      BY <1>2, <3>2, <3>4
    <3>5. CASE p.extent \in After(e)
      BY <1>2, <3>3, <3>5
    <3> QED
      BY <2>1, <3>1, <3>4, <3>5 DEF Neighbours
  <2>3. /\ p.extent.addr \in Nat /\ p.extent.size \in Nat /\ w.extent.size \in Nat
        /\ first <= p.extent.addr /\ p.extent.addr + p.extent.size <= last
        /\ w.extent.addr = first /\ w.extent.addr + w.extent.size = last
    BY <1>4, <2>2 DEF End, Ext
  <2> QED
    BY <1>3, <2>3 DEF ChunksOf
<1>10. Divided(Pieces, swap_end)
  BY DEF Inv
<1>11. End(w.extent) <= swap_end
  BY <1>3, <1>4
<1>12. Merge(Pieces, P, w, swap_end)
  <2>1. \A o \in Pieces \ P : Apart(o.extent, w.extent)
    BY <1>8
  <2>2. \A p \in P : ChunksOf(p.extent) \subseteq ChunksOf(w.extent)
    BY <1>9
  <2>3. swap_end \in Nat /\ w.extent \in Ext /\ P \in SUBSET Pieces
    BY <1>1, <1>4, <1>5
  <2> QED
    BY <1>11, <2>1, <2>2, <2>3 DEF Merge
<1> QED
  BY <1>3, <1>4, <1>12

\* Thread t makes a call for the extent e; then it is to make n.
CallFor(t, e) ==
    /\ calls[t] # << >> /\ Named(Head(calls[t]))
    /\ e = Extent(Head(calls[t]).addr, Head(calls[t]).size)
Pushed(n, p, t) == n = p \o Tail(calls[t])

\* What is left of the calls when the first one, for an extent, is done.
LEMMA NamedDone ==
    ASSUME Inv, NEW t \in Threads, NEW e, CallFor(t, e),
           NEW p \in Seq(CallSet), \A k \in 1 .. Len(p) : Passive(p[k]),
           NEW n, Pushed(n, p, t), NEW r
    PROVE  /\ e \in InHand(t) /\ n \in Seq(CallSet) /\ Script(n) /\ Several(n, r)
           /\ HandOf(n, r) = InHand(t) \ {e}
<1> DEFINE s == calls[t]
           ret == local[t].ret
<1>0. /\ s # << >> /\ Named(Head(s)) /\ e = Extent(Head(s).addr, Head(s).size)
      /\ n = p \o Tail(s)
  BY DEF CallFor, Pushed
<1>1. s \in Seq(CallSet) /\ Script(s) /\ Several(s, ret)
  BY DEF Inv, Typed, Scripts
<1>2. /\ Replaced(Tail(s), 0, s, 1) /\ Tail(s) \in Seq(CallSet) /\ Head(s) = s[1]
      /\ Len(s) \in Nat \ {0} /\ Len(Tail(s)) = Len(s) - 1
      /\ \A k \in 1 .. Len(s) - 1 : Tail(s)[k] = s[k + 1]
  BY <1>0, <1>1, TailReplaced
<1>3. /\ Replaced(n, Len(p), s, 1) /\ n \in Seq(CallSet)
      /\ Len(n) = Len(p) + Len(Tail(s)) /\ Len(p) \in Nat
      /\ \A k \in 1 .. Len(p) : n[k] = p[k]
      /\ \A k \in 1 .. Len(Tail(s)) : n[Len(p) + k] = Tail(s)[k]
  <2> DEFINE u == Tail(s)
  <2>1. u \in Seq(CallSet) /\ Replaced(u, 0, s, 1) /\ Len(s) \in Nat /\ n = p \o u /\ Len(p) \in Nat
    BY <1>0, <1>2
  <2> HIDE DEF u
  <2>2. /\ Replaced(p \o u, Len(p), s, 1) /\ p \o u \in Seq(CallSet)
        /\ Len(p \o u) = Len(p) + Len(u)
        /\ \A k \in 1 .. Len(p) : (p \o u)[k] = p[k]
        /\ \A k \in 1 .. Len(u) : (p \o u)[Len(p) + k] = u[k]
    BY <2>1, PushReplaced
  <2> QED
    BY <2>1, <2>2 DEF u
<1>4. /\ 1 \in Claims(s, ret) /\ Claim(s, ret, 1) = e /\ Named(s[1])
      /\ \A j \in 2 .. Len(s) : ~User(s[j])
  <2>1. Named(s[1]) /\ 1 \in 1 .. Len(s)
    BY <1>0, <1>2
  <2>2. Follows(s, 1)
    BY <1>1, <2>1 DEF Script
  <2> QED
    BY <1>0, <1>2, <2>1, <2>2 DEF Follows, Closing, Claims, Claim
<1> HIDE DEF s, ret
<1>5. e \in HandOf(s, ret)
  BY <1>4 DEF HandOf
<1>6. \A c : (Passive(c) => ~Named(c) /\ ~User(c)) /\ (Named(c) => ~User(c))
  BY DEF Passive, Named, User
<1>7. ASSUME NEW k \in 1 .. Len(n)
      PROVE  ~User(n[k])
  <2>1. CASE k <= Len(p)
    BY <1>3, <1>6, <2>1
  <2>2. CASE k > Len(p)
    <3>1. k - Len(p) \in 1 .. Len(Tail(s)) /\ Len(p) + (k - Len(p)) = k
      BY <1>3, <1>2, <2>2
    <3>2. n[k] = Tail(s)[k - Len(p)]
      BY <1>3, <3>1
    <3>3. n[k] = s[k - Len(p) + 1]
      BY <1>2, <3>1, <3>2
    <3>4. k - Len(p) + 1 \in 2 .. Len(s)
      BY <1>2, <1>3, <3>1
    <3> QED
      BY <1>4, <3>3, <3>4
  <2> QED
    BY <1>3, <2>1, <2>2
<1>8. Cold(n, r)
  BY <1>3, <1>7, ColdFacts
<1>9. ColdAfter(s, ret, 1)
  <2>1. \A k \in 1 .. Len(s) : ~User(s[k])
    BY <1>2, <1>4, <1>6
  <2> QED
    BY <1>1, <2>1, ColdFacts DEF Cold, ColdAfter
<1>10. \A k \in 1 .. Len(p) : ~Named(n[k]) /\ Follows(n, k)
  BY <1>3, <1>6 DEF Passive, Follows, Named, User, Closing
<1>11. Script(n)
  BY <1>1, <1>3, <1>10, ScriptReplaced
<1>12. /\ HandOf(n, r) = HandOf(s, ret) \ {Claim(s, ret, k) : k \in {j \in Claims(s, ret) : j <= 1}}
       /\ Several(n, r)
  BY <1>1, <1>3, <1>8, <1>9, <1>10, ColdHand
<1>13. {Claim(s, ret, k) : k \in {j \in Claims(s, ret) : j <= 1}} = {e}
  <2>1. {j \in Claims(s, ret) : j <= 1} = {1}
    BY <1>4 DEF Claims
  <2> QED
    BY <1>4, <2>1
<1>14. InHand(t) = HandOf(s, ret)
  BY DEF InHand, s, ret
<1> QED
  BY <1>3, <1>5, <1>11, <1>12, <1>13, <1>14

\* After the join no free extents touch.
LEMMA NoneTouch ==
    ASSUME Inv, NEW t \in Threads, NEW e \in InHand(t),
           NEW parts, NEW first, NEW last, Touching(e, parts, first, last)
    PROVE  /\ \A x, y \in free \ parts : y.addr # End(x)
           /\ \A x \in free \ parts : End(x) # first /\ x.addr # last
           /\ \A x \in free : End(x) = swap_end => nodeless
           /\ e \notin free
<1>0. parts = Neighbours(e) \union {e} /\ first = FirstOf(parts) /\ last = LastOf(parts)
  BY DEF Touching
<1>1. /\ free \subseteq Ext /\ \A f, g \in free : f # g => Apart(f, g)
      /\ e \in Ext /\ \A f \in free : Apart(e, f)
  BY ExtentFacts
<1>2. /\ \/ Before(e) = {} /\ first = e.addr
         \/ \E b \in free : Before(e) = {b} /\ End(b) = e.addr /\ first = b.addr
      /\ \/ After(e) = {} /\ last = End(e)
         \/ \E a \in free : After(e) = {a} /\ a.addr = End(e) /\ last = End(a)
  BY <1>0, <1>1, NeighboursAre
<1>3. \A x, y \in free : y.addr # End(x)
  BY DEF Inv, Joined, After, End
<1>4. \A x \in free : End(x) = swap_end => nodeless
  BY DEF Inv, Joined, End
<1>5. ASSUME NEW x \in free \ parts
      PROVE  End(x) # e.addr /\ x.addr # End(e)
  BY <1>0, <1>5 DEF Neighbours, Before, After, End
<1>6. ASSUME NEW x \in free \ parts
      PROVE  End(x) # first
  BY <1>2, <1>3, <1>5
<1>7. ASSUME NEW x \in free \ parts
      PROVE  x.addr # last
  BY <1>2, <1>3, <1>5
<1>8. e \notin free
  BY <1>1 DEF Apart, End, Ext
<1> QED
  BY <1>3, <1>4, <1>6, <1>7, <1>8

\* The calls of Recorded: the nodes it has to spare are given back.
LEMMA RecordedCalls ==
    ASSUME Inv, NEW t \in Threads, NEW e, CallFor(t, e),
           NEW nodes \in Nat, Leave(t, nodes, Rest(t)), UNCHANGED local
    PROVE  /\ owner' \in [Mutexes -> Threads \union {NoThread}]
           /\ calls' \in [Threads -> Seq(CallSet)] /\ local' \in [Threads -> LocalSet]
           /\ Scripts' /\ e \in InHand(t) /\ InHand(t)' = InHand(t) \ {e}
           /\ \A u \in Threads \ {t} : InHand(u)' = InHand(u)
<1>1. Typed /\ calls[t] \in Seq(CallSet)
  BY DEF Inv, Typed
<1>2. Rest(t) \in Seq(CallSet) /\ Rest(t) = Tail(calls[t])
  BY <1>1, TailReplaced DEF Rest, CallFor
<1>3. owner' \in [Mutexes -> Threads \union {NoThread}]
  BY <1>1, <1>2, LeaveFacts
<1>4. PICK p \in Seq(CallSet) : /\ p \o Rest(t) \in Seq(CallSet) /\ Goto(t, p \o Rest(t))
                                /\ \A k \in 1 .. Len(p) : Passive(p[k])
  BY <1>1, <1>2, LeaveFacts
<1>5. PICK n : n = p \o Tail(calls[t]) /\ Pushed(n, p, t)
  BY DEF Pushed
<1>6. PICK r : r = local[t].ret
  OBVIOUS
<1>7. /\ e \in InHand(t) /\ Script(n) /\ Several(n, r)
      /\ HandOf(n, r) = InHand(t) \ {e}
  <2>1. Pushed(n, p, t)
    BY <1>5
  <2> QED
    BY <1>4, <2>1, NamedDone
<1>8. /\ calls' \in [Threads -> Seq(CallSet)] /\ calls'[t] = n
      /\ \A u \in Threads \ {t} : calls'[u] = calls[u]
  BY <1>1, <1>2, <1>4, <1>5, GotoFacts
<1>9. Moved(t, n, r) /\ local' \in [Threads -> LocalSet]
  BY <1>1, <1>6, <1>8 DEF Moved, Typed
<1>10. /\ Scripts' /\ InHand(t)' = HandOf(n, r)
       /\ \A u \in Threads \ {t} : InHand(u)' = InHand(u)
  BY <1>7, <1>9, MovedHands
<1> QED
  BY <1>3, <1>7, <1>8, <1>9, <1>10

\* chunk_dealloc_swap joins the extent with its neighbours (chunk_swap.c:108-193).
LEMMA RecordedStep ==
    ASSUME Inv, NEW t \in Threads, NEW e, CallFor(t, e),
           NEW nodes \in {0, 1}, nodes = 0 => After(e) # {},
           Recorded(t, e, nodes, Rest(t)),
           UNCHANGED <<huge, base_chunks, leaked, nodeless, local>>
    PROVE  /\ owner' \in [Mutexes -> Threads \union {NoThread}]
           /\ calls' \in [Threads -> Seq(CallSet)] /\ local' \in [Threads -> LocalSet]
           /\ swap_end' \in 0 .. SwapMax
           /\ Scripts' /\ Divided(Pieces', swap_end') /\ Joined'
<1>1. PICK parts, first, last : Touching(e, parts, first, last)
  BY DEF Touching
<1>2. parts = Neighbours(e) \union {e} /\ first = FirstOf(parts) /\ last = LastOf(parts)
  BY <1>1 DEF Touching
<1>4. PICK whole : whole = Extent(first, last - first)
  OBVIOUS
<1>5. PICK spare : spare = nodes + Cardinality(Neighbours(e))
  OBVIOUS
<1>6. \/ /\ whole.addr + whole.size = swap_end
         /\ swap_end' = whole.addr /\ free' = free \ parts /\ Leave(t, spare, Rest(t))
      \/ /\ whole.addr + whole.size # swap_end
         /\ swap_end' = swap_end /\ free' = (free \ parts) \union {whole}
         /\ Leave(t, spare - 1, Rest(t))
  BY <1>2, <1>4, <1>5 DEF Recorded, NewEnd, FirstOf, LastOf
<1>7. e \in InHand(t)
  <2> DEFINE p == << >>
  <2>1. p \in Seq(CallSet) /\ \A k \in 1 .. Len(p) : Passive(p[k])
    OBVIOUS
  <2> HIDE DEF p
  <2>2. PICK n : Pushed(n, p, t)
    BY DEF Pushed
  <2> QED
    BY <2>1, <2>2, NamedDone
<1>8. spare \in Nat /\ spare - 1 \in Nat
  <2>1. /\ Cardinality(Neighbours(e)) \in Nat
        /\ After(e) # {} => Cardinality(Neighbours(e)) > 0
    <3>1. /\ free \subseteq Ext /\ \A f, g \in free : f # g => Apart(f, g)
          /\ e \in Ext /\ \A f \in free : Apart(e, f)
      BY <1>7, ExtentFacts
    <3> QED
      BY <1>2, <3>1, NeighboursAre
  <2> QED
    BY <1>5, <2>1
<1>9. /\ owner' \in [Mutexes -> Threads \union {NoThread}]
      /\ calls' \in [Threads -> Seq(CallSet)] /\ local' \in [Threads -> LocalSet]
      /\ Scripts' /\ InHand(t)' = InHand(t) \ {e}
      /\ \A u \in Threads \ {t} : InHand(u)' = InHand(u)
  <2>1. CASE Leave(t, spare, Rest(t))
    BY <1>8, <2>1, RecordedCalls
  <2>2. CASE Leave(t, spare - 1, Rest(t))
    BY <1>8, <2>2, RecordedCalls
  <2> QED
    BY <1>6, <2>1, <2>2
<1>10. PICK w : w = Piece("free", NoThread, whole)
  OBVIOUS
<1>11. PICK P : Union(t, e, P, w, first, last)
  <2>1. w.extent = Extent(first, last - first)
    BY <1>4, <1>10, PieceFacts
  <2> QED
    BY <2>1 DEF Union
<1>12. w.extent = whole /\ P = Gone(t, Neighbours(e), {}, {e})
  BY <1>4, <1>11 DEF Union, Gone, PieceSet
<1>13. /\ Merge(Pieces, P, w, swap_end)
       /\ first \in Nat /\ last \in Nat /\ first < last /\ last <= swap_end
       /\ whole.addr = first /\ End(whole) = last
  <2>1. w.extent = whole
    BY <1>12
  <2> QED
    BY <1>1, <1>7, <1>11, <2>1, NeighboursJoined
<1>14. swap_end \in Nat /\ Divided(Pieces, swap_end)
  BY ExtentFacts DEF Inv
<1>15. Divided((Pieces \ P) \union {w}, swap_end) /\ w \notin Pieces \ P
  BY <1>13, <1>14, MergePieces
<1>16. /\ \A x, y \in free \ parts : y.addr # End(x)
       /\ \A x \in free \ parts : End(x) # first /\ x.addr # last
       /\ \A x \in free : End(x) = swap_end => nodeless
       /\ e \notin free
  BY <1>1, <1>7, NoneTouch
<1>17. free \ parts = free \ Neighbours(e)
  BY <1>2, <1>16
<1>18. swap_end \in 0 .. SwapMax /\ SwapMax \in Nat
  BY ChunksAssumption DEF Inv, Typed
<1>19. CASE End(whole) = swap_end
  <2>1. swap_end' = first /\ free' = free \ parts
    BY <1>6, <1>13, <1>19 DEF End
  <2>2. Pieces' = Pieces \ P
    <3>1. Change(t, Neighbours(e), {}, {}, {}, {}, {}, {e}, {})
      BY <1>9, <1>17, <2>1 DEF Change
    <3>2. Come(t, {}, {}, {}, {}, {}) = {}
      BY DEF Come, Gone, PieceSet, Single
    <3> QED
      BY <1>12, <3>1, <3>2, PiecesChange
  <2>3. Divided(Pieces', swap_end')
    <3>1. PICK T : T = (Pieces \ P) \union {w}
      OBVIOUS
    <3>2. Divided(T \ {w}, first)
      BY <1>12, <1>13, <1>14, <1>15, <1>19, <3>1, DropPiece
    <3>3. T \ {w} = Pieces'
      BY <1>15, <2>2, <3>1
    <3> QED
      BY <2>1, <3>2, <3>3
  <2>4. Joined'
    <3>1. \A x \in free' : x \in free \ parts
      BY <2>1
    <3> QED
      BY <1>16, <2>1, <3>1 DEF Joined, After, End
  <2> QED
    BY <1>9, <1>13, <1>18, <2>1, <2>3, <2>4
<1>20. CASE End(whole) # swap_end
  <2>1. swap_end' = swap_end /\ free' = (free \ parts) \union {whole}
    BY <1>6, <1>20 DEF End
  <2>2. Pieces' = (Pieces \ P) \union {w}
    <3>1. Change(t, Neighbours(e), {whole}, {}, {}, {}, {}, {e}, {})
      BY <1>9, <1>17, <2>1 DEF Change
    <3>2. Come(t, {whole}, {}, {}, {}, {}) = {w}
      BY <1>10 DEF Come, Gone, PieceSet, Single
    <3> QED
      BY <1>12, <3>1, <3>2, PiecesChange
  <2>3. Divided(Pieces', swap_end')
    BY <1>15, <2>1, <2>2
  <2>4. Joined'
    <3>1. ASSUME NEW x \in free', NEW y \in free'
          PROVE  y.addr # End(x)
      <4>1. CASE x = whole /\ y = whole
        BY <1>13, <4>1
      <4>2. CASE x = whole /\ y \in free \ parts
        BY <1>13, <1>16, <4>2
      <4>3. CASE x \in free \ parts /\ y = whole
        BY <1>13, <1>16, <4>3
      <4>4. CASE x \in free \ parts /\ y \in free \ parts
        BY <1>16, <4>4
      <4> QED
        BY <2>1, <4>1, <4>2, <4>3, <4>4
    <3>2. ASSUME NEW x \in free', End(x) = swap_end'
          PROVE  nodeless'
      BY <1>16, <1>20, <2>1, <3>2
    <3> QED
      BY <3>1, <3>2 DEF Joined, After, End
  <2> QED
    BY <1>9, <1>18, <2>1, <2>3, <2>4
<1> QED
  BY <1>19, <1>20

----------------------------------------------------------------------------
(* Steps that give no chunks to another owner.  *)

\* The types that do not depend on the chunks.
OtherTypes ==
    /\ base_nodes \in Nat /\ base_left \in 0 .. NodesPerChunk
    /\ owner \in [Mutexes -> Threads \union {NoThread}]
    /\ dirty \subseteq 0 .. SwapMax - 1
    /\ ops \in 0 .. MaxOps

\* A step that changes the calls of a thread, but not what it has, preserves the invariant.
LEMMA QuietStep ==
    ASSUME Inv, NEW t \in Threads, NEW n, NEW r, Moved(t, n, r), Script(n), Several(n, r),
           HandOf(n, r) = InHand(t), OtherTypes',
           UNCHANGED <<swap_end, free, huge, base_chunks, leaked, nodeless>>
    PROVE  Inv'
<1>1. /\ Scripts' /\ InHand(t)' = InHand(t)
      /\ \A u \in Threads \ {t} : InHand(u)' = InHand(u)
  BY MovedHands
<1>2. Pieces' = Pieces
  <2>1. Change(t, {}, {}, {}, {}, {}, {}, {}, {})
    BY <1>1 DEF Change
  <2>2. Come(t, {}, {}, {}, {}, {}) = {} /\ Gone(t, {}, {}, {}) = {}
    BY DEF Come, Gone, PieceSet, Single
  <2>3. Pieces' = (Pieces \ {}) \union {}
    BY <2>1, <2>2, PiecesChange
  <2> QED
    BY <2>3
<1>3. Divided(Pieces', swap_end')
  BY <1>2 DEF Inv
<1>4. Joined'
  BY DEF Inv, Joined, After
<1>5. Typed'
  BY DEF Inv, Typed, OtherTypes, Moved
<1> QED
  BY <1>1, <1>3, <1>4, <1>5 DEF Inv

\* The first call of a thread and those that remain.
LEMMA HeadFacts ==
    ASSUME Inv, NEW t \in Threads, calls[t] # << >>,
           NEW s, s = calls[t], NEW ret, ret = local[t].ret
    PROVE  /\ s \in Seq(CallSet) /\ Script(s) /\ Several(s, ret) /\ InHand(t) = HandOf(s, ret)
           /\ Len(s) \in Nat \ {0} /\ Head(s) = s[1] /\ s[1] \in CallSet /\ Follows(s, 1)
           /\ Rest(t) = Tail(s) /\ Tail(s) \in Seq(CallSet) /\ Len(Tail(s)) = Len(s) - 1
           /\ \A k \in 1 .. Len(s) - 1 : Tail(s)[k] = s[k + 1]
           /\ Replaced(Tail(s), 0, s, 1)
<1>1. s \in Seq(CallSet) /\ Script(s) /\ Several(s, ret)
  BY DEF Inv, Typed, Scripts
<1>2. /\ Replaced(Tail(s), 0, s, 1) /\ Tail(s) \in Seq(CallSet)
      /\ Len(Tail(s)) = Len(s) - 1 /\ Head(s) = s[1] /\ Len(s) \in Nat \ {0} /\ s[1] \in CallSet
      /\ \A k \in 1 .. Len(s) - 1 : Tail(s)[k] = s[k + 1]
  BY <1>1, TailReplaced
<1>3. Follows(s, 1)
  BY <1>1, <1>2 DEF Script
<1>4. InHand(t) = HandOf(s, ret) /\ Rest(t) = Tail(s)
  BY DEF InHand, Rest
<1> QED
  BY <1>1, <1>2, <1>3, <1>4

\* The first call is replaced by p, and no chunks have been taken for a call that waits.
ColdTurn(t, n, p) ==
    /\ calls[t] # << >> /\ ~Named(Head(calls[t])) /\ Cold(calls[t], local[t].ret)
    /\ p \in Seq(CallSet) /\ \A k \in 1 .. Len(p) : ~Named(p[k])
    /\ Pushed(n, p, t)

\* What is left of the calls when the first one, which has no chunks, is replaced by p.
LEMMA ColdDone ==
    ASSUME Inv, NEW t \in Threads, NEW n, NEW p, ColdTurn(t, n, p), NEW r
    PROVE  /\ n \in Seq(CallSet) /\ Len(n) = Len(p) + Len(calls[t]) - 1
           /\ \A k \in 1 .. Len(p) : n[k] = p[k]
           /\ \A k \in 2 .. Len(calls[t]) : n[Len(p) + k - 1] = calls[t][k]
           /\ (\A k \in 1 .. Len(p) : Follows(n, k)) => Script(n)
           /\ Cold(n, r) => Several(n, r) /\ HandOf(n, r) = InHand(t)
<1>a. /\ calls[t] # << >> /\ ~Named(Head(calls[t])) /\ Cold(calls[t], local[t].ret)
      /\ p \in Seq(CallSet) /\ \A k \in 1 .. Len(p) : ~Named(p[k])
      /\ Pushed(n, p, t)
  BY DEF ColdTurn
<1>0. PICK s, ret : s = calls[t] /\ ret = local[t].ret
  OBVIOUS
<1>1. /\ s \in Seq(CallSet) /\ Script(s) /\ Several(s, ret) /\ InHand(t) = HandOf(s, ret)
      /\ Len(s) \in Nat \ {0} /\ Head(s) = s[1] /\ Tail(s) \in Seq(CallSet)
      /\ Len(Tail(s)) = Len(s) - 1 /\ Replaced(Tail(s), 0, s, 1)
      /\ \A k \in 1 .. Len(s) - 1 : Tail(s)[k] = s[k + 1]
  BY <1>0, <1>a, HeadFacts
<1>2. PICK u : u = Tail(s)
  OBVIOUS
<1>3. /\ Replaced(p \o u, Len(p), s, 1) /\ p \o u \in Seq(CallSet)
      /\ Len(p \o u) = Len(p) + Len(u)
      /\ \A k \in 1 .. Len(p) : (p \o u)[k] = p[k]
      /\ \A k \in 1 .. Len(u) : (p \o u)[Len(p) + k] = u[k]
  <2>1. u \in Seq(CallSet) /\ Replaced(u, 0, s, 1) /\ Len(s) \in Nat
    BY <1>1, <1>2
  <2> QED
    BY <1>a, <2>1, PushReplaced
<1>4. n = p \o u
  BY <1>0, <1>2, <1>a DEF Pushed
<1>5. /\ Replaced(n, Len(p), s, 1) /\ n \in Seq(CallSet)
      /\ Len(n) = Len(p) + Len(u) /\ \A k \in 1 .. Len(p) : n[k] = p[k]
      /\ \A k \in 1 .. Len(u) : n[Len(p) + k] = u[k]
  BY <1>3, <1>4
<1>6. ASSUME NEW k \in 2 .. Len(s)
      PROVE  n[Len(p) + k - 1] = s[k]
  <2>1. k - 1 \in 1 .. Len(u) /\ k - 1 \in 1 .. Len(s) - 1 /\ k - 1 + 1 = k
    BY <1>1, <1>2
  <2>2. Len(p) + (k - 1) = Len(p) + k - 1
    BY <1>1, <1>a
  <2>3. n[Len(p) + (k - 1)] = u[k - 1] /\ Tail(s)[k - 1] = s[k - 1 + 1]
    BY <1>1, <1>5, <2>1
  <2> QED
    BY <1>2, <2>1, <2>2, <2>3
<1>7. (\A k \in 1 .. Len(p) : Follows(n, k)) => Script(n)
  BY <1>1, <1>5, ScriptReplaced
<1>8. ASSUME Cold(n, r)
      PROVE  Several(n, r) /\ HandOf(n, r) = InHand(t)
  <2>1. ColdAfter(s, ret, 1) /\ \A k \in 1 .. Len(p) : ~Named(n[k])
    BY <1>0, <1>5, <1>a DEF Cold, ColdAfter
  <2>2. /\ HandOf(n, r) = HandOf(s, ret) \ {Claim(s, ret, k) : k \in {j \in Claims(s, ret) : j <= 1}}
        /\ Several(n, r)
    BY <1>1, <1>5, <1>8, <2>1, ColdHand
  <2>3. {j \in Claims(s, ret) : j <= 1} = {}
    BY <1>0, <1>1, <1>a DEF Cold, Claims
  <2> QED
    BY <1>1, <2>2, <2>3
<1> QED
  BY <1>0, <1>1, <1>2, <1>5, <1>6, <1>7, <1>8

\* A call that takes no chunks and names none is over; what comes next is not a call that
\* chunks have been taken for.
LEMMA ColdPop ==
    ASSUME Inv, NEW t \in Threads, calls[t] # << >>, ~Named(Head(calls[t])),
           Cold(calls[t], local[t].ret), NEW r,
           \/ r = NULL
           \/ \A k \in 2 .. Len(calls[t]) : ~User(calls[t][k])
           \/ Len(calls[t]) > 1 /\ ~Passive(calls[t][2]) /\ ~User(calls[t][2])
    PROVE  /\ Rest(t) \in Seq(CallSet) /\ Script(Rest(t)) /\ Several(Rest(t), r)
           /\ HandOf(Rest(t), r) = InHand(t)
<1>0. PICK s, ret : s = calls[t] /\ ret = local[t].ret
  OBVIOUS
<1>1. Len(s) \in Nat \ {0} /\ Rest(t) = Tail(s) /\ Tail(s) \in Seq(CallSet)
  BY <1>0, HeadFacts
<1> DEFINE p == << >>
<1>2. p \in Seq(CallSet) /\ Len(p) = 0 /\ p \o Tail(s) = Tail(s)
  BY <1>1
<1> HIDE DEF p
<1>3. PICK n : n = Tail(s) /\ Pushed(n, p, t)
  BY <1>0, <1>2 DEF Pushed
<1>4. /\ n \in Seq(CallSet) /\ Len(n) = Len(p) + Len(calls[t]) - 1
      /\ \A k \in 2 .. Len(calls[t]) : n[Len(p) + k - 1] = calls[t][k]
      /\ (\A k \in 1 .. Len(p) : Follows(n, k)) => Script(n)
      /\ Cold(n, r) => Several(n, r) /\ HandOf(n, r) = InHand(t)
  <2>1. Pushed(n, p, t)
    BY <1>3
  <2>2. ColdTurn(t, n, p)
    BY <1>2, <2>1 DEF ColdTurn
  <2> QED
    BY <2>2, ColdDone
<1>5. Len(n) = Len(s) - 1 /\ \A k \in 2 .. Len(s) : n[k - 1] = s[k]
  BY <1>0, <1>1, <1>2, <1>4
<1>6. Script(n)
  BY <1>2, <1>4
<1>7. Cold(n, r)
  <2>1. CASE r = NULL
    BY <1>4, <2>1, ColdFacts
  <2>2. CASE \A k \in 2 .. Len(s) : ~User(s[k])
    <3>1. ASSUME NEW k \in 1 .. Len(n)
          PROVE  ~User(n[k])
      <4>1. k + 1 \in 2 .. Len(s) /\ k + 1 - 1 = k
        BY <1>1, <1>5
      <4> QED
        BY <1>5, <2>2, <4>1
    <3> QED
      BY <1>4, <3>1, ColdFacts
  <2>3. CASE Len(s) > 1 /\ ~Passive(s[2]) /\ ~User(s[2])
    <3>1. n[1] = s[2] /\ Len(n) > 0
      <4>1. 2 \in 2 .. Len(s) /\ 2 - 1 = 1
        BY <1>1, <2>3
      <4>2. n[2 - 1] = s[2]
        BY <1>5, <4>1
      <4> QED
        BY <1>1, <1>5, <2>3, <4>1, <4>2
    <3>2. n # << >>
      BY <3>1
    <3> QED
      BY <1>4, <2>3, <3>1, <3>2, ColdFacts
  <2> QED
    BY <1>0, <2>1, <2>2, <2>3
<1> QED
  BY <1>1, <1>3, <1>4, <1>6, <1>7

\* A call is replaced by p without an effect on the chunks.
LEMMA ColdStep ==
    ASSUME Inv, NEW t \in Threads, NEW n, NEW p, ColdTurn(t, n, p), Goto(t, n),
           NEW r, local' \in [Threads -> LocalSet], local'[t].ret = r,
           \A u \in Threads \ {t} : local'[u] = local[u],
           \A k \in 1 .. Len(p) : Follows(n, k), Cold(n, r), OtherTypes',
           UNCHANGED <<swap_end, free, huge, base_chunks, leaked, nodeless>>
    PROVE  Inv'
<1>1. n \in Seq(CallSet) /\ Script(n) /\ Several(n, r) /\ HandOf(n, r) = InHand(t)
  BY ColdDone
<1>2. Moved(t, n, r)
  BY <1>1, GotoFacts DEF Moved, Inv
<1> QED
  BY <1>1, <1>2, QuietStep

\* A call is over without an effect on the chunks.
LEMMA PopStep ==
    ASSUME Inv, NEW t \in Threads, calls[t] # << >>, ~Named(Head(calls[t])), Return(t),
           Cold(calls[t], local[t].ret), NEW r,
           local' \in [Threads -> LocalSet], local'[t].ret = r,
           \A u \in Threads \ {t} : local'[u] = local[u],
           \/ r = NULL
           \/ \A k \in 2 .. Len(calls[t]) : ~User(calls[t][k])
           \/ Len(calls[t]) > 1 /\ ~Passive(calls[t][2]) /\ ~User(calls[t][2]),
           OtherTypes',
           UNCHANGED <<swap_end, free, huge, base_chunks, leaked, nodeless>>
    PROVE  Inv'
<1>1. PICK n : n = Rest(t)
  OBVIOUS
<1>2. n \in Seq(CallSet) /\ Script(n) /\ Several(n, r) /\ HandOf(n, r) = InHand(t)
  BY <1>1, ColdPop
<1>3. Moved(t, n, r)
  BY <1>1, <1>2, GotoFacts DEF Moved, Inv, Return
<1> QED
  BY <1>2, <1>3, QuietStep

\* The invariant holds the types that do not depend on the chunks.
LEMMA OtherTypesNow == ASSUME Inv PROVE OtherTypes
  BY DEF Inv, Typed, OtherTypes

\* What comes after a call that asks for a node.
LEMMA NodeWanted ==
    ASSUME Inv, NEW t \in Threads, NEW what \in {"base_node_alloc", "base_alloc", "base_pages"},
           At(t, what)
    PROVE  /\ calls[t] # << >> /\ calls[t] \in Seq(CallSet) /\ Len(calls[t]) \in Nat
           /\ Len(calls[t]) > 1 /\ calls[t][2].do \in {"dealloc2", "recycle"}
           /\ ~Passive(calls[t][2]) /\ ~User(calls[t][2])
           /\ calls[t][2].do = "recycle" => \A j \in 2 .. Len(calls[t]) : ~Named(calls[t][j])
           /\ ~Named(Head(calls[t])) /\ Head(calls[t]) = calls[t][1]
           /\ what # "base_pages" => Cold(calls[t], local[t].ret)
<1>0. PICK s, ret : s = calls[t] /\ ret = local[t].ret
  OBVIOUS
<1>1. calls[t] # << >> /\ Head(calls[t]).do = what
  BY DEF At
<1>2. s \in Seq(CallSet) /\ Len(s) \in Nat \ {0} /\ Head(s) = s[1] /\ Follows(s, 1)
  BY <1>0, <1>1, HeadFacts
<1>3. s[1].do = what
  BY <1>0, <1>1, <1>2
<1>4. /\ 1 < Len(s) /\ s[1 + 1].do \in {"dealloc2", "recycle"}
      /\ s[1 + 1].do = "recycle" => \A j \in 1 + 1 .. Len(s) : ~Named(s[j])
  BY <1>2, <1>3 DEF Follows
<1>5. /\ s[2].do \in {"dealloc2", "recycle"}
      /\ s[2].do = "recycle" => \A j \in 2 .. Len(s) : ~Named(s[j])
  BY <1>4
<1>6. ~Named(s[1]) /\ ~Passive(s[2]) /\ ~User(s[2]) /\ ~Passive(s[1])
  BY <1>3, <1>5 DEF Named, Passive, User
<1>7. what # "base_pages" => Cold(s, ret)
  <2>1. what # "base_pages" => ~User(s[1])
    BY <1>3 DEF User
  <2> QED
    BY <1>0, <1>1, <1>2, <1>6, <2>1, ColdFacts
<1> QED
  BY <1>0, <1>1, <1>2, <1>4, <1>5, <1>6, <1>7

\* base_node_alloc takes a node from the list or goes on to base_alloc.
LEMMA BaseNodeAllocStep ==
    ASSUME Inv, NEW t \in Threads, BaseNodeAlloc(t)
    PROVE  Inv'
<1>1. At(t, "base_node_alloc")
  BY DEF BaseNodeAlloc
<1>2. /\ calls[t] # << >> /\ Len(calls[t]) \in Nat
      /\ Len(calls[t]) > 1 /\ calls[t][2].do \in {"dealloc2", "recycle"}
      /\ ~Passive(calls[t][2]) /\ ~User(calls[t][2])
      /\ calls[t][2].do = "recycle" => \A j \in 2 .. Len(calls[t]) : ~Named(calls[t][j])
      /\ ~Named(Head(calls[t])) /\ Cold(calls[t], local[t].ret)
  BY <1>1, NodeWanted
<1>3. Typed /\ OtherTypes
  BY OtherTypesNow DEF Inv
<1>4. CASE base_nodes > 0
  <2>1. /\ base_nodes' = base_nodes - 1 /\ Return(t) /\ Set(t, "node", TRUE)
        /\ UNCHANGED <<swap_end, free, base_left, base_chunks, huge, owner, dirty, leaked, nodeless, ops>>
    BY <1>4 DEF BaseNodeAlloc, swapVars, rest
  <2>2. /\ local' \in [Threads -> LocalSet] /\ local'[t].ret = local[t].ret
        /\ \A u \in Threads \ {t} : local'[u] = local[u]
    BY <1>3, <2>1, SetFacts
  <2>3. OtherTypes'
    BY <1>3, <1>4, <2>1 DEF OtherTypes
  <2> QED
    BY <1>2, <2>1, <2>2, <2>3, PopStep
<1>5. CASE ~(base_nodes > 0)
  <2>1. /\ Goto(t, <<Do("base_alloc")>> \o Rest(t))
        /\ UNCHANGED <<swap_end, free, base_nodes, base_left, base_chunks, huge, owner, local, dirty,
                       leaked, nodeless, ops>>
    BY <1>5 DEF BaseNodeAlloc, swapVars, rest
  <2>2. PICK p : p = <<Do("base_alloc")>>
    OBVIOUS
  <2>3. PICK n : n = p \o Rest(t)
    OBVIOUS
  <2>4. p \in Seq(CallSet) /\ Len(p) = 1 /\ p[1] = Do("base_alloc") /\ p[1].do = "base_alloc"
    BY <2>2, CallFacts DEF Dos
  <2>5. ColdTurn(t, n, p)
    <3>1. ~Named(p[1])
      BY <2>4 DEF Named
    <3> QED
      BY <1>2, <2>3, <2>4, <3>1 DEF ColdTurn, Pushed, Rest
  <2>6. /\ n \in Seq(CallSet) /\ Len(n) = Len(p) + Len(calls[t]) - 1
        /\ \A k \in 1 .. Len(p) : n[k] = p[k]
        /\ \A k \in 2 .. Len(calls[t]) : n[Len(p) + k - 1] = calls[t][k]
    BY <2>5, ColdDone
  <2>7. /\ Len(n) = Len(calls[t]) /\ n[1].do = "base_alloc"
        /\ \A k \in 2 .. Len(calls[t]) : n[k] = calls[t][k]
    BY <1>2, <2>4, <2>6
  <2>8. Follows(n, 1)
    BY <1>2, <2>7 DEF Follows, Named, User, Closing
  <2>9. Cold(n, local[t].ret)
    <3>1. ~Passive(n[1]) /\ ~User(n[1])
      BY <2>7 DEF Passive, User
    <3>2. n # << >>
      BY <1>2, <2>6, <2>7
    <3> QED
      BY <2>6, <3>1, <3>2, ColdFacts
  <2>10. OtherTypes'
    BY <1>3, <2>1 DEF OtherTypes
  <2>11. Goto(t, n)
    BY <2>1, <2>2, <2>3
  <2>12. local' \in [Threads -> LocalSet]
    BY <1>3, <2>1 DEF Typed
  <2>13. \A k \in 1 .. Len(p) : Follows(n, k)
    BY <2>4, <2>8
  <2> QED
    BY <2>1, <2>5, <2>9, <2>10, <2>11, <2>12, <2>13, ColdStep
<1> QED
  BY <1>4, <1>5

\* base_alloc has room for a node or asks for a chunk with base_mtx held.
LEMMA BaseAllocStep ==
    ASSUME Inv, NEW t \in Threads, BaseAlloc(t)
    PROVE  Inv'
<1>1. At(t, "base_alloc")
  BY DEF BaseAlloc
<1>2. /\ calls[t] # << >> /\ Len(calls[t]) \in Nat
      /\ Len(calls[t]) > 1 /\ calls[t][2].do \in {"dealloc2", "recycle"}
      /\ ~Passive(calls[t][2]) /\ ~User(calls[t][2])
      /\ calls[t][2].do = "recycle" => \A j \in 2 .. Len(calls[t]) : ~Named(calls[t][j])
      /\ ~Named(Head(calls[t])) /\ Cold(calls[t], local[t].ret)
  BY <1>1, NodeWanted
<1>3. Typed /\ OtherTypes
  BY OtherTypesNow DEF Inv
<1>4. CASE base_left > 0 /\ base_left' = base_left - 1 /\ Return(t) /\ Set(t, "node", TRUE)
           /\ UNCHANGED owner
  <2>1. UNCHANGED <<swap_end, free, base_nodes, base_chunks, huge, owner, dirty, leaked, nodeless, ops>>
    BY <1>4 DEF BaseAlloc, swapVars, rest
  <2>2. /\ local' \in [Threads -> LocalSet] /\ local'[t].ret = local[t].ret
        /\ \A u \in Threads \ {t} : local'[u] = local[u]
    BY <1>3, <1>4, SetFacts
  <2>3. OtherTypes'
    BY <1>3, <1>4, <2>1, ChunksAssumption DEF OtherTypes
  <2> QED
    BY <1>2, <1>4, <2>1, <2>2, <2>3, PopStep
<1>5. CASE /\ base_left = 0 /\ Hold(t, "base")
           /\ Goto(t, ChunkAlloc(1) \o <<Do("base_pages")>> \o Rest(t))
           /\ UNCHANGED <<base_left, local>>
  <2>1. UNCHANGED <<swap_end, free, base_nodes, base_left, base_chunks, huge, local, dirty,
                       leaked, nodeless, ops>>
    BY <1>5 DEF BaseAlloc, swapVars, rest
  <2>2. PICK p : p = ChunkAlloc(1) \o <<Do("base_pages")>>
    OBVIOUS
  <2>3. PICK n : n = p \o Rest(t)
    OBVIOUS
  <2>4. /\ p \in Seq(CallSet) /\ Len(p) = 3 /\ p[1] = Call("recycle", NULL, 1)
        /\ p[2] = Call("extend", NULL, 1) /\ p[3] = Do("base_pages")
    <3>1. PICK c1 \in CallSet, c2 \in CallSet, c3 \in CallSet :
             c1 = Call("recycle", NULL, 1) /\ c2 = Call("extend", NULL, 1) /\ c3 = Do("base_pages")
      BY CallFacts DEF Dos
    <3>2. p = <<c1, c2>> \o <<c3>>
      BY <2>2, <3>1 DEF ChunkAlloc
    <3>3. <<c1, c2>> \in Seq(CallSet) /\ <<c3>> \in Seq(CallSet) /\ Len(<<c1, c2>>) = 2 /\ Len(<<c3>>) = 1
      OBVIOUS
    <3>4. p \in Seq(CallSet) /\ Len(p) = 3
      BY <3>2, <3>3, ConcatProperties
    <3>5. p[1] = c1 /\ p[2] = c2 /\ p[3] = c3
      BY <3>2
    <3> QED
      BY <3>1, <3>4, <3>5
  <2>5. /\ p[1].do = "recycle" /\ p[1].size = 1 /\ p[2].do = "extend" /\ p[2].size = 1
        /\ p[3].do = "base_pages"
    BY <2>4, CallFacts DEF Dos
  <2>6. ColdTurn(t, n, p)
    <3>1. \A k \in 1 .. Len(p) : k = 1 \/ k = 2 \/ k = 3
      BY <2>4
    <3>2. \A k \in 1 .. Len(p) : ~Named(p[k])
      BY <2>5, <3>1 DEF Named
    <3> QED
      BY <1>2, <2>3, <2>4, <3>2 DEF ColdTurn, Pushed, Rest
  <2>7. /\ n \in Seq(CallSet) /\ Len(n) = Len(p) + Len(calls[t]) - 1
        /\ \A k \in 1 .. Len(p) : n[k] = p[k]
        /\ \A k \in 2 .. Len(calls[t]) : n[Len(p) + k - 1] = calls[t][k]
    BY <2>6, ColdDone
  <2>8. /\ Len(n) = Len(calls[t]) + 2 /\ n[1] = p[1] /\ n[2] = p[2] /\ n[3] = p[3]
        /\ n[4] = calls[t][2] /\ \A j \in 4 .. Len(n) : n[j] = calls[t][j - 2]
    <3>1. ASSUME NEW j \in 4 .. Len(n)
          PROVE  n[j] = calls[t][j - 2]
      <4>1. j - 2 \in 2 .. Len(calls[t]) /\ Len(p) + (j - 2) - 1 = j
        BY <1>2, <2>4, <2>7
      <4> QED
        BY <2>7, <4>1
    <3>2. 4 \in 4 .. Len(n) /\ 4 - 2 = 2
      BY <1>2, <2>4, <2>7
    <3>3. n[4] = calls[t][2]
      BY <3>1, <3>2
    <3> QED
      BY <1>2, <2>4, <2>7, <3>1, <3>3
  <2>9. Follows(n, 1)
    <3>1. n[1 + 1] = n[2] /\ 1 < Len(n)
      BY <1>2, <2>8
    <3> QED
      BY <2>5, <2>8, <3>1 DEF Follows, Named, User, Closing
  <2>10. Follows(n, 2)
    <3>1. n[2 + 1] = n[3] /\ 2 < Len(n)
      BY <1>2, <2>8
    <3>2. User(n[3]) /\ Taken(n[3]) = 1
      BY <2>5, <2>8 DEF User, Taken
    <3> QED
      BY <2>5, <2>8, <3>1, <3>2 DEF Follows, Named, Closing
  <2>11. Follows(n, 3)
    <3>1. n[3 + 1] = calls[t][2] /\ 3 < Len(n)
      BY <1>2, <2>8
    <3>2. \A j \in 3 + 1 .. Len(n) : j - 2 \in 2 .. Len(calls[t]) /\ n[j] = calls[t][j - 2]
      BY <1>2, <2>8
    <3> QED
      BY <1>2, <2>5, <2>8, <3>1, <3>2 DEF Follows, Named, User, Closing
  <2>12. Cold(n, local[t].ret)
    <3>1. ~Passive(n[1]) /\ ~User(n[1])
      BY <2>5, <2>8 DEF Passive, User
    <3>2. n # << >>
      BY <1>2, <2>7, <2>8
    <3> QED
      BY <2>7, <3>1, <3>2, ColdFacts
  <2>13. OtherTypes'
    <3>1. owner' = [owner EXCEPT !["base"] = t]
      BY <1>5 DEF Hold
    <3> QED
      BY <1>3, <2>1, <3>1 DEF OtherTypes
  <2>14. Goto(t, n)
    BY <1>5, <2>2, <2>3
  <2>15. local' \in [Threads -> LocalSet]
    BY <1>3, <2>1 DEF Typed
  <2>16. \A k \in 1 .. Len(p) : Follows(n, k)
    <3>1. \A k \in 1 .. Len(p) : k = 1 \/ k = 2 \/ k = 3
      BY <2>4
    <3> QED
      BY <2>9, <2>10, <2>11, <3>1
  <2> QED
    BY <2>1, <2>6, <2>12, <2>13, <2>14, <2>15, <2>16, ColdStep
<1> QED
  BY <1>4, <1>5 DEF BaseAlloc

\* Chunks have been taken for the first call, and that call is over.
LEMMA UserDone ==
    ASSUME Inv, NEW t \in Threads, calls[t] # << >>, User(Head(calls[t])), local[t].ret # NULL,
           NEW r, Cold(Rest(t), r)
    PROVE  /\ Extent(local[t].ret, Taken(Head(calls[t]))) \in InHand(t)
           /\ Rest(t) \in Seq(CallSet) /\ Script(Rest(t)) /\ Several(Rest(t), r)
           /\ HandOf(Rest(t), r) = InHand(t) \ {Extent(local[t].ret, Taken(Head(calls[t])))}
<1>0. PICK s, ret : s = calls[t] /\ ret = local[t].ret
  OBVIOUS
<1>1. /\ s \in Seq(CallSet) /\ Script(s) /\ Several(s, ret) /\ InHand(t) = HandOf(s, ret)
      /\ Len(s) \in Nat \ {0} /\ Head(s) = s[1] /\ Tail(s) \in Seq(CallSet) /\ Rest(t) = Tail(s)
      /\ Len(Tail(s)) = Len(s) - 1 /\ Replaced(Tail(s), 0, s, 1)
  BY <1>0, HeadFacts
<1>2. PICK n : n = Tail(s)
  OBVIOUS
<1>3. User(s[1]) /\ ~Named(s[1]) /\ ~Passive(s[1]) /\ ret # NULL
  BY <1>0, <1>1 DEF User, Named, Passive
<1>4. ColdAfter(s, ret, 1)
  <2> SUFFICES ASSUME NEW k \in Claims(s, ret), k > 1, ~Named(s[k])
               PROVE  FALSE
    BY DEF ColdAfter
  <2>1. k \in 1 .. Len(s) /\ \A j \in 1 .. k - 1 : Passive(s[j])
    BY <1>1 DEF Claims
  <2> QED
    BY <1>3, <2>1
<1>5. {j \in Claims(s, ret) : j <= 1} = {1} /\ Claim(s, ret, 1) = Extent(ret, Taken(s[1]))
  <2>1. 1 \in Claims(s, ret)
    BY <1>1, <1>3 DEF Claims
  <2>2. \A j \in Claims(s, ret) : j \in Nat /\ j >= 1
    BY <1>1 DEF Claims
  <2>3. {j \in Claims(s, ret) : j <= 1} = {1}
    BY <2>1, <2>2
  <2>4. Claim(s, ret, 1) = Extent(ret, Taken(s[1]))
    BY <1>3 DEF Claim
  <2> QED
    BY <2>3, <2>4
<1>6. n \in Seq(CallSet) /\ Replaced(n, 0, s, 1) /\ Cold(n, r)
  BY <1>1, <1>2
<1>7. /\ HandOf(n, r) = HandOf(s, ret) \ {Claim(s, ret, k) : k \in {j \in Claims(s, ret) : j <= 1}}
      /\ Several(n, r)
  <2>1. \A k \in 1 .. 0 : ~Named(n[k])
    OBVIOUS
  <2> QED
    BY <1>1, <1>4, <1>6, <2>1, ColdHand
<1>8. Script(n)
  <2>1. \A k \in 1 .. 0 : Follows(n, k)
    OBVIOUS
  <2> QED
    BY <1>1, <1>6, <2>1, ScriptReplaced
<1>9. Extent(ret, Taken(s[1])) \in HandOf(s, ret)
  BY <1>5 DEF HandOf
<1> QED
  BY <1>0, <1>1, <1>2, <1>5, <1>6, <1>7, <1>8, <1>9

\* The chunk base_pages got goes from the hand to the base chunks; without one the call of
\* the program ends or goes on without a node.
LEMMA BasePagesStep ==
    ASSUME Inv, NEW t \in Threads, BasePages(t)
    PROVE  Inv'
<1>1. At(t, "base_pages") /\ calls[t] # << >> /\ Head(calls[t]).do = "base_pages"
  BY DEF BasePages, At
<1>2. /\ calls[t] # << >> /\ Len(calls[t]) \in Nat /\ calls[t] \in Seq(CallSet)
      /\ Len(calls[t]) > 1 /\ calls[t][2].do \in {"dealloc2", "recycle"}
      /\ ~Passive(calls[t][2]) /\ ~User(calls[t][2])
      /\ calls[t][2].do = "recycle" => \A j \in 2 .. Len(calls[t]) : ~Named(calls[t][j])
      /\ ~Named(Head(calls[t])) /\ Head(calls[t]) = calls[t][1]
  BY <1>1, NodeWanted
<1>3. Typed /\ OtherTypes
  BY OtherTypesNow DEF Inv
<1>4. /\ UNCHANGED <<swap_end, free, base_nodes, huge, leaked, nodeless, ops>>
      /\ owner' = [owner EXCEPT !["base"] = NoThread]
  BY DEF BasePages, swapVars, rest, Unlock
<1>5. PICK s, ret : s = calls[t] /\ ret = local[t].ret
  OBVIOUS
<1>6. /\ s \in Seq(CallSet) /\ Script(s) /\ Several(s, ret) /\ InHand(t) = HandOf(s, ret)
      /\ Len(s) \in Nat \ {0} /\ Rest(t) = Tail(s) /\ Tail(s) \in Seq(CallSet)
      /\ Len(Tail(s)) = Len(s) - 1 /\ \A k \in 1 .. Len(s) - 1 : Tail(s)[k] = s[k + 1]
  BY <1>1, <1>5, HeadFacts
<1>7. Head(Rest(t)) = s[2] /\ Rest(t)[1] = s[2] /\ Rest(t) # << >>
  <2>1. PICK u \in Seq(CallSet) : u = Tail(s)
    BY <1>6
  <2>2. Len(u) > 0 /\ Len(u) \in Nat /\ 1 \in 1 .. Len(s) - 1 /\ 1 + 1 = 2
    BY <1>2, <1>5, <1>6, <2>1
  <2>3. u # << >>
    BY <2>2
  <2>4. Head(u) = u[1]
    BY <2>3
  <2>5. u[1] = s[1 + 1]
    BY <1>6, <2>1, <2>2
  <2> QED
    BY <1>6, <2>1, <2>2, <2>3, <2>4, <2>5
<1>8. CASE local[t].ret = NULL
  <2>1. /\ Set(t, "node", FALSE)
        /\ Goto(t, IF Head(Rest(t)).do = "dealloc2" THEN Rest(t) ELSE << >>)
        /\ UNCHANGED <<base_left, base_chunks, dirty>>
    BY <1>8 DEF BasePages
  <2>2. /\ local' \in [Threads -> LocalSet] /\ local'[t].ret = NULL
        /\ \A u \in Threads \ {t} : local'[u] = local[u]
    BY <1>3, <1>8, <2>1, SetFacts
  <2>3. OtherTypes'
    BY <1>3, <1>4, <2>1 DEF OtherTypes
  <2>4. Cold(s, ret)
    BY <1>5, <1>6, <1>8, ColdFacts
  <2>5. CASE s[2].do = "dealloc2"
    <3>1. Return(t)
      BY <1>7, <2>1, <2>5 DEF Return
    <3> QED
      BY <1>2, <1>4, <1>5, <2>1, <2>2, <2>3, <2>4, <3>1, PopStep
  <2>6. CASE s[2].do # "dealloc2"
    <3>1. PICK n : n = << >>
      OBVIOUS
    <3>2. n \in Seq(CallSet) /\ Len(n) = 0 /\ Goto(t, n)
      BY <1>7, <2>1, <2>6, <3>1
    <3>3. Claims(n, NULL) = {} /\ HandOf(n, NULL) = {} /\ Several(n, NULL)
      BY <3>2 DEF Claims, HandOf, Several
    <3>4. Script(n)
      BY <3>2 DEF Script
    <3>5. \A j \in 1 .. Len(s) : ~Named(s[j])
      <4>1. \A j \in 2 .. Len(s) : ~Named(s[j])
        BY <1>2, <1>5, <2>6
      <4>2. ~Named(s[1])
        BY <1>2, <1>5
      <4> QED
        BY <1>6, <4>1, <4>2
    <3>6. Claims(s, ret) = {}
      BY <2>4, <3>5, <1>6 DEF Cold, Claims
    <3>7. InHand(t) = {}
      BY <1>6, <3>6 DEF HandOf
    <3>8. Moved(t, n, NULL)
      BY <1>3, <2>2, <3>2, GotoFacts DEF Moved
    <3> QED
      BY <1>4, <2>1, <2>3, <3>3, <3>4, <3>7, <3>8, QuietStep
  <2> QED
    BY <2>5, <2>6
<1>9. CASE local[t].ret # NULL
  <2>1. /\ Set(t, "node", TRUE) /\ Return(t)
        /\ base_left' = NodesPerChunk - 1
        /\ base_chunks' = base_chunks \union {ret}
        /\ dirty' = dirty \union {ret}
    BY <1>5, <1>9 DEF BasePages
  <2>2. /\ local' \in [Threads -> LocalSet] /\ local'[t].ret = ret
        /\ \A u \in Threads \ {t} : local'[u] = local[u]
    BY <1>3, <1>5, <2>1, SetFacts
  <2>3. PICK n : n = Rest(t)
    OBVIOUS
  <2>4. n \in Seq(CallSet) /\ n[1] = s[2] /\ n # << >>
    BY <1>6, <1>7, <2>3
  <2>5. Cold(n, ret)
    <3>1. ~Passive(n[1]) /\ ~User(n[1])
      BY <1>2, <1>5, <2>4
    <3> QED
      BY <2>4, <3>1, ColdFacts
  <2>6. PICK e : e = Extent(ret, 1)
    OBVIOUS
  <2>7. e = Extent(local[t].ret, Taken(Head(calls[t])))
    BY <1>1, <1>5, <2>6 DEF Taken
  <2>8. e \in InHand(t) /\ Script(n) /\ Several(n, ret) /\ HandOf(n, ret) = InHand(t) \ {e}
    <3>1. User(Head(calls[t])) /\ local[t].ret # NULL /\ Cold(Rest(t), ret)
      BY <1>1, <1>9, <2>3, <2>5 DEF User
    <3> QED
      BY <1>1, <2>3, <2>7, <3>1, UserDone
  <2>9. Moved(t, n, ret)
    BY <1>3, <2>1, <2>2, <2>3, <2>4, GotoFacts DEF Moved, Return
  <2>10. /\ Scripts' /\ InHand(t)' = InHand(t) \ {e}
         /\ \A u \in Threads \ {t} : InHand(u)' = InHand(u)
    BY <2>8, <2>9, MovedHands
  <2>11. Pieces' = (Pieces \ {Piece("hand", t, e)}) \union {Piece("base", NoThread, e)}
    <3>1. Change(t, {}, {}, {}, {}, {ret}, {}, {e}, {})
      BY <1>4, <2>1, <2>10 DEF Change
    <3>2. /\ Gone(t, {}, {}, {e}) = {Piece("hand", t, e)}
          /\ Come(t, {}, {}, {ret}, {}, {}) = {Piece("base", NoThread, e)}
      BY <2>6 DEF Come, Gone, PieceSet, Single
    <3> QED
      BY <3>1, <3>2, PiecesChange
  <2>12. Divided(Pieces', swap_end')
    <3>1. PICK p : p = Piece("hand", t, e)
      OBVIOUS
    <3>2. PICK q : q = Piece("base", NoThread, e)
      OBVIOUS
    <3>3. p \in Pieces /\ p.extent = e /\ q.extent = e /\ swap_end \in Nat
      BY <2>8, <3>1, <3>2, ExtentFacts, PieceFacts
    <3>4. Divided(Pieces, swap_end)
      BY DEF Inv
    <3>5. Divided((Pieces \ {p}) \union {q}, swap_end)
      BY <3>3, <3>4, MovePiece
    <3> QED
      BY <1>4, <2>11, <3>1, <3>2, <3>5
  <2>13. ret \in 0 .. SwapMax - 1
    <3>1. e \in Ext /\ End(e) <= swap_end
      BY <2>8, ExtentFacts
    <3>2. ret \in Nat /\ ret + 1 <= swap_end
      BY <2>6, <3>1 DEF Ext, End, Extent
    <3> QED
      BY <1>3, <3>2, ChunksAssumption DEF Typed
  <2>14. Typed'
    <3>1. base_left' \in 0 .. NodesPerChunk
      BY <2>1, ChunksAssumption
    <3> QED
      BY <1>3, <1>4, <2>1, <2>9, <2>13, <3>1 DEF Typed, Moved
  <2>15. Joined'
    BY <1>4 DEF Inv, Joined, After
  <2> QED
    BY <2>10, <2>12, <2>14, <2>15 DEF Inv
<1> QED
  BY <1>8, <1>9

\* A node is given back, or swap_mtx is unlocked: no chunks change hands.
LEMMA PassiveStep ==
    ASSUME Inv, NEW t \in Threads, calls[t] # << >>, Passive(Head(calls[t])), Return(t),
           UNCHANGED local, OtherTypes',
           UNCHANGED <<swap_end, free, huge, base_chunks, leaked, nodeless>>
    PROVE  Inv'
<1>0. PICK s, ret : s = calls[t] /\ ret = local[t].ret
  OBVIOUS
<1>1. /\ s \in Seq(CallSet) /\ Script(s) /\ Several(s, ret) /\ InHand(t) = HandOf(s, ret)
      /\ Len(s) \in Nat \ {0} /\ Head(s) = s[1] /\ Tail(s) \in Seq(CallSet) /\ Rest(t) = Tail(s)
      /\ Replaced(Tail(s), 0, s, 1)
  BY <1>0, HeadFacts
<1>2. HandOf(Tail(s), ret) = HandOf(s, ret) /\ Several(Tail(s), ret)
  BY <1>0, <1>1, PassiveHand
<1>3. Script(Tail(s))
  <2>1. \A k \in 1 .. 0 : Follows(Tail(s), k)
    OBVIOUS
  <2> QED
    BY <1>1, <2>1, ScriptReplaced
<1>4. Moved(t, Tail(s), ret)
  BY <1>0, <1>1, GotoFacts DEF Moved, Return, Inv, Typed
<1> QED
  BY <1>1, <1>2, <1>3, <1>4, QuietStep

\* A node is given back.
LEMMA BaseNodeDeallocStep ==
    ASSUME Inv, NEW t \in Threads, BaseNodeDealloc(t)
    PROVE  Inv'
<1>1. /\ calls[t] # << >> /\ Passive(Head(calls[t])) /\ Return(t) /\ base_nodes' = base_nodes + 1
      /\ UNCHANGED <<swap_end, free, base_left, base_chunks, huge, owner, local, dirty, leaked, nodeless, ops>>
  BY DEF BaseNodeDealloc, At, Passive, swapVars, rest
<1>2. OtherTypes'
  BY <1>1, OtherTypesNow DEF OtherTypes
<1> QED
  BY <1>1, <1>2, PassiveStep

\* swap_mtx is unlocked when the nodes are given back.
LEMMA UnlockSwapStep ==
    ASSUME Inv, NEW t \in Threads, UnlockSwap(t)
    PROVE  Inv'
<1>1. /\ calls[t] # << >> /\ Passive(Head(calls[t])) /\ Return(t)
      /\ owner' = [owner EXCEPT !["swap"] = NoThread]
      /\ UNCHANGED <<swap_end, free, base_nodes, base_left, base_chunks, huge, local, dirty, leaked,
                     nodeless, ops>>
  BY DEF UnlockSwap, At, Passive, swapVars, baseVars, rest, Unlock
<1>2. OtherTypes'
  BY <1>1, OtherTypesNow DEF OtherTypes
<1> QED
  BY <1>1, <1>2, PassiveStep

----------------------------------------------------------------------------
(* Steps that give chunks to another owner.  *)

\* Chunks are taken for call i + 1 of t, after what it gives back; e is where they are.
WarmTurn(t, n, i, e) ==
    /\ calls[t] # << >> /\ Cold(calls[t], local[t].ret) /\ i \in Nat \ {0} /\ i < Len(calls[t])
    /\ \A k \in 1 .. i : ~Named(calls[t][k])
    /\ User(calls[t][i + 1]) /\ Taken(calls[t][i + 1]) = e.size
    /\ e \in Ext /\ \A x \in InHand(t) : Apart(e, x)
    /\ \E p, u \in Seq(CallSet) : /\ n = p \o u /\ Replaced(u, 0, calls[t], i)
                                  /\ \A k \in 1 .. Len(p) : Passive(p[k])

\* What is left of the calls, and the hand, when chunks are taken for call i + 1.
LEMMA WarmDone ==
    ASSUME Inv, NEW t \in Threads, NEW n, NEW i, NEW e, WarmTurn(t, n, i, e)
    PROVE  /\ n \in Seq(CallSet) /\ Script(n) /\ Several(n, e.addr)
           /\ HandOf(n, e.addr) = InHand(t) \union {e}
<1>0. PICK s, ret, r : s = calls[t] /\ ret = local[t].ret /\ r = e.addr
  OBVIOUS
<1>1. /\ s # << >> /\ Cold(s, ret) /\ i \in Nat \ {0} /\ i < Len(s)
      /\ \A k \in 1 .. i : ~Named(s[k])
      /\ User(s[i + 1]) /\ Taken(s[i + 1]) = e.size
      /\ e \in Ext /\ \A x \in InHand(t) : Apart(e, x)
  BY <1>0 DEF WarmTurn
<1>2. PICK p \in Seq(CallSet), u \in Seq(CallSet) :
         /\ n = p \o u /\ Replaced(u, 0, s, i)
         /\ \A k \in 1 .. Len(p) : Passive(p[k])
  BY <1>0 DEF WarmTurn
<1>3. /\ s \in Seq(CallSet) /\ Script(s) /\ Several(s, ret) /\ InHand(t) = HandOf(s, ret)
      /\ Len(s) \in Nat \ {0}
  BY <1>0, <1>1, HeadFacts
<1>4. /\ Replaced(p \o u, Len(p), s, i) /\ p \o u \in Seq(CallSet)
      /\ Len(p \o u) = Len(p) + Len(u)
      /\ \A k \in 1 .. Len(p) : (p \o u)[k] = p[k]
  BY <1>2, <1>3, PushReplaced
<1>5. PICK m : m = Len(p) /\ m \in Nat
  OBVIOUS
<1>6. /\ Replaced(n, m, s, i) /\ n \in Seq(CallSet) /\ Len(n) = m + Len(s) - i
      /\ \A k \in 1 .. m : n[k] = p[k]
  <2>1. Len(u) = Len(s) - i
    BY <1>1, <1>2, <1>3 DEF Replaced
  <2> QED
    BY <1>1, <1>2, <1>3, <1>4, <1>5, <2>1
<1>7. m < Len(n) /\ n[m + 1] = s[i + 1]
  <2>1. m < Len(n) /\ 1 \in 1 .. Len(s) - i
    BY <1>1, <1>3, <1>5, <1>6
  <2> QED
    BY <1>6, <2>1 DEF Replaced
<1>8. \A k \in 1 .. m : Passive(n[k]) /\ Follows(n, k)
  <2>1. \A k \in 1 .. m : Passive(n[k])
    BY <1>2, <1>5, <1>6
  <2> QED
    BY <2>1 DEF Passive, Follows, Named, User, Closing
<1>9. Script(n)
  BY <1>3, <1>6, <1>8, ScriptReplaced
<1>10. ColdAfter(s, ret, i) /\ \A k \in 1 .. i : k \notin Claims(s, ret)
  BY <1>1 DEF Cold, ColdAfter
<1>11. TakenAt(n, r, m, e)
  <2>1. e = Extent(r, Taken(n[m + 1])) /\ r # NULL
    BY <1>0, <1>1, <1>7 DEF Extent, Ext, NULL
  <2> QED
    BY <1>1, <1>7, <2>1 DEF TakenAt
<1>13. \A x \in HandOf(s, ret) : Apart(e, x)
  BY <1>1, <1>3
<1>14. HandOf(n, r) = HandOf(s, ret) \union {e} /\ Several(n, r)
  BY <1>3, <1>6, <1>8, <1>10, <1>11, <1>13, WarmHand
<1> QED
  BY <1>0, <1>3, <1>6, <1>9, <1>14

\* A free extent is taken: its first chunks go to the hand, the others stay free.
LEMMA RecycleStep ==
    ASSUME Inv, NEW t \in Threads, Recycle(t)
    PROVE  Inv'
<1>0. PICK s, ret : s = calls[t] /\ ret = local[t].ret
  OBVIOUS
<1>1. calls[t] # << >> /\ Head(calls[t]).do = "recycle"
  BY DEF Recycle, At
<1>2. /\ s \in Seq(CallSet) /\ Script(s) /\ Several(s, ret) /\ InHand(t) = HandOf(s, ret)
      /\ Len(s) \in Nat \ {0} /\ Head(s) = s[1] /\ Tail(s) \in Seq(CallSet) /\ Rest(t) = Tail(s)
      /\ Len(Tail(s)) = Len(s) - 1 /\ Replaced(Tail(s), 0, s, 1) /\ Follows(s, 1)
  BY <1>0, <1>1, HeadFacts
<1>3. PICK k : k = s[1].size
  OBVIOUS
<1>4. /\ s[1].do = "recycle" /\ k \in Nat \ {0} /\ 1 < Len(s) /\ s[2].do = "extend" /\ s[2].size = k
  <2>1. s[1].do = "recycle"
    BY <1>0, <1>1, <1>2
  <2>2. 1 < Len(s) /\ s[1 + 1].do = "extend" /\ s[1 + 1].size = s[1].size /\ s[1].size \in Nat \ {0}
    BY <1>2, <2>1 DEF Follows
  <2> QED
    BY <1>3, <2>1, <2>2
<1>5. 2 < Len(s) /\ User(s[3]) /\ Taken(s[3]) = k
  <2>1. Follows(s, 2)
    BY <1>2, <1>4 DEF Script
  <2>2. 2 < Len(s) /\ User(s[2 + 1]) /\ Taken(s[2 + 1]) = s[2].size
    BY <1>4, <2>1 DEF Follows
  <2> QED
    BY <1>4, <2>2
<1>6. ~Named(s[1]) /\ ~User(s[1]) /\ ~Passive(s[1]) /\ ~Named(s[2]) /\ ~User(s[2]) /\ ~Passive(s[2])
  BY <1>4 DEF Named, User, Passive
<1>7. Cold(s, ret)
  BY <1>0, <1>1, <1>2, <1>6, ColdFacts
<1>8. Typed /\ OtherTypes /\ swap_end \in Nat
  BY OtherTypesNow, ExtentFacts DEF Inv
<1>9. UNCHANGED <<swap_end, base_nodes, base_left, base_chunks, huge, leaked, nodeless, ops>>
  BY DEF Recycle, baseVars, rest
<1>10. CASE Free("swap") /\ Return(t) /\ UNCHANGED <<free, owner, local, dirty>>
  <2>1. OtherTypes'
    BY <1>8, <1>9, <1>10 DEF OtherTypes
  <2>2. local' \in [Threads -> LocalSet] /\ local'[t].ret = ret
        /\ \A u \in Threads \ {t} : local'[u] = local[u]
    BY <1>0, <1>8, <1>10 DEF Typed
  <2>3. ~Named(Head(calls[t])) /\ Len(calls[t]) > 1 /\ ~Passive(calls[t][2]) /\ ~User(calls[t][2])
    BY <1>0, <1>2, <1>4, <1>6
  <2> QED
    BY <1>0, <1>1, <1>7, <1>9, <1>10, <2>1, <2>2, <2>3, PopStep
<1>11. ASSUME NEW e \in BestFit(k),
              free' = (free \ {e}) \union Remainder(e, k),
              dirty' = Zeroed(t, Extent(e.addr, k)),
              Set(t, "ret", e.addr),
              Leave(t, IF e.size = k THEN 1 ELSE 0, Tail(Rest(t)))
       PROVE  Inv'
  <2>1. e \in free /\ e \in Ext /\ k <= e.size /\ End(e) <= swap_end
        /\ Piece("free", NoThread, e) \in Pieces
    BY ExtentFacts DEF BestFit
  <2>2. PICK x : x = Extent(e.addr, k)
    OBVIOUS
  <2>3. x \in Ext /\ x.addr = e.addr /\ x.size = k /\ End(x) = e.addr + k /\ Inside(x, e)
    BY <1>4, <2>1, <2>2 DEF Extent, Ext, End, Inside
  <2>4. \A y \in InHand(t) : Apart(x, y)
    <3>1. \A y \in InHand(t) : y \in Ext /\ Apart(y, e)
      BY <2>1, ExtentFacts
    <3> QED
      BY <2>1, <2>3, <3>1 DEF Apart, Inside, End, Ext
  <2>5. PICK u : u = Tail(Tail(s))
    OBVIOUS
  <2>6. u \in Seq(CallSet) /\ Replaced(u, 0, s, 2)
    <3>1. PICK v \in Seq(CallSet) : v = Tail(s)
      BY <1>2
    <3>2. Len(v) = Len(s) - 1 /\ v # << >> /\ \A j \in 1 .. Len(s) - 1 : v[j] = s[1 + j]
      <4>1. Len(v) = Len(s) - 1 /\ \A j \in 1 .. Len(s) - 1 : v[0 + j] = s[1 + j]
        BY <1>2, <3>1 DEF Replaced
      <4>2. Len(v) > 0
        BY <1>2, <1>4, <4>1
      <4> QED
        BY <4>1, <4>2
    <3>3. /\ Tail(v) \in Seq(CallSet) /\ Len(Tail(v)) = Len(v) - 1
          /\ \A j \in 1 .. Len(v) - 1 : Tail(v)[j] = v[j + 1]
      BY <3>2, TailReplaced
    <3>4. ASSUME NEW j \in 1 .. Len(s) - 2
          PROVE  u[0 + j] = s[2 + j]
      <4>1. j \in 1 .. Len(v) - 1 /\ j + 1 \in 1 .. Len(s) - 1 /\ 1 + (j + 1) = 2 + j /\ 0 + j = j
        BY <1>2, <3>2
      <4>2. u[j] = v[j + 1] /\ v[j + 1] = s[1 + (j + 1)]
        BY <2>5, <3>1, <3>2, <3>3, <4>1
      <4> QED
        BY <4>1, <4>2
    <3> QED
      BY <1>2, <1>5, <2>5, <3>1, <3>2, <3>3, <3>4 DEF Replaced
  <2>7. PICK nodes \in Nat : nodes = IF e.size = k THEN 1 ELSE 0
    OBVIOUS
  <2>8. Leave(t, nodes, u)
    BY <1>2, <1>11, <2>5, <2>7
  <2>9. owner' \in [Mutexes -> Threads \union {NoThread}]
    BY <1>8, <2>6, <2>8, LeaveFacts
  <2>10. PICK p \in Seq(CallSet) : /\ p \o u \in Seq(CallSet) /\ Goto(t, p \o u)
                                   /\ \A j \in 1 .. Len(p) : Passive(p[j])
    BY <1>8, <2>6, <2>8, LeaveFacts
  <2>11. PICK n : n = p \o u
    OBVIOUS
  <2>12. WarmTurn(t, n, 2, x)
    <3>1. \A j \in 1 .. 2 : ~Named(s[j])
      <4>1. \A j \in 1 .. 2 : j = 1 \/ j = 2
        OBVIOUS
      <4> QED
        BY <1>6, <4>1
    <3>2. User(s[2 + 1]) /\ Taken(s[2 + 1]) = x.size
      BY <1>5, <2>3
    <3>3. \E q, v \in Seq(CallSet) : /\ n = q \o v /\ Replaced(v, 0, s, 2)
                                     /\ \A j \in 1 .. Len(q) : Passive(q[j])
      BY <2>6, <2>10, <2>11
    <3>4. s # << >> /\ Cold(s, ret) /\ 2 \in Nat \ {0} /\ 2 < Len(s) /\ x \in Ext
      BY <1>0, <1>1, <1>5, <1>7, <2>3
    <3>5. /\ calls[t] # << >> /\ Cold(calls[t], local[t].ret) /\ 2 \in Nat \ {0} /\ 2 < Len(calls[t])
          /\ \A j \in 1 .. 2 : ~Named(calls[t][j])
          /\ User(calls[t][2 + 1]) /\ Taken(calls[t][2 + 1]) = x.size
      BY <1>0, <3>1, <3>2, <3>4
    <3>6. \E q, v \in Seq(CallSet) : /\ n = q \o v /\ Replaced(v, 0, calls[t], 2)
                                     /\ \A j \in 1 .. Len(q) : Passive(q[j])
      BY <1>0, <3>3
    <3> QED
      BY <2>4, <3>4, <3>5, <3>6 DEF WarmTurn
  <2>13. /\ n \in Seq(CallSet) /\ Script(n) /\ Several(n, x.addr)
         /\ HandOf(n, x.addr) = InHand(t) \union {x}
    BY <2>12, WarmDone
  <2>14. Moved(t, n, x.addr)
    <3>1. x.addr \in Int /\ Set(t, "ret", x.addr)
      BY <1>11, <2>3 DEF Ext
    <3>2. /\ local' \in [Threads -> LocalSet] /\ local'[t].ret = x.addr
          /\ \A v \in Threads \ {t} : local'[v] = local[v]
      BY <1>8, <3>1, SetFacts
    <3> QED
      BY <1>8, <2>10, <2>11, <2>13, <3>2, GotoFacts DEF Moved
  <2>15. /\ Scripts' /\ InHand(t)' = InHand(t) \union {x}
         /\ \A v \in Threads \ {t} : InHand(v)' = InHand(v)
    BY <2>13, <2>14, MovedHands
  <2>16. PICK N : N = PieceSet("free", NoThread, Remainder(e, k)) \union {Piece("hand", t, x)}
    OBVIOUS
  <2>17. Pieces' = (Pieces \ {Piece("free", NoThread, e)}) \union N
    <3>1. Change(t, {e}, Remainder(e, k), {}, {}, {}, {}, {}, {x})
      BY <1>9, <1>11, <2>15 DEF Change
    <3>2. Gone(t, {e}, {}, {}) = {Piece("free", NoThread, e)}
      BY DEF Gone, PieceSet
    <3>3. Come(t, Remainder(e, k), {}, {}, {}, {x}) = N
      BY <2>16 DEF Come, Gone, PieceSet, Single
    <3>4. Pieces' = (Pieces \ Gone(t, {e}, {}, {})) \union Come(t, Remainder(e, k), {}, {}, {}, {x})
      BY <3>1, PiecesChange
    <3> QED
      BY <3>2, <3>3, <3>4
  <2>18. ASSUME NEW y \in Remainder(e, k)
         PROVE  /\ y \in Ext /\ Inside(y, e) /\ y.addr = e.addr + k
                /\ End(y) = End(e) /\ Apart(x, y) /\ Apart(y, x)
    <3>1. y = Extent(e.addr + k, e.size - k) /\ e.size # k
      BY DEF Remainder
    <3>2. e.addr \in Nat /\ e.size \in Nat \ {0}
      BY <2>1 DEF Ext
    <3>3. y.addr = e.addr + k /\ y.size = e.size - k /\ y \in Ext
      BY <1>4, <2>1, <3>1, <3>2 DEF Extent, Ext
    <3>4. End(y) = End(e) /\ e.addr <= y.addr
      BY <1>4, <3>2, <3>3 DEF End
    <3>5. End(e) \in Nat
      BY <3>2 DEF End
    <3>6. Inside(y, e) /\ Apart(x, y) /\ Apart(y, x)
      BY <1>4, <2>3, <3>2, <3>3, <3>4, <3>5 DEF Inside, Apart
    <3> QED
      BY <3>3, <3>4, <3>6
  <2>19. \A y, z \in Remainder(e, k) : y = z
    BY DEF Remainder
  <2>20. Divided(Pieces', swap_end')
    <3>1. PICK q : q = Piece("free", NoThread, e)
      OBVIOUS
    <3>2. q.extent = e /\ q \in Pieces
      BY <2>1, <3>1, PieceFacts
    <3>3. \A v \in N : \/ v.extent = x /\ v = Piece("hand", t, x)
                       \/ v.extent \in Remainder(e, k) /\ v = Piece("free", NoThread, v.extent)
      BY <2>16, PieceFacts DEF PieceSet
    <3>4. \A v \in N : v.extent \in Ext /\ Inside(v.extent, q.extent)
      BY <2>3, <2>18, <3>2, <3>3
    <3>5. \A v, o \in N : v # o => Apart(v.extent, o.extent)
      BY <2>18, <2>19, <3>3
    <3>6. ASSUME NEW c \in ChunksOf(q.extent)
          PROVE  \E v \in N : c \in ChunksOf(v.extent)
      <4>1. c \in e.addr .. e.addr + e.size - 1
        BY <3>2 DEF ChunksOf
      <4>2. CASE c < e.addr + k
        <5>1. c \in ChunksOf(x)
          BY <1>4, <2>1, <2>3, <4>1, <4>2 DEF ChunksOf, Ext
        <5> QED
          BY <2>16, <5>1, PieceFacts
      <4>3. CASE c >= e.addr + k
        <5>1. e.size # k
          BY <1>4, <2>1, <4>1, <4>3 DEF Ext
        <5>2. PICK y \in Remainder(e, k) : y = Extent(e.addr + k, e.size - k)
          BY <5>1 DEF Remainder
        <5>3. c \in ChunksOf(y)
          BY <1>4, <2>1, <4>1, <4>3, <5>2 DEF ChunksOf, Ext, Extent
        <5> QED
          BY <2>16, <5>3, PieceFacts DEF PieceSet
      <4> QED
        BY <1>4, <2>1, <4>1, <4>2, <4>3 DEF Ext
    <3>7. Divided(Pieces, swap_end)
      BY DEF Inv
    <3>8. Divided((Pieces \ {q}) \union N, swap_end)
      BY <1>8, <3>2, <3>4, <3>5, <3>6, <3>7, SplitPiece
    <3> QED
      BY <1>9, <2>17, <3>1, <3>8
  <2>21. Joined'
    <3>1. /\ \A y, z \in free : z.addr # End(y)
          /\ \A y \in free : End(y) = swap_end => nodeless
      BY DEF Inv, Joined, After, End
    <3>2. \A y \in free \ {e} : y \in Ext /\ Apart(y, e) /\ y \in free
      BY <2>1, ExtentFacts
    <3>3. ASSUME NEW y \in free', NEW z \in free'
          PROVE  z.addr # End(y)
      <4>1. CASE y \in free \ {e} /\ z \in free \ {e}
        BY <3>1, <4>1
      <4>2. CASE y \in Remainder(e, k) /\ z \in free \ {e}
        BY <2>1, <2>18, <3>1, <4>2
      <4>3. CASE y \in free \ {e} /\ z \in Remainder(e, k)
        <5>1. y \in Ext /\ (End(y) <= e.addr \/ End(e) <= y.addr) /\ z.addr = e.addr + k
          BY <2>18, <3>2, <4>3 DEF Apart
        <5> QED
          BY <1>4, <2>1, <5>1 DEF Ext, End
      <4>4. CASE y \in Remainder(e, k) /\ z \in Remainder(e, k)
        <5>1. y \in Ext /\ y = z
          BY <2>18, <2>19, <4>4
        <5> QED
          BY <5>1 DEF Ext, End
      <4> QED
        BY <1>11, <4>1, <4>2, <4>3, <4>4
    <3>4. ASSUME NEW y \in free', End(y) = swap_end'
          PROVE  nodeless'
      BY <1>9, <1>11, <2>1, <2>18, <3>1, <3>4
    <3> QED
      BY <3>3, <3>4 DEF Joined, After, End
  <2>22. Typed'
    <3>1. dirty' \subseteq dirty
      BY <1>11 DEF Zeroed
    <3> QED
      BY <1>8, <1>9, <2>9, <2>14, <3>1 DEF Typed, Moved
  <2> QED
    BY <2>15, <2>20, <2>21, <2>22 DEF Inv
<1>12. Arg(t).size = k
  BY <1>0, <1>2, <1>3 DEF Arg
<1> QED
  BY <1>10, <1>11, <1>12 DEF Recycle


\* The memory in use is extended; free extents that touched its end do not any more.
LEMMA ExtendStep ==
    ASSUME Inv, NEW t \in Threads, Extend(t)
    PROVE  Inv'
<1>0. PICK s, ret : s = calls[t] /\ ret = local[t].ret
  OBVIOUS
<1>1. calls[t] # << >> /\ Head(calls[t]).do = "extend"
  BY DEF Extend, At
<1>2. /\ s \in Seq(CallSet) /\ Script(s) /\ Several(s, ret) /\ InHand(t) = HandOf(s, ret)
      /\ Len(s) \in Nat \ {0} /\ Head(s) = s[1] /\ Tail(s) \in Seq(CallSet) /\ Rest(t) = Tail(s)
      /\ Len(Tail(s)) = Len(s) - 1 /\ Replaced(Tail(s), 0, s, 1) /\ Follows(s, 1)
  BY <1>0, <1>1, HeadFacts
<1>3. PICK k : k = s[1].size
  OBVIOUS
<1>4. s[1].do = "extend" /\ k \in Nat \ {0} /\ 1 < Len(s) /\ User(s[2]) /\ Taken(s[2]) = k
  <2>1. s[1].do = "extend"
    BY <1>0, <1>1, <1>2
  <2>2. 1 < Len(s) /\ User(s[1 + 1]) /\ Taken(s[1 + 1]) = s[1].size /\ s[1].size \in Nat \ {0}
    BY <1>2, <2>1 DEF Follows
  <2> QED
    BY <1>3, <2>1, <2>2
<1>5. ~Named(s[1]) /\ ~User(s[1]) /\ ~Passive(s[1])
  BY <1>4 DEF Named, User, Passive
<1>6. Cold(s, ret)
  BY <1>0, <1>1, <1>2, <1>5, ColdFacts
<1>7. Typed /\ OtherTypes /\ swap_end \in Nat
  BY OtherTypesNow, ExtentFacts DEF Inv
<1>8. /\ UNCHANGED <<free, base_nodes, base_left, base_chunks, huge, owner, leaked, nodeless, ops>>
      /\ Return(t)
  BY DEF Extend, baseVars, rest
<1>9. Arg(t).size = k
  BY <1>0, <1>2, <1>3 DEF Arg
<1>10. ASSUME Set(t, "ret", NULL), UNCHANGED <<swap_end, dirty>>
       PROVE  Inv'
  <2>1. OtherTypes'
    BY <1>7, <1>8, <1>10 DEF OtherTypes
  <2>2. /\ local' \in [Threads -> LocalSet] /\ local'[t].ret = NULL
        /\ \A u \in Threads \ {t} : local'[u] = local[u]
    BY <1>7, <1>10, CallFacts, SetFacts
  <2>3. ~Named(Head(calls[t])) /\ Cold(calls[t], local[t].ret)
    BY <1>0, <1>2, <1>5, <1>6
  <2> QED
    BY <1>1, <1>8, <1>10, <2>1, <2>2, <2>3, PopStep
<1>11. ASSUME swap_end + k <= SwapMax, Set(t, "ret", swap_end), swap_end' = swap_end + k,
              dirty' = Extended(t, Extent(swap_end, k))
       PROVE  Inv'
  <2>1. PICK x : x = Extent(swap_end, k)
    OBVIOUS
  <2>2. x \in Ext /\ x.addr = swap_end /\ x.size = k
    BY <1>4, <1>7, <2>1 DEF Extent, Ext
  <2>3. \A y \in InHand(t) : Apart(x, y)
    <3>1. \A y \in InHand(t) : y \in Ext /\ End(y) <= swap_end
      BY ExtentFacts
    <3> QED
      BY <2>2, <3>1 DEF Apart
  <2>4. PICK n \in Seq(CallSet) : n = Tail(s)
    BY <1>2
  <2>5. WarmTurn(t, n, 1, x)
    <3>1. \A j \in 1 .. 1 : ~Named(s[j])
      BY <1>5
    <3>2. User(s[1 + 1]) /\ Taken(s[1 + 1]) = x.size
      BY <1>4, <2>2
    <3>3. \E q, v \in Seq(CallSet) : /\ n = q \o v /\ Replaced(v, 0, calls[t], 1)
                                     /\ \A j \in 1 .. Len(q) : Passive(q[j])
      <4>0. << >> \in Seq(CallSet)
        OBVIOUS
      <4>1. PICK q \in Seq(CallSet) : q = << >>
        BY <4>0
      <4>2. n = q \o n /\ \A j \in 1 .. Len(q) : Passive(q[j])
        BY <4>1
      <4>3. Replaced(n, 0, calls[t], 1)
        BY <1>0, <1>2, <2>4
      <4> QED
        BY <4>2, <4>3
    <3>4. /\ calls[t] # << >> /\ Cold(calls[t], local[t].ret) /\ 1 \in Nat \ {0} /\ 1 < Len(calls[t])
          /\ \A j \in 1 .. 1 : ~Named(calls[t][j])
          /\ User(calls[t][1 + 1]) /\ Taken(calls[t][1 + 1]) = x.size
      BY <1>0, <1>1, <1>4, <1>6, <3>1, <3>2
    <3> QED
      BY <2>2, <2>3, <3>3, <3>4 DEF WarmTurn
  <2>6. /\ n \in Seq(CallSet) /\ Script(n) /\ Several(n, x.addr)
        /\ HandOf(n, x.addr) = InHand(t) \union {x}
    BY <2>5, WarmDone
  <2>7. Moved(t, n, x.addr)
    <3>1. x.addr \in Int /\ Set(t, "ret", x.addr)
      BY <1>7, <1>11, <2>2
    <3>2. /\ local' \in [Threads -> LocalSet] /\ local'[t].ret = x.addr
          /\ \A v \in Threads \ {t} : local'[v] = local[v]
      BY <1>7, <3>1, SetFacts
    <3>3. Goto(t, n)
      BY <1>2, <1>8, <2>4 DEF Return
    <3> QED
      BY <1>7, <2>6, <3>2, <3>3, GotoFacts DEF Moved
  <2>8. /\ Scripts' /\ InHand(t)' = InHand(t) \union {x}
        /\ \A v \in Threads \ {t} : InHand(v)' = InHand(v)
    BY <2>6, <2>7, MovedHands
  <2>9. Pieces' = Pieces \union {Piece("hand", t, x)}
    <3>1. Change(t, {}, {}, {}, {}, {}, {}, {}, {x})
      BY <1>8, <2>8 DEF Change
    <3>2. Gone(t, {}, {}, {}) = {}
      BY DEF Gone, PieceSet
    <3>3. Come(t, {}, {}, {}, {}, {x}) = {Piece("hand", t, x)}
      BY DEF Come, Gone, PieceSet, Single
    <3>4. Pieces' = (Pieces \ Gone(t, {}, {}, {})) \union Come(t, {}, {}, {}, {}, {x})
      BY <3>1, PiecesChange
    <3> QED
      BY <3>2, <3>3, <3>4
  <2>10. Divided(Pieces', swap_end')
    <3>1. PICK q : q = Piece("hand", t, x)
      OBVIOUS
    <3>2. q.extent = Extent(swap_end, k)
      BY <2>1, <3>1, PieceFacts
    <3>3. Divided(Pieces, swap_end)
      BY DEF Inv
    <3>4. Divided(Pieces \union {q}, swap_end + k)
      BY <1>4, <1>7, <3>2, <3>3, AddPiece
    <3> QED
      BY <1>11, <2>9, <3>1, <3>4
  <2>11. Joined'
    <3>1. \A y, z \in free : z.addr # End(y)
      BY DEF Inv, Joined, After, End
    <3>2. \A y \in free : End(y) # swap_end'
      <4>1. \A y \in free : End(y) <= swap_end /\ y \in Ext
        BY ExtentFacts
      <4> QED
        BY <1>4, <1>7, <1>11, <4>1 DEF End, Ext
    <3> QED
      BY <1>8, <3>1, <3>2 DEF Joined, After, End
  <2>12. Typed'
    <3>1. dirty' \subseteq dirty
      BY <1>11 DEF Extended, Zeroed
    <3>2. swap_end' \in 0 .. SwapMax
      BY <1>4, <1>7, <1>11, ChunksAssumption
    <3> QED
      BY <1>7, <1>8, <2>7, <3>1, <3>2 DEF Typed, Moved
  <2> QED
    BY <2>8, <2>10, <2>11, <2>12 DEF Inv
<1> QED
  BY <1>9, <1>10, <1>11 DEF Extend


\* The extent is recorded with the node of the one after it, or a node is asked for.
LEMMA DeallocStep ==
    ASSUME Inv, NEW t \in Threads, Dealloc(t)
    PROVE  Inv'
<1>0. PICK e : e = Extent(Arg(t).addr, Arg(t).size)
  OBVIOUS
<1>1. calls[t] # << >> /\ Head(calls[t]).do = "dealloc"
  BY DEF Dealloc, At
<1>2. CallFor(t, e)
  BY <1>0, <1>1 DEF CallFor, Named, Arg
<1>3. Typed /\ OtherTypes
  BY OtherTypesNow DEF Inv
<1>4. UNCHANGED <<base_nodes, base_left, base_chunks, huge, local, dirty, leaked, nodeless, ops>>
  BY DEF Dealloc, baseVars, rest
<1>5. ASSUME After(e) # {}, Recorded(t, e, 0, Rest(t))
      PROVE  Inv'
  <2>1. PICK nodes \in {0, 1} : nodes = 0
    OBVIOUS
  <2>2. Recorded(t, e, nodes, Rest(t)) /\ (nodes = 0 => After(e) # {})
    BY <1>5, <2>1
  <2>3. /\ owner' \in [Mutexes -> Threads \union {NoThread}]
        /\ calls' \in [Threads -> Seq(CallSet)] /\ local' \in [Threads -> LocalSet]
        /\ swap_end' \in 0 .. SwapMax
        /\ Scripts' /\ Divided(Pieces', swap_end') /\ Joined'
    BY <1>2, <1>4, <2>2, RecordedStep
  <2>4. Typed'
    BY <1>3, <1>4, <2>3 DEF Typed
  <2> QED
    BY <2>3, <2>4 DEF Inv
<1>6. ASSUME Goto(t, <<Do("base_node_alloc"), Call("dealloc2", e.addr, e.size)>> \o Rest(t)),
             UNCHANGED <<swap_end, free, owner>>
      PROVE  Inv'
  <2>0. PICK s, ret : s = calls[t] /\ ret = local[t].ret
    OBVIOUS
  <2>1. /\ s \in Seq(CallSet) /\ Script(s) /\ Several(s, ret) /\ InHand(t) = HandOf(s, ret)
        /\ Len(s) \in Nat \ {0} /\ Head(s) = s[1] /\ Tail(s) \in Seq(CallSet) /\ Rest(t) = Tail(s)
        /\ Len(Tail(s)) = Len(s) - 1 /\ Replaced(Tail(s), 0, s, 1) /\ Follows(s, 1)
        /\ s[1] \in CallSet
    BY <1>1, <2>0, HeadFacts
  <2>2. /\ Named(s[1]) /\ e = Extent(s[1].addr, s[1].size) /\ e \in Ext
        /\ \A j \in 2 .. Len(s) : ~User(s[j])
    <3>1. Named(s[1]) /\ e = Extent(s[1].addr, s[1].size)
      BY <1>0, <1>1, <2>0, <2>1 DEF Named, Arg
    <3> QED
      BY <2>1, <3>1 DEF Follows, Closing
  <2>3. PICK c \in CallSet : /\ c = Call("dealloc2", e.addr, e.size) /\ c.do = "dealloc2"
                             /\ c.addr = e.addr /\ c.size = e.size
    <3>1. e.addr \in Int /\ e.size \in Int
      BY <2>2 DEF Ext
    <3> QED
      BY <3>1, CallFacts DEF Dos
  <2>4. PICK b \in CallSet : b = Do("base_node_alloc") /\ b.do = "base_node_alloc"
    BY CallFacts DEF Dos
  <2>5. PICK p : p = <<b, c>>
    OBVIOUS
  <2>6. p \in Seq(CallSet) /\ Len(p) = 2 /\ p[1] = b /\ p[2] = c
    BY <2>5
  <2>7. PICK u : u = Tail(s)
    OBVIOUS
  <2>8. /\ Replaced(p \o u, Len(p), s, 1) /\ p \o u \in Seq(CallSet)
        /\ Len(p \o u) = Len(p) + Len(u)
        /\ \A k \in 1 .. Len(p) : (p \o u)[k] = p[k]
    <3>1. u \in Seq(CallSet) /\ Replaced(u, 0, s, 1) /\ Len(s) \in Nat
      BY <2>1, <2>7
    <3> QED
      BY <2>6, <3>1, PushReplaced
  <2>9. PICK n : n = p \o u
    OBVIOUS
  <2>10. /\ n \in Seq(CallSet) /\ Replaced(n, 2, s, 1) /\ Len(n) = Len(s) + 1
         /\ n[1] = b /\ n[2] = c /\ Goto(t, n)
    <3>1. /\ n \in Seq(CallSet) /\ Replaced(n, 2, s, 1) /\ Len(n) = Len(s) + 1
          /\ n[1] = b /\ n[2] = c
      BY <2>1, <2>6, <2>7, <2>8, <2>9
    <3>2. Goto(t, n)
      BY <1>6, <2>1, <2>3, <2>4, <2>5, <2>7, <2>9
    <3> QED
      BY <3>1, <3>2
  <2>11. ASSUME NEW k \in 3 .. Len(n)
         PROVE  n[k] = s[k - 1] /\ k - 1 \in 2 .. Len(s)
    <3>1. k - 2 \in 1 .. Len(s) - 1 /\ 2 + (k - 2) = k /\ 1 + (k - 2) = k - 1
      BY <2>1, <2>10
    <3>2. n[2 + (k - 2)] = s[1 + (k - 2)]
      BY <2>10, <3>1 DEF Replaced
    <3> QED
      BY <2>1, <2>10, <3>1, <3>2
  <2>12. \A k \in 1 .. Len(n) : k = 1 \/ k = 2 \/ k \in 3 .. Len(n)
    BY <2>10
  <2>13. \A k \in 1 .. Len(n) : ~User(n[k])
    <3>1. ~User(n[1]) /\ ~User(n[2])
      BY <2>3, <2>4, <2>10 DEF User
    <3> QED
      BY <2>2, <2>11, <2>12, <3>1
  <2>14. \A k \in 1 .. Len(s) : ~User(s[k])
    <3>1. ~User(s[1])
      BY <2>2 DEF User, Named
    <3> QED
      BY <2>1, <2>2, <3>1
  <2>15. Script(n)
    <3>1. Follows(n, 1)
      <4>1. 1 < Len(n) /\ n[1 + 1] = c
        BY <2>1, <2>10
      <4> QED
        BY <2>3, <2>4, <2>10, <4>1 DEF Follows, Named, Closing
    <3>2. Follows(n, 2)
      <4>1. Extent(n[2].addr, n[2].size) = e
        BY <2>2, <2>3, <2>10 DEF Extent, Ext
      <4>2. n[2].do = "dealloc2" /\ \A j \in 2 + 1 .. Len(n) : ~User(n[j])
        BY <2>3, <2>10, <2>13
      <4> QED
        BY <2>2, <4>1, <4>2 DEF Follows
    <3>3. \A k \in 1 .. 2 : Follows(n, k)
      <4>1. \A k \in 1 .. 2 : k = 1 \/ k = 2
        OBVIOUS
      <4> QED
        BY <3>1, <3>2, <4>1
    <3> QED
      BY <2>1, <2>10, <3>3, ScriptReplaced
  <2>16. /\ Claims(n, ret) = {k \in 1 .. Len(n) : Named(n[k])}
         /\ Claims(s, ret) = {k \in 1 .. Len(s) : Named(s[k])}
    BY <2>1, <2>10, <2>13, <2>14 DEF Claims
  <2>17. ~Named(n[1]) /\ Named(n[2]) /\ Claim(n, ret, 2) = e /\ Claim(s, ret, 1) = e
    <3>1. ~Named(n[1]) /\ Named(n[2])
      BY <2>3, <2>4, <2>10 DEF Named
    <3>2. Claim(n, ret, 2) = e
      BY <2>2, <2>3, <2>10, <3>1 DEF Claim, Extent, Ext
    <3> QED
      BY <2>2, <3>1, <3>2 DEF Claim
  <2>18. PICK d \in Int : d = 1 - 2
    OBVIOUS
  <2>19. Kept(n, ret, {}, s, ret, {}, d)
    <3>1. ASSUME NEW k \in Claims(n, ret)
          PROVE  k + d \in Claims(s, ret) /\ Claim(n, ret, k) = Claim(s, ret, k + d)
      <4>1. CASE k = 2
        <5>1. k + d = 1
          BY <2>18, <4>1
        <5> QED
          BY <2>1, <2>2, <2>16, <2>17, <4>1, <5>1
      <4>2. CASE k \in 3 .. Len(n)
        <5>1. k + d = k - 1
          BY <2>18, <4>2
        <5>2. n[k] = s[k - 1] /\ k - 1 \in 1 .. Len(s) /\ Named(n[k])
          BY <2>1, <2>11, <2>16, <4>2
        <5> QED
          BY <2>16, <5>1, <5>2 DEF Claim
      <4> QED
        BY <2>12, <2>16, <2>17, <4>1, <4>2
    <3>2. ASSUME NEW k \in Claims(s, ret)
          PROVE  k - d \in Claims(n, ret) /\ Claim(n, ret, k - d) = Claim(s, ret, k)
      <4>1. k - d = k + 1 /\ k \in 1 .. Len(s) /\ Named(s[k])
        BY <2>16, <2>18
      <4>2. CASE k = 1
        <5>1. k - d = 2 /\ 2 \in 1 .. Len(n)
          BY <2>1, <2>10, <4>1, <4>2
        <5> QED
          BY <2>16, <2>17, <4>2, <5>1
      <4>3. CASE k # 1
        <5>1. k + 1 \in 3 .. Len(n) /\ k + 1 - 1 = k /\ k + 1 \in 1 .. Len(n)
          BY <2>1, <2>10, <4>1, <4>3
        <5>2. n[k + 1] = s[k]
          <6>1. PICK l \in 3 .. Len(n) : l = k + 1
            BY <5>1
          <6>2. n[l] = s[l - 1] /\ l - 1 = k
            BY <2>11, <4>1, <6>1
          <6> QED
            BY <6>1, <6>2
        <5> QED
          BY <2>16, <4>1, <5>1, <5>2 DEF Claim
      <4> QED
        BY <4>2, <4>3
    <3> QED
      BY <3>1, <3>2 DEF Kept
  <2>20. HandOf(n, ret) = HandOf(s, ret) /\ Several(n, ret)
    <3>1. Claims(s, ret) \subseteq Int /\ Claims(n, ret) \subseteq Int
      BY <2>16
    <3>2. /\ HandOf(n, ret) = (HandOf(s, ret) \ {Claim(s, ret, k) : k \in {}})
                                 \union {Claim(n, ret, k) : k \in {}}
          /\ Several(n, ret)
      BY <2>1, <2>19, <3>1, HandKept
    <3> QED
      BY <3>2
  <2>21. Moved(t, n, ret)
    BY <1>3, <1>4, <2>0, <2>10, GotoFacts DEF Moved, Typed
  <2>22. OtherTypes'
    BY <1>3, <1>4, <1>6 DEF OtherTypes
  <2>23. HandOf(n, ret) = InHand(t)
    BY <2>1, <2>20
  <2> QED
    BY <1>4, <1>6, <2>15, <2>20, <2>21, <2>22, <2>23, QuietStep
<1> QED
  BY <1>0, <1>5, <1>6 DEF Dealloc, swapVars


\* With its node the extent is recorded; without one it goes to the end or is lost.
LEMMA DeallocWithNodeStep ==
    ASSUME Inv, NEW t \in Threads, DeallocWithNode(t)
    PROVE  Inv'
<1>0. PICK e : e = Extent(Arg(t).addr, Arg(t).size)
  OBVIOUS
<1>1. calls[t] # << >> /\ Head(calls[t]).do = "dealloc2"
  BY DEF DeallocWithNode, At
<1>2. CallFor(t, e)
  BY <1>0, <1>1 DEF CallFor, Named, Arg
<1>3. Typed /\ OtherTypes /\ swap_end \in Nat /\ Divided(Pieces, swap_end)
  BY OtherTypesNow, ExtentFacts DEF Inv
<1>4. UNCHANGED <<base_nodes, base_left, base_chunks, huge, local, dirty, ops>>
  BY DEF DeallocWithNode, baseVars
<1>5. ASSUME Recorded(t, e, 1, Rest(t)), UNCHANGED <<leaked, nodeless>>
      PROVE  Inv'
  <2>1. PICK nodes \in {0, 1} : nodes = 1
    OBVIOUS
  <2>2. Recorded(t, e, nodes, Rest(t)) /\ (nodes = 0 => After(e) # {})
    BY <1>5, <2>1
  <2>3. /\ owner' \in [Mutexes -> Threads \union {NoThread}]
        /\ calls' \in [Threads -> Seq(CallSet)] /\ local' \in [Threads -> LocalSet]
        /\ swap_end' \in 0 .. SwapMax
        /\ Scripts' /\ Divided(Pieces', swap_end') /\ Joined'
    BY <1>2, <1>4, <1>5, <2>2, RecordedStep
  <2>4. Typed'
    BY <1>3, <1>4, <2>3 DEF Typed
  <2> QED
    BY <2>3, <2>4 DEF Inv
<1>6. ASSUME Unrecorded(t, e, Rest(t))
      PROVE  Inv'
  <2>1. nodeless' = TRUE /\ free' = free /\ Leave(t, 0, Rest(t))
    BY <1>6 DEF Unrecorded
  <2>2. /\ owner' \in [Mutexes -> Threads \union {NoThread}]
        /\ calls' \in [Threads -> Seq(CallSet)] /\ local' \in [Threads -> LocalSet]
        /\ Scripts' /\ e \in InHand(t) /\ InHand(t)' = InHand(t) \ {e}
        /\ \A u \in Threads \ {t} : InHand(u)' = InHand(u)
    <3>1. PICK nodes \in Nat : nodes = 0
      OBVIOUS
    <3>2. Leave(t, nodes, Rest(t))
      BY <2>1, <3>1
    <3> QED
      BY <1>2, <1>4, <3>2, RecordedCalls
  <2>3. PICK q : q = Piece("hand", t, e)
    OBVIOUS
  <2>4. q \in Pieces /\ q.extent = e /\ e \in Ext /\ End(e) <= swap_end
    BY <2>2, <2>3, ExtentFacts, PieceFacts
  <2>5. Joined'
    BY <2>1 DEF Inv, Joined, After
  <2>6. ASSUME End(e) = swap_end, swap_end' = e.addr, leaked' = leaked
        PROVE  Inv'
    <3>1. Pieces' = Pieces \ {q}
      <4>1. Change(t, {}, {}, {}, {}, {}, {}, {e}, {})
        BY <1>4, <2>1, <2>2, <2>6 DEF Change
      <4>2. Gone(t, {}, {}, {e}) = {q}
        BY <2>3 DEF Gone, PieceSet
      <4>3. Come(t, {}, {}, {}, {}, {}) = {}
        BY DEF Come, Gone, PieceSet, Single
      <4>4. Pieces' = (Pieces \ Gone(t, {}, {}, {e})) \union Come(t, {}, {}, {}, {}, {})
        BY <4>1, PiecesChange
      <4> QED
        BY <4>2, <4>3, <4>4
    <3>2. Divided(Pieces \ {q}, q.extent.addr) /\ q.extent.addr \in Nat /\ q.extent.addr < swap_end
      BY <1>3, <2>4, <2>6, DropPiece
    <3>3. Divided(Pieces', swap_end') /\ swap_end' \in 0 .. SwapMax
      BY <1>3, <2>4, <2>6, <3>1, <3>2, ChunksAssumption DEF Typed
    <3>4. Typed'
      BY <1>3, <1>4, <2>2, <3>3 DEF Typed
    <3> QED
      BY <2>2, <2>5, <3>3, <3>4 DEF Inv
  <2>7. ASSUME leaked' = leaked \union ChunksOf(e), swap_end' = swap_end
        PROVE  Inv'
    <3>1. PICK L : L = ChunksOf(e)
      OBVIOUS
    <3>2. PICK N : N = PieceSet("leaked", NoThread, Single(L))
      OBVIOUS
    <3>3. Pieces' = (Pieces \ {q}) \union N
      <4>1. Change(t, {}, {}, {}, {}, {}, L, {e}, {})
        BY <1>4, <2>1, <2>2, <2>7, <3>1 DEF Change
      <4>2. Gone(t, {}, {}, {e}) = {q}
        BY <2>3 DEF Gone, PieceSet
      <4>3. Come(t, {}, {}, {}, L, {}) = N
        BY <3>2 DEF Come, Gone, PieceSet, Single
      <4>4. Pieces' = (Pieces \ Gone(t, {}, {}, {e})) \union Come(t, {}, {}, {}, L, {})
        BY <4>1, PiecesChange
      <4> QED
        BY <4>2, <4>3, <4>4
    <3>4. e.addr \in Nat /\ e.size \in Nat \ {0} /\ End(e) = e.addr + e.size
      BY <2>4 DEF Ext, End
    <3>5. \A c \in L : c \in Nat /\ e.addr <= c /\ c < e.addr + e.size
      BY <3>1, <3>4 DEF ChunksOf
    <3>6. \A m \in N : \E c \in L : m = Piece("leaked", NoThread, Extent(c, 1)) /\ m.extent = Extent(c, 1)
      BY <3>2, PieceFacts DEF PieceSet, Single
    <3>7. ASSUME NEW c \in L
          PROVE  /\ Extent(c, 1) \in Ext /\ Inside(Extent(c, 1), e)
                 /\ Extent(c, 1).addr = c /\ End(Extent(c, 1)) = c + 1 /\ c \in Nat
      BY <3>4, <3>5 DEF Extent, Ext, Inside, End
    <3>8. \A m \in N : m.extent \in Ext /\ Inside(m.extent, q.extent)
      BY <2>4, <3>6, <3>7
    <3>9. ASSUME NEW m \in N, NEW o \in N, m # o
          PROVE  Apart(m.extent, o.extent)
      <4>1. PICK c \in L : m = Piece("leaked", NoThread, Extent(c, 1)) /\ m.extent = Extent(c, 1)
        BY <3>6
      <4>2. PICK d \in L : o = Piece("leaked", NoThread, Extent(d, 1)) /\ o.extent = Extent(d, 1)
        BY <3>6
      <4>3. c # d
        BY <3>9, <4>1, <4>2
      <4>4. End(m.extent) = c + 1 /\ m.extent.addr = c /\ End(o.extent) = d + 1 /\ o.extent.addr = d
            /\ c \in Nat /\ d \in Nat
        BY <3>7, <4>1, <4>2
      <4> QED
        BY <4>3, <4>4 DEF Apart
    <3>10. ASSUME NEW c \in ChunksOf(q.extent)
           PROVE  \E m \in N : c \in ChunksOf(m.extent)
      <4>1. c \in L
        BY <2>4, <3>1
      <4>2. PICK m : m = Piece("leaked", NoThread, Extent(c, 1))
        OBVIOUS
      <4>3. m \in N /\ m.extent = Extent(c, 1)
        BY <3>2, <4>1, <4>2, PieceFacts DEF PieceSet, Single
      <4>4. c \in ChunksOf(Extent(c, 1))
        BY <3>5, <4>1 DEF ChunksOf, Extent
      <4> QED
        BY <4>3, <4>4
    <3>11. Divided((Pieces \ {q}) \union N, swap_end)
      BY <1>3, <2>4, <3>8, <3>9, <3>10, SplitPiece
    <3>12. Typed'
      BY <1>3, <1>4, <2>2, <2>7 DEF Typed
    <3> QED
      BY <2>2, <2>5, <2>7, <3>3, <3>11, <3>12 DEF Inv
  <2> QED
    BY <1>6, <2>6, <2>7 DEF Unrecorded, End
<1> QED
  BY <1>0, <1>5, <1>6 DEF DeallocWithNode


\* The extent a call names.
NamedExtent(c) == Extent(c.addr, c.size)

\* The calls n name extents that divide x.
CutInto(n, x) ==
    /\ \A k \in 1 .. Len(n) : /\ n[k].do \in {"dealloc", "insert"}
                              /\ NamedExtent(n[k]) \in Ext /\ Inside(NamedExtent(n[k]), x)
    /\ \A j, k \in 1 .. Len(n) : j # k => Apart(NamedExtent(n[j]), NamedExtent(n[k]))
    /\ \A c \in ChunksOf(x) : \E k \in 1 .. Len(n) : c \in ChunksOf(NamedExtent(n[k]))

\* What a thread has in its hand is cut, and its calls name the parts.
LEMMA CutStep ==
    ASSUME Inv, NEW t \in Threads, NEW x, InHand(t) = {x}, NEW n \in Seq(CallSet), CutInto(n, x),
           NEW r, Moved(t, n, r), OtherTypes',
           UNCHANGED <<swap_end, free, huge, base_chunks, leaked, nodeless>>
    PROVE  Inv'
<1>1. /\ \A k \in 1 .. Len(n) : /\ n[k].do \in {"dealloc", "insert"}
                                /\ NamedExtent(n[k]) \in Ext /\ Inside(NamedExtent(n[k]), x)
      /\ \A j, k \in 1 .. Len(n) : j # k => Apart(NamedExtent(n[j]), NamedExtent(n[k]))
      /\ \A c \in ChunksOf(x) : \E k \in 1 .. Len(n) : c \in ChunksOf(NamedExtent(n[k]))
  BY DEF CutInto
<1>2. \A k \in 1 .. Len(n) : Named(n[k]) /\ ~User(n[k])
  BY <1>1 DEF Named, User
<1>3. Claims(n, r) = 1 .. Len(n) /\ \A k \in 1 .. Len(n) : Claim(n, r, k) = NamedExtent(n[k])
  BY <1>2 DEF Claims, Claim, NamedExtent
<1>4. Several(n, r)
  BY <1>1, <1>3 DEF Several
<1>5. Script(n)
  <2>1. \A k \in 1 .. Len(n) : Extent(n[k].addr, n[k].size) \in Ext
    BY <1>1 DEF NamedExtent
  <2>2. \A k \in 1 .. Len(n) : \A j \in k + 1 .. Len(n) : ~User(n[j])
    BY <1>2
  <2>3. \A k \in 1 .. Len(n) : Follows(n, k)
    BY <1>1, <2>1, <2>2 DEF Follows
  <2> QED
    BY <2>3 DEF Script
<1>6. PICK K : K = HandOf(n, r)
  OBVIOUS
<1>7. /\ \A e \in K : \E k \in 1 .. Len(n) : e = NamedExtent(n[k])
      /\ \A k \in 1 .. Len(n) : NamedExtent(n[k]) \in K
  BY <1>3, <1>6 DEF HandOf
<1>8. /\ Scripts' /\ InHand(t)' = K
      /\ \A u \in Threads \ {t} : InHand(u)' = InHand(u)
  BY <1>4, <1>5, <1>6, MovedHands
<1>9. PICK q : q = Piece("hand", t, x)
  OBVIOUS
<1>10. PICK N : N = PieceSet("hand", t, K)
  OBVIOUS
<1>11. q \in Pieces /\ q.extent = x /\ swap_end \in Nat /\ Divided(Pieces, swap_end)
  <2>1. x \in InHand(t)
    OBVIOUS
  <2> QED
    BY <1>9, <2>1, ExtentFacts, PieceFacts DEF Inv
<1>12. Pieces' = (Pieces \ {q}) \union N
  <2>1. Change(t, {}, {}, {}, {}, {}, {}, {x}, K)
    BY <1>8 DEF Change
  <2>2. Gone(t, {}, {}, {x}) = {q}
    BY <1>9 DEF Gone, PieceSet
  <2>3. Come(t, {}, {}, {}, {}, K) = N
    BY <1>10 DEF Come, Gone, PieceSet, Single
  <2>4. Pieces' = (Pieces \ Gone(t, {}, {}, {x})) \union Come(t, {}, {}, {}, {}, K)
    BY <2>1, PiecesChange
  <2> QED
    BY <2>2, <2>3, <2>4
<1>13. \A m \in N : m.extent \in K /\ m = Piece("hand", t, m.extent)
  BY <1>10, PieceFacts DEF PieceSet
<1>14. \A m \in N : m.extent \in Ext /\ Inside(m.extent, q.extent)
  BY <1>1, <1>7, <1>11, <1>13
<1>15. \A m, o \in N : m # o => Apart(m.extent, o.extent)
  <2> SUFFICES ASSUME NEW m \in N, NEW o \in N, m # o
               PROVE  Apart(m.extent, o.extent)
    OBVIOUS
  <2>1. m.extent # o.extent
    BY <1>13
  <2>2. PICK j \in 1 .. Len(n) : m.extent = NamedExtent(n[j])
    BY <1>7, <1>13
  <2>3. PICK k \in 1 .. Len(n) : o.extent = NamedExtent(n[k])
    BY <1>7, <1>13
  <2> QED
    BY <1>1, <2>1, <2>2, <2>3
<1>16. \A c \in ChunksOf(q.extent) : \E m \in N : c \in ChunksOf(m.extent)
  <2> SUFFICES ASSUME NEW c \in ChunksOf(q.extent)
               PROVE  \E m \in N : c \in ChunksOf(m.extent)
    OBVIOUS
  <2>1. PICK k \in 1 .. Len(n) : c \in ChunksOf(NamedExtent(n[k]))
    BY <1>1, <1>11
  <2>2. PICK m : m = Piece("hand", t, NamedExtent(n[k]))
    OBVIOUS
  <2>3. m \in N /\ m.extent = NamedExtent(n[k])
    BY <1>7, <1>10, <2>2, PieceFacts DEF PieceSet
  <2> QED
    BY <2>1, <2>3
<1>17. Divided(Pieces', swap_end')
  <2>1. Divided((Pieces \ {q}) \union N, swap_end)
    BY <1>11, <1>14, <1>15, <1>16, SplitPiece
  <2> QED
    BY <1>12, <2>1
<1>18. Joined'
  BY DEF Inv, Joined, After
<1>19. Typed'
  BY DEF Inv, Typed, OtherTypes, Moved
<1> QED
  BY <1>8, <1>17, <1>18, <1>19 DEF Inv

\* Where the aligned part of what was asked for lies.
LEMMA TrimFits ==
    ASSUME NEW s \in Nat \ {0}, NEW align \in Nat \ {0}, NEW ret \in Nat,
           NEW lead, lead = (align - (ret % align)) % align,
           NEW trail, trail = AllocSize(s, align) - lead - s
    PROVE  lead \in Nat /\ trail \in Nat /\ AllocSize(s, align) = lead + s + trail
<1>1. lead \in 0 .. align - 1
  OBVIOUS
<1>2. AllocSize(s, align) \in Int /\ AllocSize(s, align) >= lead + s
  <2>1. CASE s >= align
    BY <1>1, <2>1 DEF AllocSize
  <2>2. CASE ~(s >= align)
    BY <1>1, <2>2 DEF AllocSize
  <2> QED
    BY <2>1, <2>2
<1>3. PICK a \in Int : a = AllocSize(s, align)
  BY <1>2
<1> QED
  BY <1>1, <1>2, <1>3


\* Calls p, then q, then c.
Row(n, p, q, c) == n = p \o q \o <<c>>

\* The calls of a row by their index.
LEMMA RowIs ==
    ASSUME NEW p \in Seq(CallSet), NEW q \in Seq(CallSet), NEW c \in CallSet,
           NEW n, Row(n, p, q, c)
    PROVE  /\ n \in Seq(CallSet) /\ Len(n) = Len(p) + Len(q) + 1
           /\ Len(p) \in Nat /\ Len(q) \in Nat
           /\ \A k \in 1 .. Len(p) : n[k] = p[k]
           /\ \A k \in 1 .. Len(q) : n[Len(p) + k] = q[k]
           /\ n[Len(n)] = c
<1>0. p \o q \in Seq(CallSet) /\ <<c>> \in Seq(CallSet)
  OBVIOUS
<1>1. PICK u \in Seq(CallSet) : u = p \o q
  BY <1>0
<1>2. /\ Len(p) \in Nat /\ Len(q) \in Nat /\ Len(u) = Len(p) + Len(q)
      /\ \A k \in 1 .. Len(p) : u[k] = p[k]
      /\ \A k \in 1 .. Len(q) : u[Len(p) + k] = q[k]
  <2>1. Len(p) \in Nat /\ Len(q) \in Nat /\ Len(u) = Len(p) + Len(q)
    BY <1>1
  <2>2. \A k \in 1 .. Len(p) : (p \o q)[k] = p[k]
    OBVIOUS
  <2>3. \A k \in 1 .. Len(q) : (p \o q)[Len(p) + k] = q[k]
    OBVIOUS
  <2> QED
    BY <1>1, <2>1, <2>2, <2>3
<1>3. PICK v \in Seq(CallSet) : v = <<c>> /\ Len(v) = 1 /\ v[1] = c
  BY <1>0
<1>4. /\ n \in Seq(CallSet) /\ Len(n) = Len(u) + 1
      /\ \A k \in 1 .. Len(u) : n[k] = u[k]
      /\ n[Len(u) + 1] = c
  <2>1. n = u \o v
    BY <1>1, <1>3 DEF Row
  <2>2. u \o v \in Seq(CallSet) /\ Len(u \o v) = Len(u) + Len(v)
    BY ConcatProperties
  <2>3. \A k \in 1 .. Len(u) : (u \o v)[k] = u[k]
    OBVIOUS
  <2>4. \A k \in 1 .. Len(v) : (u \o v)[Len(u) + k] = v[k]
    OBVIOUS
  <2>5. (u \o v)[Len(u) + 1] = v[1]
    BY <1>3, <2>4
  <2> QED
    BY <1>3, <2>1, <2>2, <2>3, <2>5
<1>5. \A k \in 1 .. Len(p) : k \in 1 .. Len(u)
  BY <1>2
<1>6. ASSUME NEW k \in 1 .. Len(q)
      PROVE  n[Len(p) + k] = q[k]
  <2>1. Len(p) + k \in 1 .. Len(u)
    BY <1>2
  <2>2. u[Len(p) + k] = q[k]
    BY <1>2
  <2> QED
    BY <1>4, <2>1, <2>2
<1> QED
  BY <1>2, <1>4, <1>5, <1>6

\* p gives back size chunks at addr with the call d, if that is any.
IsCall(d, what, addr, size) == d \in CallSet /\ d.do = what /\ d.addr = addr /\ d.size = size
GivenBack(p, d, addr, size) ==
    /\ IsCall(d, "dealloc", addr, size) /\ p \in Seq(CallSet)
    /\ size = 0 => Len(p) = 0
    /\ size # 0 => Len(p) = 1 /\ p[1] = d

\* What is trimmed: s chunks of those at ret, after lead and before trail that go back.
LEMMA TrimCuts ==
    ASSUME NEW s \in Nat \ {0}, NEW ret \in Nat, NEW lead \in Nat, NEW trail \in Nat,
           NEW d, NEW p, GivenBack(p, d, ret, lead), NEW f, NEW q, GivenBack(q, f, ret + lead + s, trail),
           NEW c, IsCall(c, "insert", ret + lead, s),
           NEW n, Row(n, p, q, c), NEW x, x = Extent(ret, lead + s + trail)
    PROVE  CutInto(n, x) /\ n \in Seq(CallSet)
<1>a. /\ d \in CallSet /\ d.do = "dealloc" /\ d.addr = ret /\ d.size = lead
      /\ f \in CallSet /\ f.do = "dealloc" /\ f.addr = ret + lead + s /\ f.size = trail
      /\ c \in CallSet /\ c.do = "insert" /\ c.addr = ret + lead /\ c.size = s
  BY DEF GivenBack, IsCall
<1>b. /\ p \in Seq(CallSet) /\ (lead = 0 => Len(p) = 0) /\ (lead # 0 => Len(p) = 1 /\ p[1] = d)
      /\ q \in Seq(CallSet) /\ (trail = 0 => Len(q) = 0) /\ (trail # 0 => Len(q) = 1 /\ q[1] = f)
  BY DEF GivenBack
<1>1. /\ n \in Seq(CallSet) /\ Len(n) = Len(p) + Len(q) + 1
      /\ Len(p) \in Nat /\ Len(q) \in Nat
      /\ \A k \in 1 .. Len(p) : n[k] = p[k]
      /\ \A k \in 1 .. Len(q) : n[Len(p) + k] = q[k]
      /\ n[Len(n)] = c
  BY <1>a, <1>b, RowIs
<1>2. ASSUME NEW k \in 1 .. Len(n)
      PROVE  \/ k = 1 /\ lead # 0 /\ n[k] = d
             \/ k = Len(n) - 1 /\ trail # 0 /\ n[k] = f
             \/ k = Len(n) /\ n[k] = c
  <2>1. CASE k \in 1 .. Len(p)
    BY <1>1, <1>b, <2>1
  <2>2. CASE k \in Len(p) + 1 .. Len(p) + Len(q)
    <3>1. Len(q) # 0
      BY <1>1, <2>2
    <3>2. trail # 0 /\ Len(q) = 1 /\ q[1] = f
      BY <1>b, <3>1
    <3>3. k = Len(p) + 1 /\ k = Len(n) - 1
      BY <1>1, <2>2, <3>2
    <3>4. n[Len(p) + 1] = q[1]
      BY <1>1, <3>2
    <3> QED
      BY <3>2, <3>3, <3>4
  <2>3. CASE k = Len(n)
    BY <1>1, <2>3
  <2>4. \/ k \in 1 .. Len(p) \/ k \in Len(p) + 1 .. Len(p) + Len(q) \/ k = Len(n)
    BY <1>1
  <2> QED
    BY <2>1, <2>2, <2>3, <2>4
<1>3. lead # 0 => 1 \in 1 .. Len(n) /\ n[1] = d
  BY <1>1, <1>b
<1>4. trail # 0 => Len(n) - 1 \in 1 .. Len(n) /\ n[Len(n) - 1] = f
  <2> SUFFICES ASSUME trail # 0
               PROVE  Len(n) - 1 \in 1 .. Len(n) /\ n[Len(n) - 1] = f
    OBVIOUS
  <2>0. Len(q) = 1 /\ q[1] = f
    BY <1>b
  <2>1. Len(q) = 1 /\ q[1] = f /\ Len(n) - 1 = Len(p) + 1
    BY <1>1, <2>0
  <2>2. n[Len(p) + 1] = q[1]
    BY <1>1, <2>1
  <2> QED
    BY <1>1, <2>1, <2>2
<1>5. Len(n) \in 1 .. Len(n)
  BY <1>1
<1>6. /\ NamedExtent(d).addr = ret /\ NamedExtent(d).size = lead
      /\ NamedExtent(d) = Extent(ret, lead) /\ End(NamedExtent(d)) = ret + lead
      /\ NamedExtent(f).addr = ret + lead + s /\ NamedExtent(f).size = trail
      /\ NamedExtent(f) = Extent(ret + lead + s, trail) /\ End(NamedExtent(f)) = ret + lead + s + trail
      /\ NamedExtent(c).addr = ret + lead /\ NamedExtent(c).size = s
      /\ NamedExtent(c) = Extent(ret + lead, s) /\ End(NamedExtent(c)) = ret + lead + s
      /\ x.addr = ret /\ x.size = lead + s + trail /\ End(x) = ret + (lead + s + trail)
  BY <1>a DEF NamedExtent, Extent, End
<1>7. /\ lead # 0 => NamedExtent(d) \in Ext /\ Inside(NamedExtent(d), x)
      /\ trail # 0 => NamedExtent(f) \in Ext /\ Inside(NamedExtent(f), x)
      /\ NamedExtent(c) \in Ext /\ Inside(NamedExtent(c), x)
  <2>1. /\ lead # 0 => Extent(ret, lead) \in Ext
        /\ trail # 0 => Extent(ret + lead + s, trail) \in Ext
        /\ Extent(ret + lead, s) \in Ext
    BY DEF Extent, Ext
  <2>2. /\ Inside(NamedExtent(d), x) /\ Inside(NamedExtent(f), x) /\ Inside(NamedExtent(c), x)
    BY <1>6 DEF Inside
  <2> QED
    BY <1>6, <2>1, <2>2
<1>8. /\ Apart(NamedExtent(d), NamedExtent(f)) /\ Apart(NamedExtent(d), NamedExtent(c))
      /\ Apart(NamedExtent(f), NamedExtent(c)) /\ Apart(NamedExtent(f), NamedExtent(d))
      /\ Apart(NamedExtent(c), NamedExtent(d)) /\ Apart(NamedExtent(c), NamedExtent(f))
  BY <1>6 DEF Apart
<1>9. \A k \in 1 .. Len(n) : /\ n[k].do \in {"dealloc", "insert"}
                             /\ NamedExtent(n[k]) \in Ext /\ Inside(NamedExtent(n[k]), x)
  BY <1>a, <1>2, <1>7
<1>10. ASSUME NEW j \in 1 .. Len(n), NEW k \in 1 .. Len(n), j # k
       PROVE  Apart(NamedExtent(n[j]), NamedExtent(n[k]))
  <2>1. \/ j = 1 /\ n[j] = d
        \/ j = Len(n) - 1 /\ n[j] = f
        \/ j = Len(n) /\ n[j] = c
    BY <1>2
  <2>2. \/ k = 1 /\ n[k] = d
        \/ k = Len(n) - 1 /\ n[k] = f
        \/ k = Len(n) /\ n[k] = c
    BY <1>2
  <2>3. CASE n[j] = d
    BY <1>8, <1>10, <2>1, <2>2, <2>3
  <2>4. CASE n[j] = f
    BY <1>8, <1>10, <2>1, <2>2, <2>4
  <2>5. CASE n[j] = c
    BY <1>8, <1>10, <2>1, <2>2, <2>5
  <2> QED
    BY <2>1, <2>3, <2>4, <2>5
<1>11. ASSUME NEW a \in ChunksOf(x)
       PROVE  \E k \in 1 .. Len(n) : a \in ChunksOf(NamedExtent(n[k]))
  <2>1. a \in Int /\ ret <= a /\ a <= ret + (lead + s + trail) - 1
    BY <1>6 DEF ChunksOf
  <2>2. CASE a < ret + lead
    <3>1. lead # 0
      BY <2>1, <2>2
    <3>2. a \in ChunksOf(NamedExtent(d))
      BY <1>6, <2>1, <2>2 DEF ChunksOf
    <3> QED
      BY <1>3, <3>1, <3>2
  <2>3. CASE ret + lead <= a /\ a < ret + lead + s
    <3>1. a \in ChunksOf(NamedExtent(c))
      BY <1>6, <2>1, <2>3 DEF ChunksOf
    <3> QED
      BY <1>1, <1>5, <3>1
  <2>4. CASE ret + lead + s <= a
    <3>1. trail # 0
      BY <2>1, <2>4
    <3>2. a \in ChunksOf(NamedExtent(f))
      BY <1>6, <2>1, <2>4 DEF ChunksOf
    <3> QED
      BY <1>4, <3>1, <3>2
  <2> QED
    BY <2>1, <2>2, <2>3, <2>4
<1> QED
  BY <1>1, <1>9, <1>10, <1>11 DEF CutInto


\* What was taken is cut into what is kept and what goes back; if nothing was, the node does.
LEMMA TrimStep ==
    ASSUME Inv, NEW t \in Threads, Trim(t)
    PROVE  Inv'
<1>0. PICK s, ret : s = calls[t] /\ ret = local[t].ret
  OBVIOUS
<1>1. calls[t] # << >> /\ Head(calls[t]).do = "trim"
  BY DEF Trim, At
<1>2. /\ s \in Seq(CallSet) /\ Script(s) /\ Several(s, ret) /\ InHand(t) = HandOf(s, ret)
      /\ Len(s) \in Nat \ {0} /\ Head(s) = s[1] /\ Follows(s, 1)
  BY <1>0, <1>1, HeadFacts
<1>3. PICK align, size : align = s[1].addr /\ size = s[1].size
  OBVIOUS
<1>4. /\ s[1].do = "trim" /\ align \in Nat \ {0} /\ size \in Nat \ {0} /\ Len(s) = 1
  <2>1. s[1].do = "trim"
    BY <1>0, <1>1, <1>2
  <2>2. s[1].addr \in Nat \ {0} /\ s[1].size \in Nat \ {0} /\ Len(s) = 1
    BY <1>2, <2>1 DEF Follows
  <2> QED
    BY <1>3, <2>1, <2>2
<1>5. ~Named(s[1]) /\ User(s[1])
  BY <1>4 DEF Named, User
<1>6. Typed /\ OtherTypes /\ ret \in Int
  BY <1>0, OtherTypesNow DEF Inv, Typed, LocalSet
<1>7. UNCHANGED <<swap_end, free, base_nodes, base_left, base_chunks, huge, owner, local, dirty,
                  leaked, nodeless, ops>>
  BY DEF Trim, swapVars, baseVars, rest
<1>8. OtherTypes'
  BY <1>6, <1>7 DEF OtherTypes
<1>9. Arg(t).addr = align /\ Arg(t).size = size
  BY <1>0, <1>2, <1>3 DEF Arg
<1>10. ASSUME ret = NULL, NEW n, n = <<Do("base_node_dealloc")>>, Goto(t, n)
       PROVE  Inv'
  <2>1. n \in Seq(CallSet) /\ Len(n) = 1 /\ n[1].do = "base_node_dealloc"
    BY <1>10, CallFacts DEF Dos
  <2>2. ~Named(n[1]) /\ ~User(n[1])
    BY <2>1 DEF Named, User
  <2>3. Claims(n, ret) = {} /\ Claims(s, ret) = {}
    BY <1>4, <1>5, <1>10, <2>1, <2>2 DEF Claims
  <2>4. HandOf(n, ret) = InHand(t) /\ Several(n, ret)
    BY <1>2, <2>3 DEF HandOf, Several
  <2>5. Follows(n, 1)
    BY <2>1, <2>2 DEF Follows, Closing
  <2>6. Script(n)
    BY <2>1, <2>5 DEF Script
  <2>7. Moved(t, n, ret)
    BY <1>0, <1>6, <1>7, <1>10, <2>1, GotoFacts DEF Moved, Typed
  <2> QED
    BY <1>7, <1>8, <2>4, <2>6, <2>7, QuietStep
<1>11. PICK lead, trail : /\ lead = (align - (ret % align)) % align
                          /\ trail = AllocSize(size, align) - lead - size
  OBVIOUS
<1>12. PICK p, q : /\ p = IF lead = 0 THEN << >> ELSE <<Call("dealloc", ret, lead)>>
                   /\ q = IF trail = 0 THEN << >> ELSE <<Call("dealloc", ret + lead + size, trail)>>
  OBVIOUS
<1>13. ASSUME ret # NULL, NEW c, c = Call("insert", ret + lead, size), NEW n, n = p \o q \o <<c>>,
              Goto(t, n)
       PROVE  Inv'
  <2>1. PICK x : x = Extent(ret, Taken(s[1]))
    OBVIOUS
  <2>2. Claims(s, ret) = {1} /\ Claim(s, ret, 1) = x
    BY <1>4, <1>5, <1>13, <2>1 DEF Claims, Claim
  <2>3. InHand(t) = {x}
    BY <1>2, <2>2 DEF HandOf
  <2>4. x \in Ext
    BY <1>2, <2>2 DEF Several
  <2>5. ret \in Nat
    BY <2>1, <2>4 DEF Extent, Ext
  <2>6. lead \in Nat /\ trail \in Nat /\ AllocSize(size, align) = lead + size + trail
    BY <1>4, <1>11, <2>5, TrimFits
  <2>7. x = Extent(ret, lead + size + trail)
    BY <1>3, <1>4, <2>1, <2>6 DEF Taken
  <2>8. PICK d : d = Call("dealloc", ret, lead)
    OBVIOUS
  <2>9. PICK f : f = Call("dealloc", ret + lead + size, trail)
    OBVIOUS
  <2>10. /\ IsCall(d, "dealloc", ret, lead) /\ IsCall(f, "dealloc", ret + lead + size, trail)
         /\ IsCall(c, "insert", ret + lead, size)
    <3>1. /\ ret \in Int /\ lead \in Int /\ trail \in Int /\ ret + lead + size \in Int
          /\ ret + lead \in Int /\ size \in Int
      BY <1>4, <2>5, <2>6
    <3>2. "dealloc" \in Dos /\ "insert" \in Dos
      BY DEF Dos
    <3> QED
      BY <1>13, <2>8, <2>9, <3>1, <3>2, CallFacts DEF IsCall
  <2>11. GivenBack(p, d, ret, lead)
    <3>1. lead = 0 => p \in Seq(CallSet) /\ Len(p) = 0
      BY <1>12
    <3>2. lead # 0 => p = <<d>>
      BY <1>12, <2>8
    <3>3. d \in CallSet
      BY <2>10 DEF IsCall
    <3>4. <<d>> \in Seq(CallSet) /\ Len(<<d>>) = 1 /\ <<d>>[1] = d
      BY <3>3
    <3>5. PICK v : v = <<d>> /\ v \in Seq(CallSet) /\ Len(v) = 1 /\ v[1] = d
      BY <3>4
    <3>6. lead # 0 => p = v
      BY <3>2, <3>5
    <3> QED
      BY <2>10, <3>1, <3>5, <3>6 DEF GivenBack
  <2>12. GivenBack(q, f, ret + lead + size, trail)
    <3>1. trail = 0 => q \in Seq(CallSet) /\ Len(q) = 0
      BY <1>12
    <3>2. trail # 0 => q = <<f>>
      BY <1>12, <2>9
    <3>3. f \in CallSet
      BY <2>10 DEF IsCall
    <3>4. <<f>> \in Seq(CallSet) /\ Len(<<f>>) = 1 /\ <<f>>[1] = f
      BY <3>3
    <3>5. PICK v : v = <<f>> /\ v \in Seq(CallSet) /\ Len(v) = 1 /\ v[1] = f
      BY <3>4
    <3>6. trail # 0 => q = v
      BY <3>2, <3>5
    <3> QED
      BY <2>10, <3>1, <3>5, <3>6 DEF GivenBack
  <2>13. Row(n, p, q, c)
    BY <1>13 DEF Row
  <2>14. CutInto(n, x) /\ n \in Seq(CallSet)
    BY <1>4, <2>5, <2>6, <2>7, <2>10, <2>11, <2>12, <2>13, TrimCuts
  <2>15. Moved(t, n, ret)
    BY <1>0, <1>6, <1>7, <1>13, <2>14, GotoFacts DEF Moved, Typed
  <2> QED
    BY <1>7, <1>8, <2>3, <2>14, <2>15, CutStep
<1>14. \/ ret = NULL /\ Goto(t, <<Do("base_node_dealloc")>>)
       \/ ret # NULL /\ Goto(t, p \o q \o <<Call("insert", ret + lead, size)>>)
  BY <1>0, <1>9, <1>11, <1>12 DEF Trim
<1> QED
  BY <1>10, <1>13, <1>14

\* The extent is entered in the tree of huge allocations.
LEMMA InsertStep ==
    ASSUME Inv, NEW t \in Threads, Insert(t)
    PROVE  Inv'
<1>0. PICK e : e = Extent(Arg(t).addr, Arg(t).size)
  OBVIOUS
<1>1. calls[t] # << >> /\ Head(calls[t]).do = "insert" /\ calls[t] \in Seq(CallSet)
  BY DEF Insert, At, Inv, Typed
<1>2. CallFor(t, e)
  BY <1>0, <1>1 DEF CallFor, Named, Arg
<1>3. Typed /\ OtherTypes /\ swap_end \in Nat /\ Divided(Pieces, swap_end)
  BY OtherTypesNow, ExtentFacts DEF Inv
<1>4. /\ UNCHANGED <<swap_end, free, base_nodes, base_left, base_chunks, owner, local, dirty,
                     leaked, nodeless, ops>>
      /\ huge' = huge \union {e} /\ Return(t)
  BY <1>0 DEF Insert, swapVars, baseVars, rest
<1>5. PICK r : r = local[t].ret
  OBVIOUS
<1>6. << >> \in Seq(CallSet) /\ Tail(calls[t]) \in Seq(CallSet)
  BY <1>1
<1>7. PICK p \in Seq(CallSet) : p = << >>
  BY <1>6
<1>8. PICK n \in Seq(CallSet) : n = Tail(calls[t])
  BY <1>6
<1>9. Pushed(n, p, t) /\ (\A k \in 1 .. Len(p) : Passive(p[k])) /\ Goto(t, n)
  BY <1>4, <1>6, <1>7, <1>8 DEF Pushed, Return, Rest
<1>10. /\ e \in InHand(t) /\ Script(n) /\ Several(n, r)
       /\ HandOf(n, r) = InHand(t) \ {e}
  BY <1>2, <1>9, NamedDone
<1>11. Moved(t, n, r)
  BY <1>3, <1>4, <1>5, <1>9, GotoFacts DEF Moved, Typed
<1>12. /\ Scripts' /\ InHand(t)' = InHand(t) \ {e}
       /\ \A u \in Threads \ {t} : InHand(u)' = InHand(u)
  BY <1>10, <1>11, MovedHands
<1>13. PICK q : q = Piece("hand", t, e)
  OBVIOUS
<1>14. PICK w : w = Piece("huge", NoThread, e)
  OBVIOUS
<1>15. Pieces' = (Pieces \ {q}) \union {w}
  <2>1. Change(t, {}, {}, {}, {e}, {}, {}, {e}, {})
    BY <1>4, <1>12 DEF Change
  <2>2. Gone(t, {}, {}, {e}) = {q}
    BY <1>13 DEF Gone, PieceSet
  <2>3. Come(t, {}, {e}, {}, {}, {}) = {w}
    BY <1>14 DEF Come, Gone, PieceSet, Single
  <2>4. Pieces' = (Pieces \ Gone(t, {}, {}, {e})) \union Come(t, {}, {e}, {}, {}, {})
    BY <2>1, PiecesChange
  <2> QED
    BY <2>2, <2>3, <2>4
<1>16. q \in Pieces /\ q.extent = e /\ w.extent = e
  BY <1>10, <1>13, <1>14, ExtentFacts, PieceFacts
<1>17. Divided(Pieces', swap_end')
  <2>1. Divided((Pieces \ {q}) \union {w}, swap_end)
    BY <1>3, <1>16, MovePiece
  <2> QED
    BY <1>4, <1>15, <2>1
<1>18. Joined'
  BY <1>4 DEF Inv, Joined, After
<1>19. Typed'
  BY <1>3, <1>4, <1>11 DEF Typed, Moved
<1> QED
  BY <1>12, <1>17, <1>18, <1>19 DEF Inv


----------------------------------------------------------------------------
(* Steps that take and release mutexes, and calls of the program.  *)

\* A mutex is taken, or all are released: only owner changes.
LEMMA MutexStep ==
    ASSUME Inv, NEW t \in Threads, calls[t] # << >>,
           Head(calls[t]).do \in {"lock_base", "lock_huge", "lock_swap", "postfork"}, Return(t),
           owner' \in [Mutexes -> Threads \union {NoThread}],
           UNCHANGED <<swapVars, baseVars, huge, local, dirty, rest>>
    PROVE  Inv'
<1>0. PICK s, ret : s = calls[t] /\ ret = local[t].ret
  OBVIOUS
<1>1. /\ s \in Seq(CallSet) /\ s # << >> /\ Len(s) \in Nat \ {0} /\ Head(s) = s[1] /\ Follows(s, 1)
  BY <1>0, HeadFacts
<1>2. s[1].do \in {"lock_base", "lock_huge", "lock_swap", "postfork"}
  BY <1>0, <1>1
<1>3. ~Named(s[1]) /\ ~User(s[1]) /\ ~Passive(s[1]) /\ Closing(s[1])
  BY <1>2 DEF Named, User, Passive, Closing
<1>4. Cold(s, ret)
  BY <1>1, <1>3, ColdFacts
<1>5. \A k \in 2 .. Len(s) : ~User(s[k])
  BY <1>1, <1>3 DEF Follows
<1>6. /\ ~Named(Head(calls[t])) /\ Cold(calls[t], local[t].ret)
      /\ \A k \in 2 .. Len(calls[t]) : ~User(calls[t][k])
  BY <1>0, <1>1, <1>3, <1>4, <1>5
<1>7. UNCHANGED <<swap_end, free, base_nodes, base_left, base_chunks, huge, local, dirty, leaked,
                  nodeless, ops>>
  BY DEF swapVars, baseVars, rest
<1>8. OtherTypes'
  BY <1>7, OtherTypesNow DEF OtherTypes
<1>9. /\ local' \in [Threads -> LocalSet] /\ local'[t].ret = local[t].ret
      /\ \A u \in Threads \ {t} : local'[u] = local[u]
  BY <1>7 DEF Inv, Typed
<1> QED
  BY <1>6, <1>7, <1>8, <1>9, PopStep

\* jemalloc_prefork takes a mutex.
LEMMA LockStep ==
    ASSUME Inv, NEW t \in Threads, Lock(t)
    PROVE  Inv'
<1>1. PICK m \in Mutexes : At(t, LockCall[m]) /\ Hold(t, m)
  BY DEF Lock
<1>2. calls[t] # << >> /\ Head(calls[t]).do \in {"lock_base", "lock_huge", "lock_swap", "postfork"}
  BY <1>1 DEF At, LockCall, Mutexes
<1>3. owner' \in [Mutexes -> Threads \union {NoThread}]
  BY <1>1 DEF Hold, Inv, Typed
<1> QED
  BY <1>2, <1>3, MutexStep DEF Lock

\* jemalloc_postfork releases them.
LEMMA PostforkStep ==
    ASSUME Inv, NEW t \in Threads, Postfork(t)
    PROVE  Inv'
<1>1. calls[t] # << >> /\ Head(calls[t]).do \in {"lock_base", "lock_huge", "lock_swap", "postfork"}
  BY DEF Postfork, At
<1>2. owner' \in [Mutexes -> Threads \union {NoThread}]
  BY DEF Postfork
<1> QED
  BY <1>1, <1>2, MutexStep DEF Postfork

\* A thread that calls has nothing in its hand.
LEMMA BeginFacts ==
    ASSUME Inv, NEW t \in Threads, NEW zero \in BOOLEAN, NEW n \in Seq(CallSet), Begin(t, zero, n)
    PROVE  Moved(t, n, NULL) /\ InHand(t) = {} /\ ops' \in 0 .. MaxOps
<1>1. Typed /\ calls[t] = << >> /\ Goto(t, n)
  BY DEF Inv, Begin
<1>2. InHand(t) = {}
  BY <1>1 DEF InHand, HandOf, Claims
<1>3. ops' \in 0 .. MaxOps
  BY <1>1, ChunksAssumption DEF Begin, Typed
<1>4. /\ local' \in [Threads -> LocalSet] /\ local'[t].ret = NULL
      /\ \A u \in Threads \ {t} : local'[u] = local[u]
  <2>1. local' = [local EXCEPT ![t].zero = zero, ![t].ret = NULL]
    BY DEF Begin
  <2>2. NULL \in Int /\ local \in [Threads -> LocalSet]
    BY <1>1, CallFacts DEF Typed
  <2> QED
    BY <2>1, <2>2 DEF LocalSet
<1> QED
  BY <1>1, <1>2, <1>3, <1>4, GotoFacts DEF Moved

\* huge_malloc and huge_palloc start with an empty hand.
LEMMA HugeMallocStep ==
    ASSUME Inv, NEW t \in Threads, NEW s \in Sizes, NEW align \in Aligns \union {1},
           NEW zero \in BOOLEAN, HugeMalloc(t, s, align, zero)
    PROVE  Inv'
<1>1. s \in Nat \ {0} /\ align \in Nat \ {0}
  BY ChunksAssumption
<1>2. PICK k \in Nat \ {0} : k = AllocSize(s, align)
  <2>1. AllocSize(s, align) \in Nat \ {0}
    BY <1>1 DEF AllocSize
  <2> QED
    BY <2>1
<1>3. PICK a \in CallSet, b \in CallSet, c \in CallSet, d \in CallSet :
        /\ a = Do("base_node_alloc") /\ a.do = "base_node_alloc"
        /\ b = Call("recycle", NULL, k) /\ b.do = "recycle" /\ b.size = k
        /\ c = Call("extend", NULL, k) /\ c.do = "extend" /\ c.size = k
        /\ d = Call("trim", align, s) /\ d.do = "trim" /\ d.addr = align /\ d.size = s
  BY <1>1, CallFacts DEF Dos
<1>4. PICK p, q, r : p = <<a>> /\ q = <<b, c>> /\ r = <<d>>
  OBVIOUS
<1>5. /\ p \in Seq(CallSet) /\ Len(p) = 1 /\ p[1] = a
      /\ q \in Seq(CallSet) /\ Len(q) = 2 /\ q[1] = b /\ q[2] = c
      /\ r \in Seq(CallSet) /\ Len(r) = 1 /\ r[1] = d
  BY <1>4
<1>6. PICK n : Row(n, p, q, d)
  BY DEF Row
<1>7. /\ n \in Seq(CallSet) /\ Len(n) = Len(p) + Len(q) + 1
      /\ \A j \in 1 .. Len(p) : n[j] = p[j]
      /\ \A j \in 1 .. Len(q) : n[Len(p) + j] = q[j]
      /\ n[Len(n)] = d
  <2>1. p \in Seq(CallSet) /\ q \in Seq(CallSet)
    BY <1>5
  <2> QED
    BY <1>6, <2>1, RowIs
<1>8. Len(n) = 4 /\ n[1] = a /\ n[2] = b /\ n[3] = c /\ n[4] = d
  <2>1. Len(n) = 4 /\ n[1] = a /\ n[4] = d
    BY <1>5, <1>7
  <2>2. n[1 + 1] = q[1] /\ n[1 + 2] = q[2]
    BY <1>5, <1>7
  <2> QED
    BY <1>5, <2>1, <2>2
<1>9. Begin(t, zero, n)
  <2>1. n = <<a>> \o <<b, c>> \o <<d>>
    BY <1>4, <1>6 DEF Row
  <2> QED
    BY <1>2, <1>3, <2>1 DEF HugeMalloc, ChunkAlloc
<1>10. Moved(t, n, NULL) /\ InHand(t) = {} /\ ops' \in 0 .. MaxOps
  BY <1>7, <1>9, BeginFacts
<1>11. \A j \in 1 .. Len(n) : j = 1 \/ j = 2 \/ j = 3 \/ j = 4
  BY <1>8
<1>12. \A j \in 1 .. Len(n) : ~Named(n[j])
  BY <1>3, <1>8, <1>11 DEF Named
<1>13. Claims(n, NULL) = {}
  BY <1>12 DEF Claims
<1>14. HandOf(n, NULL) = InHand(t) /\ Several(n, NULL)
  BY <1>10, <1>13 DEF HandOf, Several
<1>15. Script(n)
  <2>1. Follows(n, 1)
    <3>1. 1 < Len(n) /\ n[1 + 1] = b
      BY <1>8
    <3>2. \A j \in 1 + 1 .. Len(n) : ~Named(n[j])
      BY <1>8, <1>12
    <3> QED
      BY <1>3, <1>8, <1>12, <3>1, <3>2 DEF Follows, Named, Closing
  <2>2. Follows(n, 2)
    <3>1. 2 < Len(n) /\ n[2 + 1] = c
      BY <1>8
    <3> QED
      BY <1>3, <1>8, <3>1 DEF Follows, Named, Closing
  <2>3. Follows(n, 3)
    <3>1. 3 < Len(n) /\ n[3 + 1] = d
      BY <1>8
    <3>2. User(d) /\ Taken(d) = k
      BY <1>2, <1>3 DEF User, Taken
    <3> QED
      BY <1>3, <1>8, <3>1, <3>2 DEF Follows, Named, Closing
  <2>4. Follows(n, 4)
    <3>1. \A j \in 4 + 1 .. Len(n) : ~User(n[j])
      BY <1>8
    <3> QED
      BY <1>1, <1>3, <1>8, <3>1 DEF Follows, Named
  <2> QED
    BY <1>7, <1>11, <2>1, <2>2, <2>3, <2>4 DEF Script
<1>16. UNCHANGED <<swap_end, free, base_nodes, base_left, base_chunks, huge, owner, dirty, leaked, nodeless>>
  BY DEF HugeMalloc, swapVars, baseVars
<1>17. OtherTypes'
  BY <1>10, <1>16, OtherTypesNow DEF OtherTypes
<1> QED
  BY <1>10, <1>14, <1>15, <1>16, <1>17, QuietStep

\* So do mflush and backup.
LEMMA PreforkStep ==
    ASSUME Inv, NEW t \in Threads, Prefork(t)
    PROVE  Inv'
<1>1. PICK a \in CallSet, b \in CallSet, c \in CallSet, d \in CallSet :
        /\ a = Do("lock_base") /\ a.do = "lock_base" /\ b = Do("lock_huge") /\ b.do = "lock_huge"
        /\ c = Do("lock_swap") /\ c.do = "lock_swap" /\ d = Do("postfork") /\ d.do = "postfork"
  BY CallFacts DEF Dos
<1>2. PICK n : n = <<a, b, c, d>>
  OBVIOUS
<1>3. n \in Seq(CallSet) /\ Len(n) = 4 /\ n[1] = a /\ n[2] = b /\ n[3] = c /\ n[4] = d
  BY <1>2
<1>4. Begin(t, FALSE, n)
  BY <1>1, <1>2 DEF Prefork
<1>5. Moved(t, n, NULL) /\ InHand(t) = {} /\ ops' \in 0 .. MaxOps
  BY <1>3, <1>4, BeginFacts
<1>6. \A j \in 1 .. Len(n) : n[j].do \in {"lock_base", "lock_huge", "lock_swap", "postfork"}
  <2>1. \A j \in 1 .. Len(n) : j = 1 \/ j = 2 \/ j = 3 \/ j = 4
    BY <1>3
  <2> QED
    BY <1>1, <1>3, <2>1
<1>7. \A j \in 1 .. Len(n) : ~Named(n[j]) /\ ~User(n[j])
  BY <1>6 DEF Named, User
<1>8. Claims(n, NULL) = {}
  BY <1>7 DEF Claims
<1>9. HandOf(n, NULL) = InHand(t) /\ Several(n, NULL)
  BY <1>5, <1>8 DEF HandOf, Several
<1>10. Script(n)
  <2>1. \A k \in 1 .. Len(n) : \A j \in k + 1 .. Len(n) : ~User(n[j])
    BY <1>7
  <2>2. \A k \in 1 .. Len(n) : Follows(n, k)
    BY <1>6, <1>7, <2>1 DEF Follows
  <2> QED
    BY <1>3, <2>2 DEF Script
<1>11. UNCHANGED <<swap_end, free, base_nodes, base_left, base_chunks, huge, owner, dirty, leaked, nodeless>>
  BY DEF Prefork, swapVars, baseVars
<1>12. OtherTypes'
  BY <1>5, <1>11, OtherTypesNow DEF OtherTypes
<1> QED
  BY <1>5, <1>9, <1>10, <1>11, <1>12, QuietStep


\* What the program frees goes from the tree of huge allocations to the hand of a thread.
LEMMA HugeDallocStep ==
    ASSUME Inv, NEW t \in Threads, NEW e \in huge, HugeDalloc(t, e)
    PROVE  Inv'
<1>1. Typed /\ OtherTypes /\ swap_end \in Nat /\ Divided(Pieces, swap_end)
      /\ e \in Ext /\ End(e) <= swap_end /\ Piece("huge", NoThread, e) \in Pieces
  BY OtherTypesNow, ExtentFacts DEF Inv
<1>2. /\ UNCHANGED <<swap_end, free, base_nodes, base_left, base_chunks, owner, leaked, nodeless>>
      /\ huge' = huge \ {e} /\ dirty' = dirty \union ChunksOf(e)
  BY DEF HugeDalloc, swapVars, baseVars
<1>3. PICK a \in CallSet, b \in CallSet :
        /\ a = Call("dealloc", e.addr, e.size) /\ a.do = "dealloc" /\ a.addr = e.addr /\ a.size = e.size
        /\ b = Do("base_node_dealloc") /\ b.do = "base_node_dealloc"
  BY <1>1, CallFacts DEF Dos, Ext
<1>4. PICK n : n = <<a, b>>
  OBVIOUS
<1>5. n \in Seq(CallSet) /\ Len(n) = 2 /\ n[1] = a /\ n[2] = b
  BY <1>4
<1>6. Begin(t, FALSE, n)
  BY <1>3, <1>4 DEF HugeDalloc
<1>7. Moved(t, n, NULL) /\ InHand(t) = {} /\ ops' \in 0 .. MaxOps
  BY <1>5, <1>6, BeginFacts
<1>8. Named(n[1]) /\ ~Named(n[2]) /\ ~User(n[1]) /\ ~User(n[2])
  BY <1>3, <1>5 DEF Named, User
<1>9. \A j \in 1 .. Len(n) : j = 1 \/ j = 2
  BY <1>5
<1>10. Claims(n, NULL) = {1}
  BY <1>5, <1>8, <1>9 DEF Claims
<1>11. Claim(n, NULL, 1) = e
  <2>1. Claim(n, NULL, 1) = Extent(e.addr, e.size)
    BY <1>3, <1>5, <1>8 DEF Claim
  <2> QED
    BY <1>1, <2>1 DEF Extent, Ext
<1>12. HandOf(n, NULL) = {e}
  BY <1>10, <1>11 DEF HandOf
<1>13. Several(n, NULL)
  BY <1>1, <1>10, <1>11 DEF Several
<1>14. Script(n)
  <2>1. Follows(n, 1)
    <3>1. Extent(n[1].addr, n[1].size) \in Ext
      BY <1>1, <1>3, <1>5 DEF Extent, Ext
    <3>2. \A j \in 1 + 1 .. Len(n) : ~User(n[j])
      BY <1>5, <1>8
    <3> QED
      BY <1>3, <1>5, <3>1, <3>2 DEF Follows
  <2>2. Follows(n, 2)
    BY <1>3, <1>5, <1>8 DEF Follows, Closing
  <2> QED
    BY <1>5, <1>9, <2>1, <2>2 DEF Script
<1>15. /\ Scripts' /\ InHand(t)' = {e}
       /\ \A u \in Threads \ {t} : InHand(u)' = InHand(u)
  BY <1>7, <1>12, <1>13, <1>14, MovedHands
<1>16. PICK q : q = Piece("huge", NoThread, e)
  OBVIOUS
<1>17. PICK w : w = Piece("hand", t, e)
  OBVIOUS
<1>18. Pieces' = (Pieces \ {q}) \union {w}
  <2>1. Change(t, {}, {}, {e}, {}, {}, {}, {}, {e})
    BY <1>2, <1>7, <1>15 DEF Change
  <2>2. Gone(t, {}, {e}, {}) = {q}
    BY <1>16 DEF Gone, PieceSet
  <2>3. Come(t, {}, {}, {}, {}, {e}) = {w}
    BY <1>17 DEF Come, Gone, PieceSet, Single
  <2>4. Pieces' = (Pieces \ Gone(t, {}, {e}, {})) \union Come(t, {}, {}, {}, {}, {e})
    BY <2>1, PiecesChange
  <2> QED
    BY <2>2, <2>3, <2>4
<1>19. q \in Pieces /\ q.extent = e /\ w.extent = e
  BY <1>1, <1>16, <1>17, PieceFacts
<1>20. Divided(Pieces', swap_end')
  <2>1. Divided((Pieces \ {q}) \union {w}, swap_end)
    BY <1>1, <1>19, MovePiece
  <2> QED
    BY <1>2, <1>18, <2>1
<1>21. Joined'
  BY <1>2 DEF Inv, Joined, After
<1>22. dirty' \subseteq 0 .. SwapMax - 1
  <2>1. swap_end \in 0 .. SwapMax /\ dirty \subseteq 0 .. SwapMax - 1 /\ SwapMax \in Nat
    BY <1>1, ChunksAssumption DEF Typed
  <2>2. e.addr \in Nat /\ e.size \in Nat /\ e.addr + e.size <= swap_end
    BY <1>1 DEF Ext, End
  <2>3. ChunksOf(e) \subseteq 0 .. SwapMax - 1
    BY <2>1, <2>2 DEF ChunksOf
  <2> QED
    BY <1>2, <2>1, <2>3
<1>23. Typed'
  BY <1>1, <1>2, <1>7, <1>22 DEF Typed, Moved
<1> QED
  BY <1>15, <1>20, <1>21, <1>23 DEF Inv

----------------------------------------------------------------------------
(* The theorems.  *)

\* After mopen the only chunk in use is the one that base_alloc has taken.
LEMMA InitInv == Init => Inv
<1> SUFFICES ASSUME Init
             PROVE  Inv
  OBVIOUS
<1>1. /\ swap_end = 1 /\ free = {} /\ huge = {} /\ base_chunks = {0} /\ leaked = {}
      /\ calls = [t \in Threads |-> << >>]
      /\ local = [t \in Threads |-> [ret |-> NULL, node |-> FALSE, zero |-> FALSE]]
  BY DEF Init
<1>2. Typed
  <2>1. SwapMax \in Nat \ {0} /\ NodesPerChunk \in Nat \ {0} /\ MaxOps \in Nat
    BY ChunksAssumption
  <2>2. calls \in [Threads -> Seq(CallSet)]
    BY <1>1
  <2>3. local \in [Threads -> LocalSet]
    BY <1>1, CallFacts DEF LocalSet
  <2>4. dirty \subseteq 0 .. SwapMax - 1
    BY <2>1 DEF Init
  <2>5. /\ swap_end \in 0 .. SwapMax /\ base_nodes \in Nat /\ base_left \in 0 .. NodesPerChunk
        /\ ops \in 0 .. MaxOps
    BY <2>1 DEF Init
  <2>6. owner \in [Mutexes -> Threads \union {NoThread}]
    BY DEF Init
  <2> QED
    BY <2>2, <2>3, <2>4, <2>5, <2>6 DEF Typed
<1>3. \A t \in Threads : calls[t] = << >> /\ InHand(t) = {}
  BY <1>1 DEF InHand, HandOf, Claims
<1>4. Scripts
  <2>1. PICK s \in Seq(CallSet) : s = << >> /\ Len(s) = 0
    <3>1. << >> \in Seq(CallSet) /\ Len(<< >>) = 0
      OBVIOUS
    <3> QED
      BY <3>1
  <2>2. Script(s)
    BY <2>1 DEF Script
  <2>3. \A r : Several(s, r)
    BY <2>1 DEF Several, Claims
  <2> QED
    BY <1>3, <2>1, <2>2, <2>3 DEF Scripts
<1>5. PICK p : p = Piece("base", NoThread, Extent(0, 1))
  OBVIOUS
<1>6. Pieces = {p}
  <2>1. Single(base_chunks) = {Extent(0, 1)} /\ Single(leaked) = {}
    BY <1>1 DEF Single
  <2> QED
    BY <1>1, <1>3, <1>5, <2>1, PiecesAre
<1>7. p.extent = Extent(0, 1)
  BY <1>5, PieceFacts
<1>8. Divided(Pieces, swap_end)
  <2>1. p.extent \in Ext /\ End(p.extent) = 1
    BY <1>7 DEF Extent, Ext, End
  <2>2. ChunksOf(p.extent) = 0 .. 0
    BY <1>7 DEF Extent, ChunksOf
  <2>3. Separate(Pieces, 1)
    BY <1>6, <2>1 DEF Separate, Within
  <2>4. Covered(Pieces, 1)
    BY <1>6, <2>2 DEF Covered
  <2> QED
    BY <1>1, <2>3, <2>4 DEF Divided
<1>9. Joined
  BY <1>1 DEF Joined
<1> QED
  BY <1>2, <1>4, <1>8, <1>9 DEF Inv

\* A step that changes nothing preserves the invariant.
LEMMA StutterInv == Inv /\ UNCHANGED vars => Inv'
<1> SUFFICES ASSUME Inv, UNCHANGED vars
             PROVE  Inv'
  OBVIOUS
<1>1. /\ UNCHANGED <<swap_end, free, base_nodes, base_left, base_chunks, huge, owner>>
      /\ UNCHANGED <<calls, local, dirty, leaked, nodeless, ops>>
  BY DEF vars, swapVars, baseVars, rest
<1>2. Pieces' = Pieces
  BY <1>1 DEF Pieces, InHand
<1>3. Typed' /\ Scripts'
  BY <1>1 DEF Inv, Typed, Scripts
<1>4. Joined'
  BY <1>1 DEF Inv, Joined, After
<1>5. Divided(Pieces', swap_end')
  BY <1>1, <1>2 DEF Inv
<1> QED
  BY <1>3, <1>4, <1>5 DEF Inv

\* Every step preserves the invariant.
LEMMA NextInv == Inv /\ [Next]_vars => Inv'
<1> SUFFICES ASSUME Inv, [Next]_vars
             PROVE  Inv'
  OBVIOUS
<1>1. ASSUME NEW t \in Threads, Step(t)
      PROVE  Inv'
  BY <1>1, BaseNodeAllocStep, BaseAllocStep, BasePagesStep, BaseNodeDeallocStep, UnlockSwapStep,
     RecycleStep, ExtendStep, DeallocStep, DeallocWithNodeStep, TrimStep, InsertStep, LockStep,
     PostforkStep DEF Step
<1>2. ASSUME NEW t \in Threads, Program(t)
      PROVE  Inv'
  BY <1>2, HugeMallocStep, HugeDallocStep, PreforkStep DEF Program
<1>3. CASE UNCHANGED vars
  BY <1>3, StutterInv
<1> QED
  BY <1>1, <1>2, <1>3 DEF Next

\* The invariant: the calls a thread has yet to make follow a script, the chunks in use are
\* divided among free and allocated extents, base and lost chunks and the hands of the
\* threads, and free extents do not touch.
THEOREM ChunksInductive == Spec => []Inv
<1>1. Init => Inv
  BY InitInv
<1>2. Inv /\ [Next]_vars => Inv'
  BY NextInv
<1> QED
  BY <1>1, <1>2, PTL DEF Spec

\* Free extents are joined when chunks are freed and split, and none is left at the end of
\* the memory in use as long as there is a node for what is freed (chunk_dealloc_swap).
THEOREM FreeExtentsJoined == Spec => []Joined
<1>1. Inv => Joined
  BY DEF Inv
<1> QED
  BY <1>1, ChunksInductive, PTL

\* No chunk is lost or has two owners, whatever the threads do while swap_mtx is unlocked
\* to get a node (chunk_swap.c:131).
THEOREM EveryChunkKept == Spec => []ChunksKept
<1>1. Inv => ChunksKept
  <2> SUFFICES ASSUME Inv
               PROVE  ChunksKept
    OBVIOUS
  <2>1. swap_end \in 0 .. SwapMax /\ SwapMax \in Nat
    BY ChunksAssumption DEF Inv, Typed
  <2>2. /\ \A p \in Pieces : p.extent \in Ext /\ End(p.extent) <= swap_end
        /\ \A p, q \in Pieces : p # q => Apart(p.extent, q.extent)
        /\ \A c \in 0 .. swap_end - 1 : \E p \in Pieces : c \in ChunksOf(p.extent)
    BY DEF Inv, Divided, Separate, Within, Covered
  <2>3. \A e \in Ext : End(e) <= swap_end => e \in Extents /\ ChunksOf(e) \subseteq 0 .. swap_end - 1
    BY <2>1 DEF Ext, Extents, End, ChunksOf
  <2>4. ASSUME NEW e \in Ext, NEW f \in Ext, Apart(e, f)
        PROVE  ChunksOf(e) \intersect ChunksOf(f) = {}
    BY <2>4 DEF Ext, Apart, End, ChunksOf
  <2>5. free \subseteq Extents /\ huge \subseteq Extents
    BY <2>3, ExtentFacts
  <2>6. \A c \in leaked \union base_chunks : c \in 0 .. SwapMax - 1
    <3> SUFFICES ASSUME NEW c \in leaked \union base_chunks
                 PROVE  c \in 0 .. SwapMax - 1
      OBVIOUS
    <3>1. \/ Piece("base", NoThread, Extent(c, 1)) \in Pieces
          \/ Piece("leaked", NoThread, Extent(c, 1)) \in Pieces
      BY PiecesAre DEF Single
    <3>2. Extent(c, 1) \in Extents
      BY <2>2, <2>3, <3>1, PieceFacts
    <3> QED
      BY <3>2 DEF Extents, Extent
  <2>7. TypeOK
    BY <2>5, <2>6 DEF TypeOK, Inv, Typed
  <2>8. UNION {ChunksOf(p.extent) : p \in Pieces} = 0 .. swap_end - 1
    BY <2>2, <2>3
  <2>9. \A p, q \in Pieces : p # q => ChunksOf(p.extent) \intersect ChunksOf(q.extent) = {}
    BY <2>2, <2>4
  <2> QED
    BY <2>7, <2>8, <2>9 DEF ChunksKept
<1> QED
  BY <1>1, ChunksInductive, PTL

----------------------------------------------------------------------------
(* Every node of base_alloc is in one place.  *)

Asks  == {"base_node_alloc", "base_alloc", "base_pages"}
Gives == {"base_node_dealloc", "trim", "insert"}

\* What may follow call k of s: it asks for one node, and gets it for chunk_dealloc_swap,
\* which goes on without one, or for malloc, which ends.
Ordered(s, k) ==
    LET what == s[k].do
    IN  /\ what \in Asks \union {"dealloc", "dealloc2"} =>
             \A j \in k + 1 .. Len(s) : s[j].do \notin Asks \union {"postfork"}
        /\ what \in {"dealloc", "dealloc2"} => \A j \in k + 1 .. Len(s) : s[j].do # "dealloc2"
        /\ what \in Asks /\ s[k + 1].do = "recycle" => k + 3 <= Len(s) /\ s[k + 3].do = "trim"
        /\ what = "postfork" => k = Len(s)

Orders(s) == \A k \in 1 .. Len(s) : Ordered(s, k)

Has(s, what) == \E k \in 1 .. Len(s) : s[k].do = what

\* Who waits for a chunk of nodes holds base_mtx, and so does who copies the heap.
BaseHeld(t) ==
    /\ Has(calls[t], "base_pages") => owner["base"] = t /\ base_left = 0
    /\ Has(calls[t], "postfork") /\ ~Has(calls[t], "lock_base") => owner["base"] = t

Nodes ==
    /\ \A t \in Threads : Orders(calls[t]) /\ BaseHeld(t)
    /\ NodesKept

NodesInv == Inv /\ Nodes

----------------------------------------------------------------------------
(* Sums and counts.  *)

\* Induction over the naturals, for a set: an injection of a finite set into itself is onto.
LEMMA Induction ==
    ASSUME NEW S, 0 \in S, \A n \in Nat : n \in S => n + 1 \in S
    PROVE  Nat \subseteq S
<1> SUFFICES ASSUME NEW n \in Nat, n \notin S
             PROVE  FALSE
  OBVIOUS
<1> DEFINE A == {k \in 0 .. n : k \in S}
           f == [k \in A |-> k + 1]
<1>1. IsFiniteSet(A)
  <2>1. IsFiniteSet(0 .. n)
    BY FS_Interval
  <2> QED
    BY <2>1, FS_Subset
<1>2. \A k \in A : k + 1 \in A
  OBVIOUS
<1>3. f \in Injection(A, A)
  BY <1>2 DEF Injection, IsInjective
<1>4. f \in Surjection(A, A)
  BY <1>1, <1>3, FS_Injection
<1>5. 0 \in A
  OBVIOUS
<1>6. \A t \in A : \E k \in A : f[k] = t
  BY <1>4 DEF Surjection
<1>7. \E k \in A : f[k] = 0
  BY ONLY <1>5, <1>6
<1> QED
  BY <1>7

\* The element that MapThenSumSet takes first.
First(s) == CHOOSE x \in s : TRUE

\* g sums f over subsets of S that have at most n elements.
SumTo(g, f, S, n) ==
    /\ g \in [SUBSET S -> Int]
    /\ \A s \in SUBSET S : Cardinality(s) <= n =>
          g[s] = IF s = {} THEN 0 ELSE f[First(s)] + g[s \ {First(s)}]

\* g sums f over the subsets of S.
SumOf(g, f, S) ==
    g = [s \in SUBSET S |-> IF s = {} THEN 0 ELSE f[First(s)] + g[s \ {First(s)}]]

\* A set without its first element is smaller.
LEMMA FirstOut ==
    ASSUME NEW S, IsFiniteSet(S), NEW s \in SUBSET S
    PROVE  /\ IsFiniteSet(s) /\ Cardinality(s) \in Nat /\ Cardinality(s) <= Cardinality(S)
           /\ Cardinality(s) = 0 <=> s = {}
           /\ s # {} => /\ First(s) \in s /\ s \ {First(s)} \in SUBSET S
                        /\ Cardinality(s \ {First(s)}) = Cardinality(s) - 1
<1>1. IsFiniteSet(s) /\ Cardinality(s) <= Cardinality(S)
  BY FS_Subset
<1>2. Cardinality(s) \in Nat /\ (Cardinality(s) = 0 <=> s = {})
  BY <1>1, FS_CardinalityType, FS_EmptySet
<1>3. s # {} => First(s) \in s
  BY DEF First
<1>4. s # {} => Cardinality(s \ {First(s)}) = Cardinality(s) - 1
  BY <1>1, <1>3, FS_RemoveElement
<1> QED
  BY <1>1, <1>2, <1>3, <1>4

\* The function MapThenSumSet speaks of exists, and its values are numbers.
LEMMA SumExists ==
    ASSUME NEW S, IsFiniteSet(S), NEW f \in [S -> Int]
    PROVE  \E g \in [SUBSET S -> Int] : SumOf(g, f, S)
<1> DEFINE Q == {n \in Nat : \E g : SumTo(g, f, S, n)}
<1>1. 0 \in Q
  <2> DEFINE g == [s \in SUBSET S |-> 0]
  <2>1. g \in [SUBSET S -> Int] /\ g[{}] = 0
    OBVIOUS
  <2>2. ASSUME NEW s \in SUBSET S, Cardinality(s) <= 0
        PROVE  s = {}
    <3>1. Cardinality(s) \in Nat /\ (Cardinality(s) = 0 <=> s = {})
      BY FirstOut
    <3> QED
      BY <2>2, <3>1
  <2> HIDE DEF g
  <2>3. SumTo(g, f, S, 0)
    BY <2>1, <2>2 DEF SumTo
  <2> QED
    BY <2>3
<1>2. \A n \in Nat : n \in Q => n + 1 \in Q
  <2> SUFFICES ASSUME NEW n \in Nat, n \in Q
               PROVE  \E h : SumTo(h, f, S, n + 1)
    OBVIOUS
  <2>1. PICK g : SumTo(g, f, S, n)
    OBVIOUS
  <2> DEFINE h == [s \in SUBSET S |-> IF s = {} THEN 0 ELSE f[First(s)] + g[s \ {First(s)}]]
  <2>2. g \in [SUBSET S -> Int]
    BY <2>1 DEF SumTo
  <2>3. ASSUME NEW s \in SUBSET S, s # {}
        PROVE  f[First(s)] \in Int /\ g[s \ {First(s)}] \in Int
    <3>1. First(s) \in S /\ s \ {First(s)} \in SUBSET S
      BY <2>3, FirstOut
    <3> QED
      BY <2>2, <3>1
  <2>4. h \in [SUBSET S -> Int]
    BY <2>3
  <2>5. \A s \in SUBSET S : h[s] = IF s = {} THEN 0 ELSE f[First(s)] + g[s \ {First(s)}]
    OBVIOUS
  <2> HIDE DEF h
  <2>6. \A s \in SUBSET S : Cardinality(s) <= n => h[s] = g[s]
    BY <2>1, <2>5 DEF SumTo
  <2>7. ASSUME NEW s \in SUBSET S, Cardinality(s) <= n + 1, s # {}
        PROVE  h[s] = f[First(s)] + h[s \ {First(s)}]
    <3>1. s \ {First(s)} \in SUBSET S /\ Cardinality(s \ {First(s)}) <= n
      BY <2>7, FirstOut
    <3> QED
      BY <2>5, <2>6, <2>7, <3>1
  <2>8. SumTo(h, f, S, n + 1)
    BY <2>4, <2>5, <2>7 DEF SumTo
  <2> QED
    BY <2>8
<1>3. Cardinality(S) \in Q
  <2>1. Nat \subseteq Q
    <3> HIDE DEF Q
    <3> QED
      BY <1>1, <1>2, Induction
  <2>2. Cardinality(S) \in Nat
    BY FS_CardinalityType
  <2> QED
    BY <2>1, <2>2
<1>4. PICK g : SumTo(g, f, S, Cardinality(S))
  BY <1>3
<1>5. g \in [SUBSET S -> Int]
  BY <1>4 DEF SumTo
<1>6. \A s \in SUBSET S : g[s] = IF s = {} THEN 0 ELSE f[First(s)] + g[s \ {First(s)}]
  BY <1>4, FirstOut DEF SumTo
<1>7. SumOf(g, f, S)
  BY <1>5, <1>6 DEF SumOf
<1> QED
  BY <1>5, <1>7

\* What SumOf says of a subset.
LEMMA SumAt ==
    ASSUME NEW S, NEW f, NEW g, SumOf(g, f, S), NEW s \in SUBSET S
    PROVE  g[s] = IF s = {} THEN 0 ELSE f[First(s)] + g[s \ {First(s)}]
  BY DEF SumOf

\* g sums f, which has numbers as values.
Sums(g, f, S) == f \in [S -> Int] /\ g \in [SUBSET S -> Int] /\ SumOf(g, f, S)

\* f and h differ at most at t.
Beside(f, h, t, S) == \A u \in S \ {t} : h[u] = f[u]

\* The sum follows the one term that changes.
LEMMA SumMoved ==
    ASSUME NEW S, IsFiniteSet(S), NEW t \in S, NEW f, NEW h, Beside(f, h, t, S),
           NEW g, Sums(g, f, S), NEW k, Sums(k, h, S)
    PROVE  k[S] = g[S] + (h[t] - f[t])
<1>0. /\ f \in [S -> Int] /\ h \in [S -> Int] /\ \A u \in S \ {t} : h[u] = f[u]
      /\ g \in [SUBSET S -> Int] /\ SumOf(g, f, S) /\ k \in [SUBSET S -> Int] /\ SumOf(k, h, S)
  BY DEF Sums, Beside
<1> DEFINE Q == {n \in Nat : \A s \in SUBSET S : Cardinality(s) = n =>
                   k[s] = g[s] + (IF t \in s THEN h[t] - f[t] ELSE 0)}
<1>1. 0 \in Q
  <2> SUFFICES ASSUME NEW s \in SUBSET S, Cardinality(s) = 0
               PROVE  k[s] = g[s] + (IF t \in s THEN h[t] - f[t] ELSE 0)
    OBVIOUS
  <2>1. s = {}
    BY FirstOut
  <2>2. k[s] = 0 /\ g[s] = 0
    BY <1>0, <2>1, SumAt
  <2> QED
    BY <2>1, <2>2
<1>2. \A n \in Nat : n \in Q => n + 1 \in Q
  <2> SUFFICES ASSUME NEW n \in Nat, n \in Q, NEW s \in SUBSET S, Cardinality(s) = n + 1
               PROVE  k[s] = g[s] + (IF t \in s THEN h[t] - f[t] ELSE 0)
    OBVIOUS
  <2>1. PICK x, r : x = First(s) /\ r = s \ {x}
    OBVIOUS
  <2>2. s # {} /\ x \in s /\ r \in SUBSET S /\ Cardinality(r) = n
    BY <2>1, FirstOut
  <2>3. k[s] = h[x] + k[r] /\ g[s] = f[x] + g[r]
    BY <1>0, <2>1, <2>2, SumAt
  <2>4. k[r] = g[r] + (IF t \in r THEN h[t] - f[t] ELSE 0)
    BY <2>2
  <2>5. h[x] \in Int /\ f[x] \in Int /\ h[t] \in Int /\ f[t] \in Int /\ g[r] \in Int
    BY <1>0, <2>2
  <2>6. CASE x = t
    <3>1. t \notin r /\ t \in s
      BY <2>1, <2>2, <2>6
    <3> QED
      BY <2>3, <2>4, <2>5, <2>6, <3>1
  <2>7. CASE x # t
    <3>1. h[x] = f[x] /\ (t \in r <=> t \in s)
      BY <1>0, <2>1, <2>2, <2>7
    <3> QED
      BY <2>3, <2>4, <2>5, <3>1
  <2> QED
    BY <2>6, <2>7
<1>3. Nat \subseteq Q
  <2> HIDE DEF Q
  <2> QED
    BY <1>1, <1>2, Induction
<1>4. Cardinality(S) \in Nat /\ S \in SUBSET S
  BY FS_CardinalityType
<1>5. k[S] = g[S] + (IF t \in S THEN h[t] - f[t] ELSE 0)
  BY <1>3, <1>4
<1> QED
  BY <1>0, <1>5

\* A sum of zeros.
LEMMA SumZero ==
    ASSUME NEW S, IsFiniteSet(S), NEW f \in [S -> Int], \A u \in S : f[u] = 0,
           NEW g \in [SUBSET S -> Int], SumOf(g, f, S)
    PROVE  g[S] = 0
<1> DEFINE Q == {n \in Nat : \A s \in SUBSET S : Cardinality(s) = n => g[s] = 0}
<1>1. 0 \in Q
  <2> SUFFICES ASSUME NEW s \in SUBSET S, Cardinality(s) = 0
               PROVE  g[s] = 0
    OBVIOUS
  <2>1. s = {}
    BY FirstOut
  <2> QED
    BY <2>1, SumAt
<1>2. \A n \in Nat : n \in Q => n + 1 \in Q
  <2> SUFFICES ASSUME NEW n \in Nat, n \in Q, NEW s \in SUBSET S, Cardinality(s) = n + 1
               PROVE  g[s] = 0
    OBVIOUS
  <2>1. PICK x, r : x = First(s) /\ r = s \ {x}
    OBVIOUS
  <2>2. s # {} /\ x \in s /\ r \in SUBSET S /\ Cardinality(r) = n
    BY <2>1, FirstOut
  <2>3. g[s] = f[x] + g[r]
    BY <2>1, <2>2, SumAt
  <2> QED
    BY <2>2, <2>3
<1>3. Nat \subseteq Q
  <2> HIDE DEF Q
  <2> QED
    BY <1>1, <1>2, Induction
<1> QED
  BY <1>3, FS_CardinalityType

\* A function that SumOf speaks of has numbers as values.
LEMMA SumTyped ==
    ASSUME NEW S, IsFiniteSet(S), NEW f \in [S -> Int], NEW g, SumOf(g, f, S)
    PROVE  g \in [SUBSET S -> Int]
<1> DEFINE Q == {n \in Nat : \A s \in SUBSET S : Cardinality(s) = n => g[s] \in Int}
<1>1. 0 \in Q
  <2> SUFFICES ASSUME NEW s \in SUBSET S, Cardinality(s) = 0
               PROVE  g[s] \in Int
    OBVIOUS
  <2>1. s = {}
    BY FirstOut
  <2>2. g[s] = 0
    BY <2>1, SumAt
  <2> QED
    BY <2>2
<1>2. \A n \in Nat : n \in Q => n + 1 \in Q
  <2> SUFFICES ASSUME NEW n \in Nat, n \in Q, NEW s \in SUBSET S, Cardinality(s) = n + 1
               PROVE  g[s] \in Int
    OBVIOUS
  <2>1. PICK x, r : x = First(s) /\ r = s \ {x}
    OBVIOUS
  <2>2. s # {} /\ x \in s /\ r \in SUBSET S /\ Cardinality(r) = n
    BY <2>1, FirstOut
  <2>3. g[s] = f[x] + g[r]
    BY <2>1, <2>2, SumAt
  <2>4. f[x] \in Int /\ g[r] \in Int
    BY <2>2
  <2> QED
    BY <2>3, <2>4
<1>3. Nat \subseteq Q
  <2> HIDE DEF Q
  <2> QED
    BY <1>1, <1>2, Induction
<1>4. \A s \in SUBSET S : g[s] \in Int
  BY <1>3, FirstOut
<1> QED
  BY <1>4 DEF SumOf

\* The numbers of nodes the threads have, and their sum.
Hands == [t \in Threads |-> NodesInHand(t)]
Total == MapThenSumSet(NodesInHand, Threads)

\* The sum of NodesKept is one by a function.
LEMMA TotalIs ==
    ASSUME Hands \in [Threads -> Int]
    PROVE  \E g \in [SUBSET Threads -> Int] : SumOf(g, Hands, Threads) /\ Total = g[Threads]
<1> DEFINE E(g) == [s \in SUBSET Threads |->
                      IF s = {} THEN 0
                      ELSE NodesInHand(CHOOSE x \in s : TRUE) + g[s \ {CHOOSE x \in s : TRUE}]]
           iter == CHOOSE g : g = E(g)
<1>1. \A g : E(g) = [s \in SUBSET Threads |-> IF s = {} THEN 0 ELSE Hands[First(s)] + g[s \ {First(s)}]]
  <2>1. \A s \in SUBSET Threads : s # {} => First(s) \in Threads
    BY DEF First
  <2> QED
    BY <2>1 DEF Hands, First
<1>2. Total = iter[Threads]
  BY DEF Total, MapThenSumSet, MapThenFoldSet
<1>3. IsFiniteSet(Threads)
  BY ChunksAssumption
<1>4. PICK k \in [SUBSET Threads -> Int] : SumOf(k, Hands, Threads)
  BY <1>3, SumExists
<1>5. k = E(k)
  BY <1>1, <1>4 DEF SumOf
<1> HIDE DEF E
<1>6. iter = E(iter)
  BY <1>5
<1>7. SumOf(iter, Hands, Threads)
  BY <1>1, <1>6 DEF SumOf
<1>8. iter \in [SUBSET Threads -> Int]
  BY <1>3, <1>7, SumTyped
<1> QED
  BY <1>2, <1>7, <1>8

\* The same after a step.
LEMMA NextTotalIs ==
    ASSUME Hands' \in [Threads -> Int]
    PROVE  \E g \in [SUBSET Threads -> Int] : SumOf(g, Hands', Threads) /\ Total' = g[Threads]
<1> DEFINE E(g) == [s \in SUBSET Threads |->
                      IF s = {} THEN 0
                      ELSE NodesInHand(CHOOSE x \in s : TRUE)' + g[s \ {CHOOSE x \in s : TRUE}]]
           iter == CHOOSE g : g = E(g)
<1>1. \A g : E(g) = [s \in SUBSET Threads |-> IF s = {} THEN 0 ELSE Hands'[First(s)] + g[s \ {First(s)}]]
  <2>1. \A s \in SUBSET Threads : s # {} => First(s) \in Threads
    BY DEF First
  <2> QED
    BY <2>1 DEF Hands, First
<1>2. Total' = iter[Threads]
  BY DEF Total, MapThenSumSet, MapThenFoldSet
<1>3. IsFiniteSet(Threads)
  BY ChunksAssumption
<1>4. PICK k \in [SUBSET Threads -> Int] : SumOf(k, Hands', Threads)
  BY <1>3, SumExists
<1>5. k = E(k)
  BY <1>1, <1>4 DEF SumOf
<1> HIDE DEF E
<1>6. iter = E(iter)
  BY <1>5
<1>7. SumOf(iter, Hands', Threads)
  BY <1>1, <1>6 DEF SumOf
<1>8. iter \in [SUBSET Threads -> Int]
  BY <1>3, <1>7, SumTyped
<1> QED
  BY <1>2, <1>7, <1>8

\* The first calls of a script are others, and the order of the rest is kept.
LEMMA OrdersReplaced ==
    ASSUME NEW s \in Seq(CallSet), Script(s), Orders(s), NEW n \in Seq(CallSet), NEW m, NEW i,
           Replaced(n, m, s, i), \A k \in 1 .. m : Ordered(n, k)
    PROVE  Orders(n)
<1>0. Len(s) \in Nat /\ Len(n) \in Nat /\ m \in Nat /\ i \in Nat /\ Len(n) - m = Len(s) - i
  BY DEF Replaced
<1> SUFFICES ASSUME NEW k \in 1 .. Len(n), k > m
             PROVE  Ordered(n, k)
  BY <1>0 DEF Orders
<1> DEFINE d == i - m
<1>1. ASSUME NEW l \in k .. Len(n)
      PROVE  l + d \in k + d .. Len(s) /\ n[l] = s[l + d] /\ (l = Len(n) <=> l + d = Len(s))
  <2>1. l - m \in 1 .. Len(s) - i
    BY <1>0
  <2>2. n[m + (l - m)] = s[i + (l - m)]
    BY <2>1 DEF Replaced
  <2>3. m + (l - m) = l /\ i + (l - m) = l + d
    BY <1>0
  <2> QED
    BY <1>0, <2>1, <2>2, <2>3
<1>2. k + d \in 1 .. Len(s) /\ n[k] = s[k + d] /\ (k = Len(n) <=> k + d = Len(s))
  BY <1>0, <1>1
<1>3. Ordered(s, k + d) /\ Follows(s, k + d) /\ d \in Int
  BY <1>0, <1>2 DEF Orders, Script
<1>4. Len(n) + d = Len(s) /\ k \in Nat
  BY <1>0
<1> HIDE DEF d
<1>5. \A j \in k + 1 .. Len(n) : j + d \in k + d + 1 .. Len(s) /\ n[j] = s[j + d]
  BY <1>0, <1>1, <1>3
<1> DEFINE what == n[k].do
<1>6. /\ what \in Asks \union {"dealloc", "dealloc2"} =>
           \A j \in k + d + 1 .. Len(s) : s[j].do \notin Asks \union {"postfork"}
      /\ what \in {"dealloc", "dealloc2"} => \A j \in k + d + 1 .. Len(s) : s[j].do # "dealloc2"
      /\ what \in Asks /\ s[k + d + 1].do = "recycle" =>
           k + d + 3 <= Len(s) /\ s[k + d + 3].do = "trim"
      /\ what = "postfork" => k + d = Len(s)
      /\ what \in Asks => k + d < Len(s)
  BY <1>2, <1>3 DEF Ordered, Follows, Asks
<1>7. what \in Asks \union {"dealloc", "dealloc2"} =>
         \A j \in k + 1 .. Len(n) : n[j].do \notin Asks \union {"postfork"}
  BY <1>5, <1>6
<1>8. what \in {"dealloc", "dealloc2"} => \A j \in k + 1 .. Len(n) : n[j].do # "dealloc2"
  BY <1>5, <1>6
<1>9. what \in Asks /\ n[k + 1].do = "recycle" => k + 3 <= Len(n) /\ n[k + 3].do = "trim"
  <2> SUFFICES ASSUME what \in Asks, n[k + 1].do = "recycle"
               PROVE  k + 3 <= Len(n) /\ n[k + 3].do = "trim"
    OBVIOUS
  <2>1. k < Len(n)
    BY <1>0, <1>2, <1>3, <1>6
  <2>2. n[k + 1] = s[k + d + 1]
    BY <1>0, <1>3, <1>5, <2>1
  <2>3. k + d + 3 <= Len(s) /\ s[k + d + 3].do = "trim"
    BY <1>6, <2>2
  <2>4. k + 3 \in k .. Len(n)
    <3>1. PICK x, y : x = Len(n) /\ y = Len(s)
      OBVIOUS
    <3>2. x \in Nat /\ y \in Nat /\ k \in Nat /\ d \in Int /\ x + d = y /\ k + d + 3 <= y
      BY <1>0, <1>3, <1>4, <2>3, <3>1
    <3>3. k + 3 \in k .. x
      BY ONLY <3>2
    <3> QED
      BY <3>1, <3>3
  <2>5. n[k + 3] = s[k + d + 3]
    BY <1>1, <1>3, <2>4
  <2> QED
    BY <2>3, <2>4, <2>5
<1>10. what = "postfork" => k = Len(n)
  BY <1>2, <1>6
<1> QED
  BY <1>7, <1>8, <1>9, <1>10 DEF Ordered

\* How many calls of s are of the kinds W.
Count(s, W) == Cardinality({k \in 1 .. Len(s) : s[k].do \in W})

\* The calls of both parts are counted.
LEMMA CountConcat ==
    ASSUME NEW p \in Seq(CallSet), NEW u \in Seq(CallSet), NEW W
    PROVE  /\ Count(p \o u, W) = Count(p, W) + Count(u, W)
           /\ Count(p, W) \in Nat /\ Count(u, W) \in Nat
<1> DEFINE P == {k \in 1 .. Len(p) : p[k].do \in W}
           U == {k \in 1 .. Len(u) : u[k].do \in W}
           N == {k \in 1 .. Len(p \o u) : (p \o u)[k].do \in W}
           V == {k \in Len(p) + 1 .. Len(p) + Len(u) : u[k - Len(p)].do \in W}
           f == [k \in U |-> Len(p) + k]
<1>1. Len(p) \in Nat /\ Len(u) \in Nat /\ Len(p \o u) = Len(p) + Len(u)
  OBVIOUS
<1>2. /\ \A k \in 1 .. Len(p) : (p \o u)[k] = p[k]
      /\ \A k \in Len(p) + 1 .. Len(p) + Len(u) : (p \o u)[k] = u[k - Len(p)]
  BY <1>1
<1>3. IsFiniteSet(P) /\ IsFiniteSet(U) /\ IsFiniteSet(V)
  <2>1. /\ IsFiniteSet(1 .. Len(p)) /\ IsFiniteSet(1 .. Len(u))
        /\ IsFiniteSet(Len(p) + 1 .. Len(p) + Len(u))
    BY <1>1, FS_Interval
  <2> QED
    BY <2>1, FS_Subset
<1>4. N = P \union V /\ P \intersect V = {}
  BY <1>1, <1>2
<1>5. f \in Bijection(U, V)
  <2>1. f \in [U -> V]
    BY <1>1
  <2>2. \A a, b \in U : f[a] = f[b] => a = b
    BY <1>1
  <2>3. \A k \in V : k - Len(p) \in U /\ f[k - Len(p)] = k
    BY <1>1
  <2> HIDE DEF f, U, V
  <2>4. f \in Injection(U, V)
    BY <2>1, <2>2 DEF Injection, IsInjective
  <2>5. f \in Surjection(U, V)
    BY <2>1, <2>3 DEF Surjection
  <2> QED
    BY <2>4, <2>5 DEF Bijection
<1>6. Cardinality(V) = Cardinality(U)
  BY <1>3, <1>5, FS_Bijection DEF ExistsBijection
<1>7. Cardinality(N) = Cardinality(P) + Cardinality(V) - Cardinality(P \intersect V)
  BY <1>3, <1>4, FS_Union
<1>8. Cardinality(P \intersect V) = 0 /\ Cardinality(P) \in Nat /\ Cardinality(U) \in Nat
  BY <1>3, <1>4, FS_EmptySet, FS_CardinalityType
<1>9. Count(p \o u, W) = Cardinality(N) /\ Count(p, W) = Cardinality(P) /\ Count(u, W) = Cardinality(U)
  BY DEF Count
<1> HIDE DEF N, P, U, V
<1> QED
  BY <1>6, <1>7, <1>8, <1>9

\* Of a call that is made n times, all or none are counted.
LEMMA CountAll ==
    ASSUME NEW s \in Seq(CallSet), NEW W
    PROVE  /\ (\A k \in 1 .. Len(s) : s[k].do \in W) => Count(s, W) = Len(s)
           /\ (\A k \in 1 .. Len(s) : s[k].do \notin W) => Count(s, W) = 0
           /\ Count(s, W) = 0 => \A k \in 1 .. Len(s) : s[k].do \notin W
           /\ Count(s, W) \in Nat
<1> DEFINE S == {k \in 1 .. Len(s) : s[k].do \in W}
<1>0. Len(s) \in Nat
  OBVIOUS
<1>1. IsFiniteSet(1 .. Len(s)) /\ Cardinality(1 .. Len(s)) = Len(s)
  BY <1>0, FS_Interval
<1>2. IsFiniteSet(S)
  BY <1>1, FS_Subset
<1>3. (Cardinality(S) = 0 <=> S = {}) /\ Cardinality(S) \in Nat
  BY <1>2, FS_EmptySet, FS_CardinalityType
<1>4. (\A k \in 1 .. Len(s) : s[k].do \in W) => S = 1 .. Len(s)
  OBVIOUS
<1>5. (\A k \in 1 .. Len(s) : s[k].do \notin W) <=> S = {}
  OBVIOUS
<1>6. Count(s, W) = Cardinality(S)
  BY DEF Count
<1> HIDE DEF S
<1> QED
  BY <1>1, <1>3, <1>4, <1>5, <1>6

\* One call that is counted or not.
LEMMA CountOne ==
    ASSUME NEW x \in CallSet, NEW W
    PROVE  /\ <<x>> \in Seq(CallSet)
           /\ Count(<<x>>, W) = IF x.do \in W THEN 1 ELSE 0
           /\ \A what : Has(<<x>>, what) <=> x.do = what
<1>1. PICK s \in Seq(CallSet) : s = <<x>> /\ Len(s) = 1 /\ s[1] = x
  <2>1. <<x>> \in Seq(CallSet) /\ Len(<<x>>) = 1 /\ <<x>>[1] = x
    OBVIOUS
  <2> QED
    BY <2>1
<1>2. \A k \in 1 .. Len(s) : k = 1
  BY <1>1
<1>3. Count(s, W) = IF x.do \in W THEN 1 ELSE 0
  <2>1. CASE x.do \in W
    <3>1. \A k \in 1 .. Len(s) : s[k].do \in W
      BY <1>1, <1>2, <2>1
    <3>2. Count(s, W) = Len(s)
      BY <3>1, CountAll
    <3> QED
      BY <1>1, <2>1, <3>2
  <2>2. CASE x.do \notin W
    <3>1. \A k \in 1 .. Len(s) : s[k].do \notin W
      BY <1>1, <1>2, <2>2
    <3>2. Count(s, W) = 0
      BY <3>1, CountAll
    <3> QED
      BY <2>2, <3>2
  <2> QED
    BY <2>1, <2>2
<1>4. \A what : Has(s, what) <=> x.do = what
  BY <1>1, <1>2 DEF Has
<1> QED
  BY <1>1, <1>3, <1>4

\* What both parts have.
LEMMA HasConcat ==
    ASSUME NEW p \in Seq(CallSet), NEW u \in Seq(CallSet), NEW what
    PROVE  Has(p \o u, what) <=> Has(p, what) \/ Has(u, what)
<1>1. Len(p) \in Nat /\ Len(u) \in Nat /\ Len(p \o u) = Len(p) + Len(u)
  OBVIOUS
<1>2. \A k \in 1 .. Len(p) : (p \o u)[k] = p[k]
  BY <1>1
<1>3. \A k \in Len(p) + 1 .. Len(p) + Len(u) : (p \o u)[k] = u[k - Len(p)]
  BY <1>1
<1>4. ASSUME Has(p \o u, what)
      PROVE  Has(p, what) \/ Has(u, what)
  <2>1. PICK k \in 1 .. Len(p \o u) : (p \o u)[k].do = what
    BY <1>4 DEF Has
  <2>2. CASE k <= Len(p)
    BY <1>1, <1>2, <2>1, <2>2 DEF Has
  <2>3. CASE k > Len(p)
    <3>1. k - Len(p) \in 1 .. Len(u) /\ u[k - Len(p)].do = what
      BY <1>1, <1>3, <2>1, <2>3
    <3> QED
      BY <3>1 DEF Has
  <2> QED
    BY <1>1, <2>2, <2>3
<1>5. ASSUME Has(p, what)
      PROVE  Has(p \o u, what)
  <2>1. PICK k \in 1 .. Len(p) : p[k].do = what
    BY <1>5 DEF Has
  <2>2. k \in 1 .. Len(p \o u) /\ (p \o u)[k].do = what
    BY <1>1, <1>2, <2>1
  <2> QED
    BY <2>2 DEF Has
<1>6. ASSUME Has(u, what)
      PROVE  Has(p \o u, what)
  <2>1. PICK k \in 1 .. Len(u) : u[k].do = what
    BY <1>6 DEF Has
  <2>2. PICK j : j = Len(p) + k
    OBVIOUS
  <2>3. j \in Len(p) + 1 .. Len(p) + Len(u) /\ j - Len(p) = k
    BY <1>1, <2>2
  <2>4. j \in 1 .. Len(p \o u) /\ (p \o u)[j].do = what
    BY <1>1, <1>3, <2>1, <2>3
  <2> QED
    BY <2>4 DEF Has
<1> QED
  BY <1>4, <1>5, <1>6

\* Thread t makes the calls p instead of c, and then those that remain, u.
Swap(t, c, p, u) ==
    /\ c \in Seq(CallSet) /\ p \in Seq(CallSet) /\ u \in Seq(CallSet)
    /\ calls[t] = c \o u /\ calls' = [calls EXCEPT ![t] = p \o u]

\* The number of nodes for the calls s; node: local[t].node.
NodesOf(s, node) ==
    Count(s, Gives) + (IF node \/ Count(s, Asks) > 0 THEN Count(s, {"dealloc2"}) ELSE 0)
    - Count(s, Asks)

\* The number of nodes of thread t, in terms of its calls.
LEMMA HandIs ==
    ASSUME Typed, NEW t \in Threads
    PROVE  NodesInHand(t) = NodesOf(calls[t], local[t].node) /\ NodesInHand(t) \in Int
<1>1. calls[t] \in Seq(CallSet) /\ DOMAIN calls[t] = 1 .. Len(calls[t])
  BY DEF Typed
<1>2. NodesInHand(t) = NodesOf(calls[t], local[t].node)
  BY <1>1 DEF NodesInHand, NodesOf, Count, Gives, Asks
<1>3. /\ Count(calls[t], Gives) \in Nat /\ Count(calls[t], Asks) \in Nat
      /\ Count(calls[t], {"dealloc2"}) \in Nat
  BY <1>1, CountAll
<1> QED
  BY <1>2, <1>3 DEF NodesOf

\* The same after a step.
LEMMA NextHandIs ==
    ASSUME Typed', NEW t \in Threads
    PROVE  NodesInHand(t)' = NodesOf(calls'[t], local'[t].node) /\ NodesInHand(t)' \in Int
<1>1. calls'[t] \in Seq(CallSet) /\ DOMAIN calls'[t] = 1 .. Len(calls'[t])
  BY DEF Typed
<1>2. NodesInHand(t)' = NodesOf(calls'[t], local'[t].node)
  BY <1>1 DEF NodesInHand, NodesOf, Count, Gives, Asks
<1>3. /\ Count(calls'[t], Gives) \in Nat /\ Count(calls'[t], Asks) \in Nat
      /\ Count(calls'[t], {"dealloc2"}) \in Nat
  BY <1>1, CountAll
<1> QED
  BY <1>2, <1>3 DEF NodesOf

\* The nodes made, and those on the list and in the trees.
Made   == NodesPerChunk * Cardinality(base_chunks) - base_left
Placed == base_nodes + Cardinality(free) + Cardinality(huge)

\* The nodes made and not placed are d more, and so are those of thread t.
Balanced(t, d) ==
    /\ d \in Int /\ Made \in Int /\ Placed \in Int
    /\ Made' - Placed' = Made - Placed + d /\ Made' \in Int /\ Placed' \in Int
    /\ NodesOf(calls'[t], local'[t].node) = NodesOf(calls[t], local[t].node) + d
    /\ \A u \in Threads \ {t} : calls'[u] = calls[u] /\ local'[u] = local[u]

\* Then the sum of NodesKept is d more.
LEMMA BalancedKept ==
    ASSUME Typed, NodesKept, Typed', NEW t \in Threads, NEW d, Balanced(t, d)
    PROVE  NodesKept'
<1>1. /\ d \in Int /\ Made \in Int /\ Placed \in Int
      /\ Made' - Placed' = Made - Placed + d /\ Made' \in Int /\ Placed' \in Int
      /\ NodesOf(calls'[t], local'[t].node) = NodesOf(calls[t], local[t].node) + d
      /\ \A u \in Threads \ {t} : calls'[u] = calls[u] /\ local'[u] = local[u]
  BY DEF Balanced
<1>2. \A u \in Threads : Hands[u] = NodesOf(calls[u], local[u].node) /\ Hands[u] \in Int
  BY HandIs DEF Hands
<1>3. \A u \in Threads : Hands'[u] = NodesOf(calls'[u], local'[u].node) /\ Hands'[u] \in Int
  BY NextHandIs DEF Hands
<1>4. Hands \in [Threads -> Int] /\ Hands' \in [Threads -> Int]
  <2>1. Hands = [u \in Threads |-> Hands[u]] /\ Hands' = [u \in Threads |-> Hands'[u]]
    BY DEF Hands
  <2> QED
    BY <1>2, <1>3, <2>1
<1>5. PICK g \in [SUBSET Threads -> Int] : SumOf(g, Hands, Threads) /\ Total = g[Threads]
  BY <1>4, TotalIs
<1>6. PICK k \in [SUBSET Threads -> Int] : SumOf(k, Hands', Threads) /\ Total' = k[Threads]
  BY <1>4, NextTotalIs
<1>7. \A u \in Threads \ {t} : Hands'[u] = Hands[u]
  BY <1>1, <1>2, <1>3
<1>8. PICK f, h : f = Hands /\ h = Hands'
  OBVIOUS
<1>9. k[Threads] = g[Threads] + (h[t] - f[t])
  <2>1. IsFiniteSet(Threads)
    BY ChunksAssumption
  <2>2. Beside(f, h, t, Threads)
    BY <1>7, <1>8 DEF Beside
  <2>3. Sums(g, f, Threads) /\ Sums(k, h, Threads)
    BY <1>4, <1>5, <1>6, <1>8 DEF Sums
  <2> QED
    BY <2>1, <2>2, <2>3, SumMoved
<1>10. h[t] = f[t] + d /\ f[t] \in Int
  BY <1>1, <1>2, <1>3, <1>8
<1>11. g[Threads] \in Int
  BY <1>5
<1>12. Made = Placed + Total
  BY DEF NodesKept, Made, Placed, Total
<1>13. Made' = Placed' + Total'
  BY <1>1, <1>5, <1>6, <1>9, <1>10, <1>11, <1>12
<1> QED
  BY <1>13 DEF NodesKept, Made, Placed, Total

\* What a change of the calls does to what is counted, and to the order.
LEMMA SwapFacts ==
    ASSUME NodesInv, NEW t \in Threads, NEW c, NEW p, NEW u, Swap(t, c, p, u)
    PROVE  /\ calls'[t] = p \o u /\ \A v \in Threads \ {t} : calls'[v] = calls[v]
           /\ \A W : /\ Count(calls[t], W) = Count(c, W) + Count(u, W)
                     /\ Count(calls'[t], W) = Count(p, W) + Count(u, W)
                     /\ Count(c, W) \in Nat /\ Count(p, W) \in Nat /\ Count(u, W) \in Nat
           /\ \A what : /\ Has(calls[t], what) <=> Has(c, what) \/ Has(u, what)
                        /\ Has(calls'[t], what) <=> Has(p, what) \/ Has(u, what)
           /\ (\A k \in 1 .. Len(p) : Ordered(p \o u, k)) => Orders(p \o u)
<1>1. /\ c \in Seq(CallSet) /\ p \in Seq(CallSet) /\ u \in Seq(CallSet)
      /\ calls[t] = c \o u /\ calls' = [calls EXCEPT ![t] = p \o u]
  BY DEF Swap
<1>2. calls'[t] = p \o u /\ \A v \in Threads \ {t} : calls'[v] = calls[v]
  BY <1>1 DEF NodesInv, Inv, Typed
<1>3. ASSUME NEW W
      PROVE  /\ Count(calls[t], W) = Count(c, W) + Count(u, W)
             /\ Count(calls'[t], W) = Count(p, W) + Count(u, W)
             /\ Count(c, W) \in Nat /\ Count(p, W) \in Nat /\ Count(u, W) \in Nat
  <2>1. PICK n : n = p \o u /\ calls'[t] = n
    BY <1>2
  <2>2. /\ Count(c \o u, W) = Count(c, W) + Count(u, W)
        /\ Count(p \o u, W) = Count(p, W) + Count(u, W)
        /\ Count(c, W) \in Nat /\ Count(p, W) \in Nat /\ Count(u, W) \in Nat
    BY <1>1, CountConcat
  <2> QED
    BY <1>1, <2>1, <2>2
<1>4. ASSUME NEW what
      PROVE  /\ Has(calls[t], what) <=> Has(c, what) \/ Has(u, what)
             /\ Has(calls'[t], what) <=> Has(p, what) \/ Has(u, what)
  <2>1. PICK n : n = p \o u /\ calls'[t] = n
    BY <1>2
  <2>2. /\ Has(c \o u, what) <=> Has(c, what) \/ Has(u, what)
        /\ Has(p \o u, what) <=> Has(p, what) \/ Has(u, what)
    BY <1>1, HasConcat
  <2> QED
    BY <1>1, <2>1, <2>2
<1>5. PICK s, n : s = calls[t] /\ n = p \o u
  OBVIOUS
<1>6. s \in Seq(CallSet) /\ n \in Seq(CallSet) /\ Script(s) /\ Orders(s)
  <2>1. s \in Seq(CallSet) /\ Script(s) /\ Orders(s)
    BY <1>5 DEF NodesInv, Nodes, Inv, Scripts, Typed
  <2>2. n \in Seq(CallSet)
    BY <1>1, <1>5
  <2> QED
    BY <2>1, <2>2
<1>7. Replaced(n, Len(p), s, Len(c))
  <2>1. /\ Len(c) \in Nat /\ Len(p) \in Nat /\ Len(u) \in Nat
        /\ Len(s) = Len(c) + Len(u) /\ Len(n) = Len(p) + Len(u)
    BY <1>1, <1>5
  <2>2. \A k \in 1 .. Len(u) : s[Len(c) + k] = u[k] /\ n[Len(p) + k] = u[k]
    BY <1>1, <1>5, <2>1
  <2> QED
    BY <2>1, <2>2 DEF Replaced
<1>8. ASSUME \A k \in 1 .. Len(p) : Ordered(p \o u, k)
      PROVE  Orders(p \o u)
  BY <1>5, <1>6, <1>7, <1>8, OrdersReplaced
<1> QED
  BY <1>2, <1>3, <1>4, <1>8

\* The trees and the base chunks are finite.
LEMMA FiniteTrees ==
    ASSUME Inv
    PROVE  /\ IsFiniteSet(free) /\ IsFiniteSet(huge) /\ IsFiniteSet(base_chunks)
           /\ Cardinality(free) \in Nat /\ Cardinality(huge) \in Nat /\ Cardinality(base_chunks) \in Nat
<1> DEFINE I == 0 .. swap_end
<1>1. swap_end \in Nat
  BY ExtentFacts
<1>2. IsFiniteSet(I) /\ IsFiniteSet(I \X I)
  <2>1. IsFiniteSet(I)
    BY <1>1, FS_Interval
  <2> QED
    BY <2>1, FS_Product
<1>3. ASSUME NEW S, \A e \in S : e \in Ext /\ End(e) <= swap_end
      PROVE  IsFiniteSet(S)
  <2> DEFINE f == [e \in S |-> <<e.addr, e.size>>]
  <2>1. f \in [S -> I \X I]
    BY <1>1, <1>3 DEF Ext, End
  <2>2. \A e, o \in S : f[e] = f[o] => e = o
    BY <1>3 DEF Ext
  <2>3. f \in Injection(S, I \X I)
    BY <2>1, <2>2 DEF Injection, IsInjective
  <2> QED
    BY <1>2, <2>3, FS_Injection
<1>4. IsFiniteSet(free) /\ IsFiniteSet(huge)
  BY <1>3, ExtentFacts
<1>5. \A b \in base_chunks : b \in I
  <2> SUFFICES ASSUME NEW b \in base_chunks
               PROVE  b \in I
    OBVIOUS
  <2>1. Piece("base", NoThread, Extent(b, 1)) \in Pieces
    BY PiecesAre DEF Single
  <2>2. Extent(b, 1) \in Ext /\ End(Extent(b, 1)) <= swap_end
    BY <2>1, PieceFacts DEF Inv, Divided, Separate, Within
  <2> QED
    BY <1>1, <2>2 DEF Ext, End, Extent
<1>6. IsFiniteSet(base_chunks)
  BY <1>2, <1>5, FS_Subset
<1> QED
  BY <1>4, <1>6, FS_CardinalityType

\* How many calls of s give a node back, ask for one, and have one.
Profile(s, g, a, d) == Count(s, Gives) = g /\ Count(s, Asks) = a /\ Count(s, {"dealloc2"}) = d

\* The profile of no call and of one.
LEMMA ProfileOne ==
    /\ << >> \in Seq(CallSet) /\ Profile(<< >>, 0, 0, 0) /\ \A what : ~Has(<< >>, what)
    /\ \A x \in CallSet : Profile(<<x>>, IF x.do \in Gives THEN 1 ELSE 0,
                                  IF x.do \in Asks THEN 1 ELSE 0, IF x.do = "dealloc2" THEN 1 ELSE 0)
<1>1. PICK s \in Seq(CallSet) : s = << >> /\ Len(s) = 0
  <2>1. << >> \in Seq(CallSet) /\ Len(<< >>) = 0
    OBVIOUS
  <2> QED
    BY <2>1
<1>2. \A W : Count(s, W) = 0
  <2>1. \A W : \A k \in 1 .. Len(s) : s[k].do \notin W
    BY <1>1
  <2> QED
    BY <2>1, CountAll
<1>3. \A what : ~Has(s, what)
  BY <1>1 DEF Has
<1>4. Profile(s, 0, 0, 0)
  BY <1>2 DEF Profile
<1>5. ASSUME NEW x \in CallSet
      PROVE  Profile(<<x>>, IF x.do \in Gives THEN 1 ELSE 0,
                     IF x.do \in Asks THEN 1 ELSE 0, IF x.do = "dealloc2" THEN 1 ELSE 0)
  BY CountOne DEF Profile
<1> QED
  BY <1>1, <1>3, <1>4, <1>5

\* The profiles of the calls of t before and after a step, which both go on with u.
Exchange(t, u, g, a, d, h, b, e) ==
    /\ {g, a, d, h, b, e} \subseteq Nat
    /\ \E x, y, z \in Nat : /\ Profile(u, x, y, z)
                            /\ Profile(calls[t], g + x, a + y, d + z)
                            /\ Profile(calls'[t], h + x, b + y, e + z)

\* The profile of the calls before and after a change.
LEMMA ProfileSwap ==
    ASSUME NodesInv, NEW t \in Threads, NEW c, NEW p, NEW u, Swap(t, c, p, u),
           NEW g, NEW a, NEW d, Profile(c, g, a, d), NEW h, NEW b, NEW e, Profile(p, h, b, e)
    PROVE  Exchange(t, u, g, a, d, h, b, e)
<1>1. PICK x, y, z : x = Count(u, Gives) /\ y = Count(u, Asks) /\ z = Count(u, {"dealloc2"})
  OBVIOUS
<1>2. \A W : /\ Count(calls[t], W) = Count(c, W) + Count(u, W)
             /\ Count(calls'[t], W) = Count(p, W) + Count(u, W)
             /\ Count(c, W) \in Nat /\ Count(p, W) \in Nat /\ Count(u, W) \in Nat
  BY SwapFacts
<1>3. x \in Nat /\ y \in Nat /\ z \in Nat /\ {g, a, d, h, b, e} \subseteq Nat
  BY <1>1, <1>2 DEF Profile
<1>4. /\ Profile(u, x, y, z) /\ Profile(calls[t], g + x, a + y, d + z)
      /\ Profile(calls'[t], h + x, b + y, e + z)
  BY <1>1, <1>2 DEF Profile
<1> QED
  BY <1>3, <1>4 DEF Exchange

\* A sequence of calls is its first call and those that remain.
LEMMA SeqSplit ==
    ASSUME NEW s \in Seq(CallSet), s # << >>
    PROVE  /\ Head(s) \in CallSet /\ Tail(s) \in Seq(CallSet) /\ s = <<Head(s)>> \o Tail(s)
           /\ <<Head(s)>> \in Seq(CallSet)
<1>1. PICK x, u : x = Head(s) /\ u = Tail(s)
  OBVIOUS
<1>2. x \in CallSet /\ u \in Seq(CallSet) /\ Len(s) = Len(u) + 1 /\ Len(u) \in Nat /\ x = s[1]
      /\ \A k \in 1 .. Len(s) - 1 : u[k] = s[k + 1]
  BY <1>1, TailReplaced
<1>3. PICK q \in Seq(CallSet) : q = <<x>> /\ Len(q) = 1 /\ q[1] = x
  <2>1. <<x>> \in Seq(CallSet) /\ Len(<<x>>) = 1 /\ <<x>>[1] = x
    BY <1>2
  <2> QED
    BY <2>1
<1>4. PICK n \in Seq(CallSet) : n = q \o u /\ Len(n) = Len(s)
  <2>1. PICK n : n = q \o u
    OBVIOUS
  <2>2. n \in Seq(CallSet) /\ Len(n) = Len(q) + Len(u)
    BY <1>2, <1>3, <2>1, ConcatProperties
  <2>3. Len(n) = Len(s)
    BY <1>2, <1>3, <2>2
  <2> QED
    BY <2>1, <2>2, <2>3
<1>5. \A k \in 1 .. Len(s) : n[k] = s[k]
  <2> SUFFICES ASSUME NEW k \in 1 .. Len(s)
               PROVE  n[k] = s[k]
    OBVIOUS
  <2>1. CASE k = 1
    BY <1>2, <1>3, <1>4, <2>1
  <2>2. CASE k > 1
    <3>1. k - 1 \in 1 .. Len(s) - 1 /\ (k - 1) + 1 = k
      BY <1>2, <2>2
    <3>2. u[k - 1] = s[k]
      BY <1>2, <3>1
    <3>3. n[k] = u[k - 1]
      BY <1>2, <1>3, <1>4, <2>2
    <3> QED
      BY <3>2, <3>3
  <2> QED
    BY <2>1, <2>2
<1>6. n = s /\ <<x>> \o u = s /\ <<x>> \in Seq(CallSet)
  <2>1. n = s
    BY <1>4, <1>5, SeqEqual
  <2> QED
    BY <1>3, <1>4, <2>1
<1> QED
  BY <1>1, <1>2, <1>6

\* The calls of a thread that is to make one.
LEMMA HeadSplit ==
    ASSUME Inv, NEW t \in Threads, calls[t] # << >>
    PROVE  /\ Arg(t) \in CallSet /\ Rest(t) \in Seq(CallSet) /\ calls[t] = <<Arg(t)>> \o Rest(t)
           /\ <<Arg(t)>> \in Seq(CallSet)
           /\ \A p \in Seq(CallSet) : Goto(t, p \o Rest(t)) => Swap(t, <<Arg(t)>>, p, Rest(t))
           /\ Return(t) => Swap(t, <<Arg(t)>>, << >>, Rest(t))
<1>1. PICK s \in Seq(CallSet) : s = calls[t]
  BY DEF Inv, Typed
<1>2. PICK x, u : x = Head(s) /\ u = Tail(s)
  OBVIOUS
<1>3. x \in CallSet /\ u \in Seq(CallSet) /\ s = <<x>> \o u /\ <<x>> \in Seq(CallSet)
  BY <1>1, <1>2, SeqSplit
<1>4. Arg(t) = x /\ Rest(t) = u
  BY <1>1, <1>2 DEF Arg, Rest
<1>5. ASSUME NEW p \in Seq(CallSet), Goto(t, p \o u)
      PROVE  Swap(t, <<x>>, p, u)
  BY <1>1, <1>3, <1>5 DEF Swap, Goto
<1>6. ASSUME Return(t)
      PROVE  Swap(t, <<x>>, << >>, u)
  <2>1. PICK p \in Seq(CallSet) : p = << >>
    BY ProfileOne
  <2>2. p \o u = u
    BY <1>3, <2>1
  <2>3. Goto(t, p \o u)
    BY <1>4, <1>6, <2>2 DEF Return
  <2> QED
    BY <1>5, <2>1, <2>3
<1> QED
  BY <1>1, <1>3, <1>4, <1>5, <1>6

\* What the first call says of those that remain.
LEMMA HeadOrder ==
    ASSUME NodesInv, NEW t \in Threads, calls[t] # << >>
    PROVE  LET what == Arg(t).do
               u    == Rest(t)
           IN  /\ what \in Asks \union {"dealloc", "dealloc2"} =>
                    Count(u, Asks) = 0 /\ ~Has(u, "base_pages") /\ ~Has(u, "postfork")
               /\ what \in {"dealloc", "dealloc2"} => Count(u, {"dealloc2"}) = 0
               /\ what = "postfork" => u = << >>
<1>1. PICK s, u : s = calls[t] /\ u = Rest(t)
  OBVIOUS
<1>2. /\ s \in Seq(CallSet) /\ Len(s) \in Nat \ {0} /\ Head(s) = s[1] /\ u = Tail(s)
      /\ u \in Seq(CallSet) /\ Len(u) = Len(s) - 1 /\ \A k \in 1 .. Len(s) - 1 : u[k] = s[k + 1]
  BY <1>1, HeadFacts DEF NodesInv
<1>3. Ordered(s, 1)
  BY <1>1, <1>2 DEF NodesInv, Nodes, Orders
<1>4. PICK what : what = Arg(t).do /\ what = s[1].do
  BY <1>1, <1>2 DEF Arg
<1>5. \A k \in 1 .. Len(u) : k + 1 \in 1 + 1 .. Len(s) /\ u[k] = s[k + 1]
  BY <1>2
<1>6. /\ what \in Asks \union {"dealloc", "dealloc2"} =>
            \A j \in 1 + 1 .. Len(s) : s[j].do \notin Asks \union {"postfork"}
      /\ what \in {"dealloc", "dealloc2"} => \A j \in 1 + 1 .. Len(s) : s[j].do # "dealloc2"
      /\ what = "postfork" => 1 = Len(s)
  BY <1>3, <1>4 DEF Ordered
<1>7. ASSUME what \in Asks \union {"dealloc", "dealloc2"}
      PROVE  Count(u, Asks) = 0 /\ ~Has(u, "base_pages") /\ ~Has(u, "postfork")
  <2>1. \A k \in 1 .. Len(u) : u[k].do \notin Asks /\ u[k].do # "postfork"
    BY <1>5, <1>6, <1>7
  <2>2. Count(u, Asks) = 0
    BY <1>2, <2>1, CountAll
  <2> QED
    BY <2>1, <2>2 DEF Has, Asks
<1>8. ASSUME what \in {"dealloc", "dealloc2"}
      PROVE  Count(u, {"dealloc2"}) = 0
  <2>1. \A k \in 1 .. Len(u) : u[k].do \notin {"dealloc2"}
    BY <1>5, <1>6, <1>8
  <2> QED
    BY <1>2, <2>1, CountAll
<1>9. what = "postfork" => u = << >>
  BY <1>2, <1>6, EmptySeq
<1> QED
  BY <1>1, <1>4, <1>7, <1>8, <1>9

\* Who holds base_mtx does not change.
LEMMA HeldSwap ==
    ASSUME NodesInv, NEW t \in Threads, NEW c, NEW p, NEW u, Swap(t, c, p, u),
           ~Has(p, "base_pages"), ~Has(p, "postfork"), ~Has(c, "lock_base"),
           owner'["base"] = owner["base"], base_left' = base_left \/ base_left > 0
    PROVE  \A v \in Threads : BaseHeld(v)'
<1>1. /\ calls'[t] = p \o u /\ \A v \in Threads \ {t} : calls'[v] = calls[v]
      /\ \A what : /\ Has(calls[t], what) <=> Has(c, what) \/ Has(u, what)
                   /\ Has(calls'[t], what) <=> Has(p, what) \/ Has(u, what)
  BY SwapFacts
<1>2. \A v \in Threads : BaseHeld(v)
  BY DEF NodesInv, Nodes
<1>3. ASSUME NEW v \in Threads
      PROVE  /\ Has(calls'[v], "base_pages") => Has(calls[v], "base_pages")
             /\ Has(calls'[v], "postfork") /\ ~Has(calls'[v], "lock_base") =>
                   Has(calls[v], "postfork") /\ ~Has(calls[v], "lock_base")
  <2>1. CASE v = t
    BY <1>1, <2>1
  <2>2. CASE v # t
    BY <1>1, <2>2
  <2> QED
    BY <2>1, <2>2
<1>4. base_left > 0 => base_left # 0
  OBVIOUS
<1> QED
  BY <1>2, <1>3, <1>4 DEF BaseHeld

\* A step of thread t: F, H and B more free extents, allocations and base chunks, and d more
\* nodes of the thread.
Ledger(t, F, H, B, d) ==
    /\ F \in Int /\ H \in Int /\ B \in {0, 1} /\ d \in Int
    /\ Cardinality(free') = Cardinality(free) + F /\ Cardinality(huge') = Cardinality(huge) + H
    /\ Cardinality(base_chunks') = Cardinality(base_chunks) + B
    /\ NodesPerChunk * B - (base_left' - base_left) = base_nodes' - base_nodes + F + H + d
    /\ NodesOf(calls'[t], local'[t].node) = NodesOf(calls[t], local[t].node) + d
    /\ \A v \in Threads \ {t} : local'[v] = local[v]

\* A step whose ledger balances preserves what is said of the nodes.
LEMMA LedgerKept ==
    ASSUME NodesInv, Inv', NEW t \in Threads, NEW c, NEW p, NEW u, Swap(t, c, p, u),
           \A k \in 1 .. Len(p) : Ordered(p \o u, k), \A v \in Threads : BaseHeld(v)',
           NEW F, NEW H, NEW B, NEW d, Ledger(t, F, H, B, d)
    PROVE  Nodes'
<1>1. /\ calls'[t] = p \o u /\ \A v \in Threads \ {t} : calls'[v] = calls[v]
      /\ Orders(p \o u)
  BY SwapFacts
<1>2. \A v \in Threads : Orders(calls'[v])
  BY <1>1 DEF NodesInv, Nodes
<1>3. /\ F \in Int /\ H \in Int /\ B \in {0, 1} /\ d \in Int
      /\ Cardinality(free') = Cardinality(free) + F /\ Cardinality(huge') = Cardinality(huge) + H
      /\ Cardinality(base_chunks') = Cardinality(base_chunks) + B
      /\ NodesPerChunk * B - (base_left' - base_left) = base_nodes' - base_nodes + F + H + d
      /\ NodesOf(calls'[t], local'[t].node) = NodesOf(calls[t], local[t].node) + d
      /\ \A v \in Threads \ {t} : local'[v] = local[v]
  BY DEF Ledger
<1>4. /\ Cardinality(free) \in Nat /\ Cardinality(huge) \in Nat /\ Cardinality(base_chunks) \in Nat
  BY FiniteTrees DEF NodesInv
<1>5. NodesPerChunk \in Nat /\ base_left \in Nat /\ base_nodes \in Nat
      /\ base_left' \in Nat /\ base_nodes' \in Nat
  BY ChunksAssumption DEF NodesInv, Inv, Typed
<1>6. PICK n, m, x, y : n = NodesPerChunk * Cardinality(base_chunks) /\ m = Cardinality(base_chunks)
                        /\ x = NodesPerChunk * Cardinality(base_chunks') /\ y = NodesPerChunk * B
  OBVIOUS
<1>7. n \in Nat /\ y \in Nat /\ x = n + y
  <2>1. n = NodesPerChunk * m /\ x = NodesPerChunk * (m + B) /\ m \in Nat
    BY <1>3, <1>4, <1>6
  <2>2. CASE B = 0
    <3>1. y = 0 /\ m + B = m
      BY <1>5, <1>6, <2>1, <2>2
    <3> QED
      BY <1>5, <2>1, <3>1
  <2>3. CASE B = 1
    <3>1. y = NodesPerChunk /\ m + B = m + 1
      BY <1>5, <1>6, <2>1, <2>3
    <3>2. NodesPerChunk * (m + 1) = NodesPerChunk * m + NodesPerChunk
      BY <1>5, <2>1
    <3> QED
      BY <1>5, <2>1, <3>1, <3>2
  <2> QED
    BY <1>3, <2>2, <2>3
<1>8. Made = n - base_left /\ Made' = x - base_left'
  BY <1>6 DEF Made
<1>9. /\ Placed = base_nodes + Cardinality(free) + Cardinality(huge)
      /\ Placed' = base_nodes' + Cardinality(free') + Cardinality(huge')
  BY DEF Placed
<1>10. y - (base_left' - base_left) = base_nodes' - base_nodes + F + H + d
  BY <1>3, <1>6
<1>11. /\ Made \in Int /\ Placed \in Int /\ Made' \in Int /\ Placed' \in Int
       /\ Made' - Placed' = Made - Placed + d
  <2>1. PICK f \in Nat, g \in Nat : f = Cardinality(free) /\ g = Cardinality(huge)
    BY <1>4
  <2>2. Made = n - base_left /\ Made' = (n + y) - base_left'
    <3>1. x = n + y
      BY <1>7
    <3> QED
      BY <1>8, <3>1
  <2>3. Placed = base_nodes + f + g
    BY <1>9, <2>1
  <2>4. Cardinality(free') = f + F /\ Cardinality(huge') = g + H
    BY <1>3, <2>1
  <2>5. Placed' = base_nodes' + (f + F) + (g + H)
    BY <1>9, <2>4
  <2>6. F \in Int /\ H \in Int /\ d \in Int /\ n \in Nat /\ y \in Nat
    BY <1>3, <1>7
  <2>7. PICK i, j, k, l : i = base_left /\ j = base_left' /\ k = base_nodes /\ l = base_nodes'
    OBVIOUS
  <2>8. /\ Made = n - i /\ Made' = (n + y) - j /\ Placed = k + f + g
        /\ Placed' = l + (f + F) + (g + H) /\ y - (j - i) = l - k + F + H + d
        /\ i \in Nat /\ j \in Nat /\ k \in Nat /\ l \in Nat
    BY <1>5, <1>10, <2>2, <2>3, <2>5, <2>7
  <2>9. PICK a, b, v, w : a = Made /\ b = Made' /\ v = Placed /\ w = Placed'
    OBVIOUS
  <2>10. a = n - i /\ b = (n + y) - j /\ v = k + f + g /\ w = l + (f + F) + (g + H)
    BY <2>8, <2>9
  <2>11. /\ a \in Int /\ b \in Int /\ v \in Int /\ w \in Int
         /\ b - w = a - v + d
    BY ONLY <2>1, <2>6, <2>8, <2>10
  <2> QED
    BY <2>9, <2>11
<1>12. Balanced(t, d)
  BY <1>1, <1>3, <1>11 DEF Balanced
<1>13. Typed /\ NodesKept /\ Typed'
  BY DEF NodesInv, Nodes, Inv
<1>14. NodesKept'
  BY <1>12, <1>13, BalancedKept
<1> QED
  BY <1>2, <1>14 DEF Nodes

----------------------------------------------------------------------------
(* The steps and the nodes.  *)

\* A call that asks for a node is replaced by calls of which the last does.
LEMMA OrderTaken ==
    ASSUME NodesInv, NEW t \in Threads, calls[t] # << >>, Arg(t).do \in Asks,
           NEW p \in Seq(CallSet), Len(p) > 0, p[Len(p)].do \in Asks,
           \A k \in 1 .. Len(p) - 1 : p[k].do \in {"recycle", "extend"}
    PROVE  \A k \in 1 .. Len(p) : Ordered(p \o Rest(t), k)
<1>1. PICK s, u, m : s = calls[t] /\ u = Rest(t) /\ m = Len(p)
  OBVIOUS
<1>2. /\ s \in Seq(CallSet) /\ Len(s) \in Nat \ {0} /\ Head(s) = s[1] /\ u = Tail(s)
      /\ u \in Seq(CallSet) /\ Len(u) = Len(s) - 1 /\ \A k \in 1 .. Len(s) - 1 : u[k] = s[k + 1]
  BY <1>1, HeadFacts DEF NodesInv
<1>3. PICK n : n = p \o u
  OBVIOUS
<1>4. m \in Nat \ {0} /\ n \in Seq(CallSet) /\ Len(n) = m + (Len(s) - 1)
      /\ \A k \in 1 .. m : n[k] = p[k]
  <2>1. m \in Nat \ {0}
    BY <1>1
  <2>2. Len(n) = Len(p) + Len(u) /\ n \in Seq(CallSet)
    BY <1>2, <1>3, ConcatProperties
  <2> QED
    BY <1>1, <1>2, <1>3, <2>1, <2>2
<1>5. \A k \in m + 1 .. Len(n) : k - m + 1 \in 2 .. Len(s) /\ n[k] = s[k - m + 1]
  <2> SUFFICES ASSUME NEW k \in m + 1 .. Len(n)
               PROVE  k - m + 1 \in 2 .. Len(s) /\ n[k] = s[k - m + 1]
    OBVIOUS
  <2>1. k - m \in 1 .. Len(s) - 1
    BY <1>2, <1>4
  <2>2. n[k] = u[k - m]
    BY <1>1, <1>2, <1>3, <1>4, <2>1
  <2> QED
    BY <1>2, <1>4, <2>1, <2>2
<1>6. Ordered(s, 1) /\ Follows(s, 1) /\ s[1].do \in Asks
  <2>1. Ordered(s, 1)
    <3>1. Orders(s) /\ 1 \in 1 .. Len(s)
      BY <1>1, <1>2 DEF NodesInv, Nodes
    <3> QED
      BY <3>1 DEF Orders
  <2>2. Follows(s, 1)
    BY <1>1, HeadFacts DEF NodesInv
  <2> QED
    BY <1>1, <1>2, <2>1, <2>2 DEF Arg
<1>7. Ordered(n, m)
  <2>1. \A k \in m + 1 .. Len(n) : n[k].do \notin Asks \union {"postfork"}
    BY <1>5, <1>6 DEF Ordered
  <2>2. n[m].do \in Asks /\ n[m].do \notin {"dealloc", "dealloc2", "postfork"}
    BY <1>1, <1>4 DEF Asks
  <2>3. 1 < Len(s)
    BY <1>6 DEF Follows, Asks
  <2>4. n[m + 1] = s[2]
    BY <1>2, <1>4, <1>5, <2>3
  <2>5. ASSUME n[m + 1].do = "recycle"
        PROVE  m + 3 <= Len(n) /\ n[m + 3].do = "trim"
    <3>1. 1 + 3 <= Len(s) /\ s[1 + 3].do = "trim"
      BY <1>6, <2>4, <2>5 DEF Ordered
    <3>2. PICK k : k = m + 3
      OBVIOUS
    <3>3. k \in m + 1 .. Len(n) /\ k - m + 1 = 1 + 3
      BY <1>2, <1>4, <3>1, <3>2
    <3>4. n[k] = s[k - m + 1]
      BY <1>5, <3>3
    <3>5. n[k] = s[1 + 3]
      BY <3>3, <3>4
    <3> QED
      BY <3>1, <3>2, <3>3, <3>5
  <2> QED
    BY <2>1, <2>2, <2>5 DEF Ordered
<1>8. ASSUME NEW k \in 1 .. m, k # m
      PROVE  Ordered(n, k)
  <2>1. n[k].do \in {"recycle", "extend"}
    BY <1>1, <1>4, <1>8
  <2> QED
    BY <2>1 DEF Ordered, Asks
<1> QED
  BY <1>1, <1>3, <1>7, <1>8

\* The calls that are left when one is made.
LEMMA DoneNodes ==
    ASSUME NodesInv, Inv', NEW t \in Threads, NEW what, At(t, what), Return(t),
           \A v \in Threads : BaseHeld(v)',
           NEW F, NEW H, NEW B, NEW d, Ledger(t, F, H, B, d)
    PROVE  Nodes'
<1>1. Inv /\ calls[t] # << >>
  BY DEF NodesInv, At
<1>2. Swap(t, <<Arg(t)>>, << >>, Rest(t))
  BY <1>1, HeadSplit
<1>3. \A k \in 1 .. Len(<< >>) : Ordered(<< >> \o Rest(t), k)
  OBVIOUS
<1> QED
  BY <1>2, <1>3, LedgerKept

\* Thread t makes a call that is counted as g, a and d say.
Popped(t, g, a, d) ==
    \E x, y, z \in Nat : /\ Profile(Rest(t), x, y, z) /\ Profile(calls'[t], x, y, z)
                         /\ Profile(calls[t], g + x, a + y, d + z)

\* The profiles when a call is made.
LEMMA PopNodes ==
    ASSUME NodesInv, NEW t \in Threads, NEW what, At(t, what), Return(t)
    PROVE  Popped(t, IF what \in Gives THEN 1 ELSE 0, IF what \in Asks THEN 1 ELSE 0,
                  IF what = "dealloc2" THEN 1 ELSE 0)
<1>1. Inv /\ calls[t] # << >> /\ Arg(t).do = what
  BY DEF NodesInv, At, Arg
<1>2. PICK g, a, d : /\ g = (IF what \in Gives THEN 1 ELSE 0) /\ a = (IF what \in Asks THEN 1 ELSE 0)
                     /\ d = (IF what = "dealloc2" THEN 1 ELSE 0)
  OBVIOUS
<1>3. PICK c, p, u : c = <<Arg(t)>> /\ p = << >> /\ u = Rest(t)
  OBVIOUS
<1>4. Swap(t, c, p, u) /\ Arg(t) \in CallSet
  BY <1>1, <1>3, HeadSplit
<1>5. Profile(c, g, a, d) /\ Profile(p, 0, 0, 0)
  BY <1>1, <1>2, <1>3, <1>4, ProfileOne
<1>6. Exchange(t, u, g, a, d, 0, 0, 0)
  BY <1>4, <1>5, ProfileSwap
<1>7. PICK x \in Nat, y \in Nat, z \in Nat :
        /\ Profile(u, x, y, z) /\ Profile(calls[t], g + x, a + y, d + z)
        /\ Profile(calls'[t], 0 + x, 0 + y, 0 + z)
  BY <1>6 DEF Exchange
<1>8. 0 + x = x /\ 0 + y = y /\ 0 + z = z
  BY <1>7
<1>9. Popped(t, g, a, d)
  BY <1>3, <1>7, <1>8 DEF Popped
<1> QED
  BY <1>2, <1>9

\* Calls that are made leave who holds base_mtx alone.
LEMMA PopHeld ==
    ASSUME NodesInv, NEW t \in Threads, NEW what, At(t, what), Return(t), what # "lock_base",
           owner'["base"] = owner["base"], base_left' = base_left \/ base_left > 0
    PROVE  \A v \in Threads : BaseHeld(v)'
<1>1. Inv /\ calls[t] # << >> /\ Arg(t).do = what
  BY DEF NodesInv, At, Arg
<1>2. PICK c, p, u : c = <<Arg(t)>> /\ p = << >> /\ u = Rest(t)
  OBVIOUS
<1>3. Swap(t, c, p, u) /\ Arg(t) \in CallSet
  BY <1>1, <1>2, HeadSplit
<1>4. ~Has(p, "base_pages") /\ ~Has(p, "postfork")
  BY <1>2, ProfileOne
<1>5. ~Has(c, "lock_base")
  BY <1>1, <1>2, <1>3, CountOne
<1> QED
  BY <1>3, <1>4, <1>5, HeldSwap

\* What Set does to the node of a thread.
LEMMA SetNode ==
    ASSUME Inv, NEW t \in Threads, NEW f, NEW v, Set(t, f, v)
    PROVE  /\ \A w \in Threads \ {t} : local'[w] = local[w]
           /\ f = "ret" => local'[t].node = local[t].node
           /\ f = "node" => local'[t].node = v
<1>1. local \in [Threads -> LocalSet] /\ local' = [local EXCEPT ![t][f] = v]
  BY DEF Inv, Typed, Set
<1> QED
  BY <1>1 DEF LocalSet

\* The ledger of a step that leaves the trees and the base chunks alone.
LEMMA LedgerQuiet ==
    ASSUME Inv, NEW t \in Threads, UNCHANGED <<free, huge, base_chunks>>, NEW d \in Int,
           base_left - base_left' = base_nodes' - base_nodes + d,
           base_left' \in Nat, base_nodes' \in Nat,
           NodesOf(calls'[t], local'[t].node) = NodesOf(calls[t], local[t].node) + d,
           \A v \in Threads \ {t} : local'[v] = local[v]
    PROVE  Ledger(t, 0, 0, 0, d)
<1>1. /\ Cardinality(free') = Cardinality(free) + 0 /\ Cardinality(huge') = Cardinality(huge) + 0
      /\ Cardinality(base_chunks') = Cardinality(base_chunks) + 0
  BY FiniteTrees
<1>2. NodesPerChunk * 0 = 0 /\ base_left \in Nat /\ base_nodes \in Nat
  BY ChunksAssumption DEF Inv, Typed
<1>3. NodesPerChunk * 0 - (base_left' - base_left) = base_nodes' - base_nodes + 0 + 0 + d
  BY <1>2
<1> QED
  BY <1>1, <1>3 DEF Ledger

\* base_node_alloc takes a node from the list or goes on to base_alloc.
LEMMA BaseNodeAllocNodes ==
    ASSUME NodesInv, Inv', NEW t \in Threads, BaseNodeAlloc(t)
    PROVE  Nodes'
<1>1. At(t, "base_node_alloc") /\ Inv /\ calls[t] # << >> /\ Arg(t).do = "base_node_alloc"
  BY DEF BaseNodeAlloc, NodesInv, At, Arg
<1>2. UNCHANGED <<free, base_left, base_chunks, huge, owner>>
  BY DEF BaseNodeAlloc, swapVars
<1>3. "base_node_alloc" \in Asks /\ "base_node_alloc" \notin Gives /\ "base_alloc" \in Asks
      /\ "base_alloc" \notin Gives
  BY DEF Asks, Gives
<1>4. CASE base_nodes > 0
  <2>1. base_nodes' = base_nodes - 1 /\ Return(t) /\ Set(t, "node", TRUE)
    BY <1>4 DEF BaseNodeAlloc
  <2>2. \A v \in Threads : BaseHeld(v)'
    BY <1>1, <1>2, <2>1, PopHeld
  <2>3. Popped(t, 0, 1, 0)
    BY <1>1, <1>3, <2>1, PopNodes
  <2>4. local'[t].node = TRUE /\ \A v \in Threads \ {t} : local'[v] = local[v]
    BY <1>1, <2>1, SetNode
  <2>5. NodesOf(calls'[t], local'[t].node) = NodesOf(calls[t], local[t].node) + 1
    BY <2>3, <2>4 DEF Popped, Profile, NodesOf
  <2>6. Ledger(t, 0, 0, 0, 1)
    <3>1. base_left \in Nat /\ base_nodes \in Nat
      BY <1>1, ChunksAssumption DEF Inv, Typed
    <3> QED
      BY <1>1, <1>2, <1>4, <2>1, <2>4, <2>5, <3>1, LedgerQuiet
  <2> QED
    BY <1>1, <2>1, <2>2, <2>6, DoneNodes
<1>5. CASE ~(base_nodes > 0)
  <2>1. Goto(t, <<Do("base_alloc")>> \o Rest(t)) /\ UNCHANGED <<base_nodes, local>>
    BY <1>5 DEF BaseNodeAlloc
  <2>2. PICK c, p, u : c = <<Arg(t)>> /\ p = <<Do("base_alloc")>> /\ u = Rest(t)
    OBVIOUS
  <2>3. PICK x \in CallSet : x = Do("base_alloc") /\ x.do = "base_alloc"
    BY CallFacts DEF Dos
  <2>4. Swap(t, c, p, u) /\ Arg(t) \in CallSet
    BY <1>1, <2>1, <2>2, <2>3, CountOne, HeadSplit
  <2>5. Profile(c, 0, 1, 0) /\ Profile(p, 0, 1, 0)
    BY <1>1, <1>3, <2>2, <2>3, <2>4, ProfileOne
  <2>6. NodesOf(calls'[t], local'[t].node) = NodesOf(calls[t], local[t].node) + 0
    <3>1. Exchange(t, u, 0, 1, 0, 0, 1, 0)
      BY <2>4, <2>5, ProfileSwap
    <3> QED
      BY <2>1, <3>1 DEF Exchange, Profile, NodesOf
  <2>7. Ledger(t, 0, 0, 0, 0)
    <3>1. base_left \in Nat /\ base_nodes \in Nat
      BY <1>1, ChunksAssumption DEF Inv, Typed
    <3> QED
      BY <1>1, <1>2, <2>1, <2>6, <3>1, LedgerQuiet
  <2>8. \A v \in Threads : BaseHeld(v)'
    <3>1. ~Has(p, "base_pages") /\ ~Has(p, "postfork") /\ ~Has(c, "lock_base")
      BY <1>1, <2>2, <2>3, <2>4, CountOne
    <3> QED
      BY <1>2, <2>4, <3>1, HeldSwap
  <2>9. \A k \in 1 .. Len(p) : Ordered(p \o u, k)
    <3>1. p \in Seq(CallSet) /\ Len(p) = 1 /\ p[1] = x
      BY <2>2, <2>3
    <3>2. \A k \in 1 .. Len(p) - 1 : p[k].do \in {"recycle", "extend"}
      BY <3>1
    <3>3. p[Len(p)].do \in Asks /\ Arg(t).do \in Asks /\ Len(p) > 0
      BY <1>1, <1>3, <2>3, <3>1
    <3> QED
      BY <1>1, <2>2, <3>1, <3>2, <3>3, OrderTaken
  <2> QED
    BY <2>4, <2>7, <2>8, <2>9, LedgerKept
<1> QED
  BY <1>4, <1>5

\* base_mtx is taken: no other thread waits for a chunk of nodes or copies the heap.
LEMMA HoldHeld ==
    ASSUME NodesInv, NEW t \in Threads, Hold(t, "base"), base_left' = base_left,
           \A v \in Threads \ {t} : calls'[v] = calls[v],
           Has(calls'[t], "base_pages") => base_left = 0 \/ Has(calls[t], "base_pages")
    PROVE  \A v \in Threads : BaseHeld(v)'
<1>1. \A v \in Threads : BaseHeld(v)
  BY DEF NodesInv, Nodes
<1>2. owner["base"] = NoThread /\ owner'["base"] = t
  BY DEF Hold, Free, NodesInv, Inv, Typed, Mutexes
<1>3. \A v \in Threads : owner["base"] # v
  BY <1>2, ChunksAssumption
<1> QED
  BY <1>1, <1>2, <1>3 DEF BaseHeld

\* base_mtx is released by the thread that held it, which has no use for it any more.
LEMMA UnlockHeld ==
    ASSUME NodesInv, NEW t \in Threads, owner["base"] = t,
           \A v \in Threads \ {t} : calls'[v] = calls[v],
           ~Has(calls'[t], "base_pages"), ~Has(calls'[t], "postfork")
    PROVE  \A v \in Threads : BaseHeld(v)'
<1>1. \A v \in Threads : BaseHeld(v)
  BY DEF NodesInv, Nodes
<1> QED
  BY <1>1 DEF BaseHeld

\* base_alloc has room for a node or asks for a chunk with base_mtx held.
LEMMA BaseAllocNodes ==
    ASSUME NodesInv, Inv', NEW t \in Threads, BaseAlloc(t)
    PROVE  Nodes'
<1>1. At(t, "base_alloc") /\ Inv /\ calls[t] # << >> /\ Arg(t).do = "base_alloc"
  BY DEF BaseAlloc, NodesInv, At, Arg
<1>2. UNCHANGED <<free, base_nodes, base_chunks, huge>>
  BY DEF BaseAlloc, swapVars
<1>3. "base_alloc" \in Asks /\ "base_alloc" \notin Gives /\ "base_pages" \in Asks
      /\ "base_pages" \notin Gives /\ {"recycle", "extend"} \intersect (Asks \union Gives) = {}
  BY DEF Asks, Gives
<1>4. base_left \in Nat /\ base_nodes \in Nat
  BY <1>1, ChunksAssumption DEF Inv, Typed
<1>5. CASE base_left > 0 /\ base_left' = base_left - 1 /\ Return(t) /\ Set(t, "node", TRUE)
           /\ UNCHANGED owner
  <2>1. \A v \in Threads : BaseHeld(v)'
    BY <1>1, <1>5, PopHeld
  <2>2. Popped(t, 0, 1, 0)
    BY <1>1, <1>3, <1>5, PopNodes
  <2>3. local'[t].node = TRUE /\ \A v \in Threads \ {t} : local'[v] = local[v]
    BY <1>1, <1>5, SetNode
  <2>4. NodesOf(calls'[t], local'[t].node) = NodesOf(calls[t], local[t].node) + 1
    BY <2>2, <2>3 DEF Popped, Profile, NodesOf
  <2>5. Ledger(t, 0, 0, 0, 1)
    BY <1>1, <1>2, <1>4, <1>5, <2>3, <2>4, LedgerQuiet
  <2> QED
    BY <1>1, <1>5, <2>1, <2>5, DoneNodes
<1>6. CASE /\ base_left = 0 /\ Hold(t, "base")
           /\ Goto(t, ChunkAlloc(1) \o <<Do("base_pages")>> \o Rest(t))
           /\ UNCHANGED <<base_left, local>>
  <2>1. PICK a \in CallSet, b \in CallSet, x \in CallSet :
          /\ a = Call("recycle", NULL, 1) /\ a.do = "recycle"
          /\ b = Call("extend", NULL, 1) /\ b.do = "extend"
          /\ x = Do("base_pages") /\ x.do = "base_pages"
    BY CallFacts DEF Dos
  <2>2. PICK c, p, u : c = <<Arg(t)>> /\ p = ChunkAlloc(1) \o <<x>> /\ u = Rest(t)
    OBVIOUS
  <2>3. /\ p \in Seq(CallSet) /\ Len(p) = 3 /\ p[1] = a /\ p[2] = b /\ p[3] = x
        /\ Profile(p, 0, 1, 0) /\ \A what : Has(p, what) <=> what \in {"recycle", "extend", "base_pages"}
    <3>1. PICK q, r : q = <<a, b>> /\ r = <<x>>
      OBVIOUS
    <3>2. /\ q \in Seq(CallSet) /\ r \in Seq(CallSet) /\ Len(q) = 2 /\ Len(r) = 1
          /\ q[1] = a /\ q[2] = b /\ r[1] = x
      BY <3>1
    <3>3. p = q \o r
      BY <2>1, <2>2, <3>1 DEF ChunkAlloc
    <3>4. p = <<a, b>> \o <<x>> /\ p \in Seq(CallSet) /\ Len(p) = 3
      <4>1. p \in Seq(CallSet) /\ Len(p) = Len(q) + Len(r)
        BY <3>2, <3>3, ConcatProperties
      <4> QED
        BY <3>1, <3>2, <3>3, <4>1
    <3>5. p[1] = a /\ p[2] = b /\ p[3] = x
      BY <3>4
    <3>6. \A W : \A k \in 1 .. Len(q) : W \intersect {"recycle", "extend"} = {} => q[k].do \notin W
      <4>1. \A k \in 1 .. Len(q) : k = 1 \/ k = 2
        BY <3>2
      <4> QED
        BY <2>1, <3>2, <4>1
    <3>7. Count(q, Gives) = 0 /\ Count(q, Asks) = 0 /\ Count(q, {"dealloc2"}) = 0
      <4>1. Gives \intersect {"recycle", "extend"} = {} /\ Asks \intersect {"recycle", "extend"} = {}
            /\ {"dealloc2"} \intersect {"recycle", "extend"} = {}
        BY <1>3
      <4> QED
        BY <3>2, <3>6, <4>1, CountAll
    <3>8. Count(r, Gives) = 0 /\ Count(r, Asks) = 1 /\ Count(r, {"dealloc2"}) = 0
      BY <1>3, <2>1, <3>1, CountOne
    <3>9. Profile(p, 0, 1, 0)
      BY <3>2, <3>3, <3>7, <3>8, CountConcat DEF Profile
    <3>10. \A k \in 1 .. Len(p) : k = 1 \/ k = 2 \/ k = 3
      BY <3>4
    <3>11. \A what : Has(p, what) <=> what \in {"recycle", "extend", "base_pages"}
      BY <2>1, <3>4, <3>5, <3>10 DEF Has
    <3> QED
      BY <3>4, <3>5, <3>9, <3>11
  <2>4. Swap(t, c, p, u) /\ Arg(t) \in CallSet
    <3>1. Goto(t, p \o Rest(t))
      BY <1>6, <2>1, <2>2
    <3> QED
      BY <1>1, <2>2, <2>3, <3>1, HeadSplit
  <2>5. Profile(c, 0, 1, 0)
    BY <1>1, <1>3, <2>2, <2>4, ProfileOne
  <2>6. NodesOf(calls'[t], local'[t].node) = NodesOf(calls[t], local[t].node) + 0
    <3>1. Exchange(t, u, 0, 1, 0, 0, 1, 0)
      BY <2>3, <2>4, <2>5, ProfileSwap
    <3> QED
      BY <1>6, <3>1 DEF Exchange, Profile, NodesOf
  <2>7. Ledger(t, 0, 0, 0, 0)
    BY <1>1, <1>2, <1>4, <1>6, <2>6, LedgerQuiet
  <2>8. \A v \in Threads : BaseHeld(v)'
    <3>1. \A v \in Threads \ {t} : calls'[v] = calls[v]
      BY <2>4, SwapFacts
    <3> QED
      BY <1>6, <3>1, HoldHeld
  <2>9. \A k \in 1 .. Len(p) : Ordered(p \o u, k)
    <3>1. \A k \in 1 .. Len(p) - 1 : p[k].do \in {"recycle", "extend"}
      <4>1. \A k \in 1 .. Len(p) - 1 : k = 1 \/ k = 2
        BY <2>3
      <4> QED
        BY <2>1, <2>3, <4>1
    <3>2. p[Len(p)].do \in Asks /\ Arg(t).do \in Asks /\ Len(p) > 0
      BY <1>1, <1>3, <2>1, <2>3
    <3> QED
      BY <1>1, <2>2, <2>3, <3>1, <3>2, OrderTaken
  <2> QED
    BY <2>4, <2>7, <2>8, <2>9, LedgerKept
<1> QED
  BY <1>5, <1>6 DEF BaseAlloc

\* The calls of malloc from the one that asks for a node: it takes one and gives one.
LEMMA ProfileMalloc ==
    ASSUME NEW s \in Seq(CallSet), Len(s) = 4, s[1].do \in Asks, s[2].do = "recycle",
           s[3].do = "extend", s[4].do = "trim"
    PROVE  Profile(s, 1, 1, 0)
<1>1. \A k \in 1 .. Len(s) : k = 1 \/ k = 2 \/ k = 3 \/ k = 4
  OBVIOUS
<1>2. {k \in 1 .. Len(s) : s[k].do \in Gives} = {4}
  BY <1>1 DEF Gives, Asks
<1>3. {k \in 1 .. Len(s) : s[k].do \in Asks} = {1}
  BY <1>1 DEF Asks
<1>4. \A k \in 1 .. Len(s) : s[k].do \notin {"dealloc2"}
  BY <1>1 DEF Asks
<1>5. Count(s, Gives) = 1 /\ Count(s, Asks) = 1
  BY <1>2, <1>3, FS_Singleton DEF Count
<1>6. Count(s, {"dealloc2"}) = 0
  BY <1>4, CountAll
<1> QED
  BY <1>5, <1>6 DEF Profile

\* The calls after base_pages: chunk_dealloc_swap goes on, or malloc has got no chunks.
LEMMA AfterPages ==
    ASSUME NodesInv, NEW t \in Threads, At(t, "base_pages")
    PROVE  \/ /\ Head(Rest(t)).do = "dealloc2" /\ Count(Rest(t), {"dealloc2"}) = 1
           \/ Head(Rest(t)).do # "dealloc2" /\ Profile(calls[t], 1, 1, 0)
<1>1. PICK s, u : s = calls[t] /\ u = Rest(t)
  OBVIOUS
<1>2. calls[t] # << >> /\ Inv
  BY DEF At, NodesInv
<1>3. /\ s \in Seq(CallSet) /\ Len(s) \in Nat \ {0} /\ Head(s) = s[1] /\ u = Tail(s) /\ Follows(s, 1)
      /\ u \in Seq(CallSet) /\ Len(u) = Len(s) - 1 /\ \A k \in 1 .. Len(s) - 1 : u[k] = s[k + 1]
  BY <1>1, <1>2, HeadFacts
<1>4. Script(s) /\ Orders(s)
  BY <1>1, <1>2 DEF NodesInv, Nodes, Inv, Scripts
<1>5. s[1].do = "base_pages"
  BY <1>1, <1>3 DEF At
<1>6. 1 < Len(s) /\ s[1 + 1].do \in {"dealloc2", "recycle"}
  BY <1>3, <1>5 DEF Follows
<1>7. Len(u) > 0 /\ u[1] = s[2] /\ Head(u) = u[1] /\ u # << >>
  <2>1. Len(u) > 0 /\ 1 \in 1 .. Len(s) - 1
    BY <1>3, <1>6
  <2>2. u[1] = s[1 + 1]
    BY <1>3, <2>1
  <2>3. Len(<< >>) = 0
    OBVIOUS
  <2>4. u # << >>
    BY <2>1, <2>3
  <2>5. Head(u) = u[1]
    BY <1>3, <2>4, TailReplaced
  <2> QED
    BY <2>1, <2>2, <2>4, <2>5
<1>8. s[2].do \in {"dealloc2", "recycle"} /\ 1 \in 1 .. Len(s) /\ 2 \in 1 .. Len(s)
  BY <1>3, <1>6
<1>9. Ordered(s, 1) /\ Ordered(s, 2) /\ Follows(s, 2)
  BY <1>4, <1>8 DEF Orders, Script
<1>10. CASE s[2].do = "dealloc2"
  <2>1. \A j \in 2 + 1 .. Len(s) : s[j].do # "dealloc2"
    BY <1>9, <1>10 DEF Ordered
  <2>2. PICK x, w : x = Head(u) /\ w = Tail(u)
    OBVIOUS
  <2>3. x \in CallSet /\ w \in Seq(CallSet) /\ u = <<x>> \o w /\ <<x>> \in Seq(CallSet)
    BY <1>3, <1>7, <2>2, SeqSplit
  <2>4. Len(w) = Len(u) - 1 /\ \A k \in 1 .. Len(u) - 1 : w[k] = u[k + 1]
    BY <1>3, <1>7, <2>2, TailReplaced
  <2>5. \A k \in 1 .. Len(w) : w[k].do \notin {"dealloc2"}
    <3> SUFFICES ASSUME NEW k \in 1 .. Len(w)
                 PROVE  w[k].do # "dealloc2"
      OBVIOUS
    <3>1. PICK j : j = k + 1
      OBVIOUS
    <3>2. j \in 1 .. Len(s) - 1 /\ j + 1 \in 2 + 1 .. Len(s) /\ k \in 1 .. Len(u) - 1
      BY <1>3, <2>4, <3>1
    <3>3. w[k] = u[j] /\ u[j] = s[j + 1]
      BY <1>3, <2>4, <3>1, <3>2
    <3> QED
      BY <2>1, <3>2, <3>3
  <2>6. Count(w, {"dealloc2"}) = 0
    BY <2>3, <2>5, CountAll
  <2>7. Count(<<x>>, {"dealloc2"}) = 1
    BY <1>7, <1>10, <2>2, <2>3, CountOne
  <2>8. Count(u, {"dealloc2"}) = 1
    <3>1. PICK q \in Seq(CallSet) : q = <<x>>
      BY <2>3
    <3>2. Count(q \o w, {"dealloc2"}) = Count(q, {"dealloc2"}) + Count(w, {"dealloc2"})
      BY <2>3, CountConcat
    <3>3. q \o w = u
      BY <2>3, <3>1
    <3>4. Count(q, {"dealloc2"}) = 1
      BY <2>7, <3>1
    <3>5. Count(u, {"dealloc2"}) = 1 + 0
      BY <2>6, <3>2, <3>3, <3>4
    <3> QED
      BY <3>5
  <2> QED
    BY <1>1, <1>7, <1>10, <2>8
<1>11. CASE s[2].do = "recycle"
  <2>1. 1 + 3 <= Len(s) /\ s[1 + 3].do = "trim"
    <3>1. s[1 + 1].do = "recycle" /\ s[1].do \in Asks
      BY <1>5, <1>11 DEF Asks
    <3> QED
      BY <1>9, <3>1 DEF Ordered
  <2>2. s[4].do = "trim" /\ 4 \in 1 .. Len(s)
    BY <1>3, <2>1
  <2>3. Follows(s, 4)
    BY <1>4, <2>2 DEF Script
  <2>4. Len(s) = 4
    BY <2>2, <2>3 DEF Follows
  <2>5. s[2 + 1].do = "extend"
    BY <1>9, <1>11 DEF Follows
  <2>6. s[3].do = "extend"
    BY <2>5
  <2>7. s[1].do \in Asks
    BY <1>5 DEF Asks
  <2>8. Profile(s, 1, 1, 0)
    BY <1>3, <1>11, <2>2, <2>4, <2>6, <2>7, ProfileMalloc
  <2> QED
    BY <1>1, <1>7, <1>11, <2>8
<1> QED
  BY <1>8, <1>10, <1>11

\* base_pages has a chunk, and makes nodes of it, or not, and malloc ends.
LEMMA BasePagesNodes ==
    ASSUME NodesInv, Inv', NEW t \in Threads, BasePages(t)
    PROVE  Nodes'
<1>1. At(t, "base_pages") /\ Inv /\ calls[t] # << >> /\ Arg(t).do = "base_pages"
  BY DEF BasePages, NodesInv, At, Arg
<1>2. UNCHANGED <<free, base_nodes, huge>>
  BY DEF BasePages, swapVars
<1>3. "base_pages" \in Asks /\ "base_pages" \notin Gives
  BY DEF Asks, Gives
<1>4. PICK c, u : c = <<Arg(t)>> /\ u = Rest(t)
  OBVIOUS
<1>5. /\ Arg(t) \in CallSet /\ u \in Seq(CallSet) /\ calls[t] = c \o u /\ c \in Seq(CallSet)
      /\ Count(u, Asks) = 0 /\ ~Has(u, "base_pages") /\ ~Has(u, "postfork")
  <2>1. Arg(t).do \in Asks
    BY <1>1, <1>3
  <2> QED
    BY <1>1, <1>4, <2>1, HeadSplit, HeadOrder
<1>6. owner["base"] = t /\ base_left = 0
  <2>1. Has(c, "base_pages")
    BY <1>1, <1>4, <1>5, CountOne
  <2>2. Has(calls[t], "base_pages")
    BY <1>5, <2>1, HasConcat
  <2> QED
    BY <2>2 DEF NodesInv, Nodes, BaseHeld
<1>7. base_nodes \in Nat /\ NodesPerChunk \in Nat \ {0}
  BY <1>1, ChunksAssumption DEF Inv, Typed
<1>8. CASE local[t].ret # NULL
  <2>1. /\ Set(t, "node", TRUE) /\ Return(t) /\ base_left' = NodesPerChunk - 1
        /\ base_chunks' = base_chunks \union {local[t].ret}
    BY <1>8 DEF BasePages
  <2>2. local'[t].node = TRUE /\ \A v \in Threads \ {t} : local'[v] = local[v]
    BY <1>1, <2>1, SetNode
  <2>3. Popped(t, 0, 1, 0)
    BY <1>1, <1>3, <2>1, PopNodes
  <2>4. NodesOf(calls'[t], local'[t].node) = NodesOf(calls[t], local[t].node) + 1
    BY <2>2, <2>3 DEF Popped, Profile, NodesOf
  <2>5. local[t].ret \notin base_chunks
    <3>1. Extent(local[t].ret, Taken(Head(calls[t]))) \in InHand(t)
      <4>1. User(Head(calls[t]))
        BY <1>1 DEF User, At
      <4>2. Cold(Rest(t), NULL)
        BY <1>4, <1>5, ColdFacts
      <4> QED
        BY <1>1, <1>8, <4>1, <4>2, UserDone
    <3>2. Taken(Head(calls[t])) = 1
      BY <1>1 DEF Taken, At
    <3>3. PICK e : e = Extent(local[t].ret, 1)
      OBVIOUS
    <3>4. Piece("hand", t, e) \in Pieces /\ e \in Ext
      BY <1>1, <3>1, <3>2, <3>3, ExtentFacts
    <3>5. SUFFICES ASSUME local[t].ret \in base_chunks
                   PROVE  FALSE
      OBVIOUS
    <3>6. Piece("base", NoThread, e) \in Pieces
      BY <3>3, <3>5, PiecesAre DEF Single
    <3>7. Apart(e, e)
      BY <1>1, <3>4, <3>6, PieceFacts DEF Inv, Divided, Separate
    <3> QED
      BY <3>4, <3>7 DEF Apart, End, Ext
  <2>6. Cardinality(base_chunks') = Cardinality(base_chunks) + 1
    BY <1>1, <2>1, <2>5, FiniteTrees, FS_AddElement
  <2>7. Ledger(t, 0, 0, 1, 1)
    <3>1. NodesPerChunk * 1 = NodesPerChunk
      BY <1>7
    <3>2. NodesPerChunk * 1 - (base_left' - base_left) = base_nodes' - base_nodes + 0 + 0 + 1
      BY <1>2, <1>6, <1>7, <2>1, <3>1
    <3>3. Cardinality(free') = Cardinality(free) + 0 /\ Cardinality(huge') = Cardinality(huge) + 0
      BY <1>1, <1>2, FiniteTrees
    <3> QED
      BY <2>2, <2>4, <2>6, <3>2, <3>3 DEF Ledger
  <2>8. Swap(t, c, << >>, u)
    BY <1>1, <1>4, <2>1, HeadSplit
  <2>9. \A v \in Threads : BaseHeld(v)'
    <3>1. /\ \A v \in Threads \ {t} : calls'[v] = calls[v]
          /\ ~Has(calls'[t], "base_pages") /\ ~Has(calls'[t], "postfork")
      BY <1>5, <2>8, SwapFacts, ProfileOne
    <3> QED
      BY <1>6, <3>1, UnlockHeld
  <2> QED
    BY <1>1, <2>1, <2>7, <2>9, DoneNodes
<1>9. CASE local[t].ret = NULL
  <2>1. /\ Set(t, "node", FALSE) /\ UNCHANGED <<base_left, base_chunks>>
        /\ Goto(t, IF Head(Rest(t)).do = "dealloc2" THEN Rest(t) ELSE << >>)
    BY <1>9 DEF BasePages
  <2>2. local'[t].node = FALSE /\ \A v \in Threads \ {t} : local'[v] = local[v]
    BY <1>1, <2>1, SetNode
  <2>3. CASE Head(Rest(t)).do = "dealloc2" /\ Count(Rest(t), {"dealloc2"}) = 1
    <3>1. Return(t)
      BY <2>1, <2>3 DEF Return
    <3>2. Popped(t, 0, 1, 0)
      BY <1>1, <1>3, <3>1, PopNodes
    <3>3. NodesOf(calls'[t], local'[t].node) = NodesOf(calls[t], local[t].node) + 0
      BY <1>4, <1>5, <2>2, <2>3, <3>2 DEF Popped, Profile, NodesOf
    <3>4. Ledger(t, 0, 0, 0, 0)
      BY <1>1, <1>2, <1>6, <1>7, <2>1, <2>2, <3>3, LedgerQuiet
    <3>5. Swap(t, c, << >>, u)
      BY <1>1, <1>4, <3>1, HeadSplit
    <3>6. \A v \in Threads : BaseHeld(v)'
      <4>1. /\ \A v \in Threads \ {t} : calls'[v] = calls[v]
            /\ ~Has(calls'[t], "base_pages") /\ ~Has(calls'[t], "postfork")
        BY <1>5, <3>5, SwapFacts, ProfileOne
      <4> QED
        BY <1>6, <4>1, UnlockHeld
    <3> QED
      BY <1>1, <3>1, <3>4, <3>6, DoneNodes
  <2>4. CASE Head(Rest(t)).do # "dealloc2" /\ Profile(calls[t], 1, 1, 0)
    <3>1. PICK s, p : s = calls[t] /\ p = << >>
      OBVIOUS
    <3>2. p \in Seq(CallSet) /\ s \in Seq(CallSet) /\ p \o p = p /\ s \o p = s /\ Goto(t, p)
      BY <1>5, <2>1, <2>4, <3>1, ProfileOne
    <3>3. Swap(t, s, p, p)
      BY <3>1, <3>2 DEF Swap, Goto
    <3>4. Profile(s, 1, 1, 0) /\ Profile(p, 0, 0, 0) /\ \A what : ~Has(p, what)
      BY <2>4, <3>1, ProfileOne
    <3>5. calls'[t] = p /\ \A v \in Threads \ {t} : calls'[v] = calls[v]
      BY <3>2, <3>3, SwapFacts
    <3>6. NodesOf(calls'[t], local'[t].node) = NodesOf(calls[t], local[t].node) + 0
      BY <2>2, <3>1, <3>4, <3>5 DEF Profile, NodesOf
    <3>7. Ledger(t, 0, 0, 0, 0)
      BY <1>1, <1>2, <1>6, <1>7, <2>1, <2>2, <3>6, LedgerQuiet
    <3>8. \A v \in Threads : BaseHeld(v)'
      BY <1>6, <3>4, <3>5, UnlockHeld
    <3>9. \A k \in 1 .. Len(p) : Ordered(p \o p, k)
      BY <3>1
    <3> QED
      BY <3>3, <3>7, <3>8, <3>9, LedgerKept
  <2> QED
    BY <1>1, <2>3, <2>4, AfterPages
<1> QED
  BY <1>8, <1>9

\* A node goes back to the list.
LEMMA BaseNodeDeallocNodes ==
    ASSUME NodesInv, Inv', NEW t \in Threads, BaseNodeDealloc(t)
    PROVE  Nodes'
<1>1. At(t, "base_node_dealloc") /\ Inv /\ Return(t) /\ base_nodes' = base_nodes + 1
      /\ UNCHANGED <<free, base_left, base_chunks, huge, owner, local>>
  BY DEF BaseNodeDealloc, NodesInv, swapVars
<1>2. Popped(t, 1, 0, 0)
  BY <1>1, PopNodes DEF Gives, Asks
<1>3. NodesOf(calls'[t], local'[t].node) = NodesOf(calls[t], local[t].node) + (-1)
  BY <1>1, <1>2 DEF Popped, Profile, NodesOf
<1>4. base_left \in Nat /\ base_nodes \in Nat
  BY <1>1, ChunksAssumption DEF Inv, Typed
<1>5. Ledger(t, 0, 0, 0, -1)
  BY <1>1, <1>3, <1>4, LedgerQuiet
<1>6. \A v \in Threads : BaseHeld(v)'
  BY <1>1, PopHeld
<1> QED
  BY <1>1, <1>5, <1>6, DoneNodes

\* A step that makes a call, and moves no node.
LEMMA IdleNodes ==
    ASSUME NodesInv, Inv', NEW t \in Threads, NEW what, At(t, what), Return(t),
           what \notin Gives \union Asks \union {"dealloc2"},
           UNCHANGED <<free, base_left, base_nodes, base_chunks, huge>>,
           local'[t].node = local[t].node, \A v \in Threads \ {t} : local'[v] = local[v],
           \A v \in Threads : BaseHeld(v)'
    PROVE  Nodes'
<1>1. Inv
  BY DEF NodesInv
<1>2. Popped(t, 0, 0, 0)
  BY PopNodes
<1>3. NodesOf(calls'[t], local'[t].node) = NodesOf(calls[t], local[t].node) + 0
  BY <1>2 DEF Popped, Profile, NodesOf
<1>4. base_left \in Nat /\ base_nodes \in Nat
  BY <1>1, ChunksAssumption DEF Inv, Typed
<1>5. Ledger(t, 0, 0, 0, 0)
  BY <1>1, <1>3, <1>4, LedgerQuiet
<1> QED
  BY <1>5, DoneNodes

\* swap_mtx is released.
LEMMA UnlockSwapNodes ==
    ASSUME NodesInv, Inv', NEW t \in Threads, UnlockSwap(t)
    PROVE  Nodes'
<1>1. At(t, "unlock_swap") /\ Return(t) /\ owner' = [owner EXCEPT !["swap"] = NoThread]
      /\ UNCHANGED <<free, base_left, base_nodes, base_chunks, huge, local>>
  BY DEF UnlockSwap, Unlock, swapVars, baseVars
<1>2. owner'["base"] = owner["base"]
  BY <1>1 DEF NodesInv, Inv, Typed, Mutexes
<1>3. \A v \in Threads : BaseHeld(v)'
  BY <1>1, <1>2, PopHeld
<1>4. "unlock_swap" \notin Gives \union Asks \union {"dealloc2"}
  BY DEF Gives, Asks
<1> QED
  BY <1>1, <1>3, <1>4, IdleNodes

\* Thread t makes the calls p instead of c, of which as many as nodes give one back.
LeftBy(t, c, u, nodes, p) ==
    /\ Swap(t, c, p, u) /\ Profile(p, nodes, 0, 0)
    /\ ~Has(p, "base_pages") /\ ~Has(p, "postfork")
    /\ \A k \in 1 .. Len(p) : Ordered(p \o u, k)

\* The calls that give nodes back before swap_mtx is released.
LEMMA LeaveNodes ==
    ASSUME NodesInv, NEW t \in Threads, NEW c \in Seq(CallSet), NEW u \in Seq(CallSet),
           calls[t] = c \o u, NEW nodes \in Nat, Leave(t, nodes, u)
    PROVE  owner'["base"] = owner["base"] /\ \E p : LeftBy(t, c, u, nodes, p)
<1>1. CASE nodes = 0
  <2>1. Goto(t, u) /\ owner' = owner
    BY <1>1 DEF Leave
  <2>2. PICK p \in Seq(CallSet) : p = << >> /\ Profile(p, 0, 0, 0) /\ \A what : ~Has(p, what)
    BY ProfileOne
  <2>3. p \o u = u /\ Len(p) = 0
    BY <2>2
  <2>4. Swap(t, c, p, u)
    BY <2>1, <2>3 DEF Swap, Goto
  <2>5. \A k \in 1 .. Len(p) : Ordered(p \o u, k)
    BY <2>3
  <2>6. LeftBy(t, c, u, nodes, p)
    BY <1>1, <2>2, <2>4, <2>5 DEF LeftBy
  <2> QED
    BY <2>1, <2>6
<1>2. CASE nodes # 0
  <2>1. PICK x \in CallSet, y \in CallSet :
          /\ x = Do("base_node_dealloc") /\ x.do = "base_node_dealloc"
          /\ y = Do("unlock_swap") /\ y.do = "unlock_swap"
    BY CallFacts DEF Dos
  <2>2. PICK q, r : q = [k \in 1 .. nodes |-> x] /\ r = <<y>>
    OBVIOUS
  <2>3. /\ q \in Seq(CallSet) /\ Len(q) = nodes /\ \A k \in 1 .. nodes : q[k] = x
        /\ r \in Seq(CallSet) /\ Len(r) = 1 /\ r[1] = y
    BY <2>2
  <2>4. PICK p : p = q \o r
    OBVIOUS
  <2>5. p \in Seq(CallSet) /\ Len(p) = nodes + 1
    <3>1. p \in Seq(CallSet) /\ Len(p) = Len(q) + Len(r)
      BY <2>3, <2>4, ConcatProperties
    <3> QED
      BY <2>3, <3>1
  <2>6. ASSUME NEW k \in 1 .. Len(p)
        PROVE  p[k].do \in {"base_node_dealloc", "unlock_swap"}
    <3>1. CASE k <= nodes
      BY <2>1, <2>3, <2>4, <2>5, <3>1
    <3>2. CASE k = nodes + 1
      <4>1. p[k] = r[1]
        BY <2>3, <2>4, <2>5, <3>2
      <4> QED
        BY <2>1, <2>3, <4>1
    <3> QED
      BY <2>5, <3>1, <3>2
  <2>7. Goto(t, p \o u) /\ owner' = [owner EXCEPT !["swap"] = t]
    <3>1. nodes # 0 /\ Hold(t, "swap") /\ Goto(t, q \o r \o u)
      BY <1>2, <2>1, <2>2 DEF Leave
    <3> QED
      BY <2>4, <3>1 DEF Hold
  <2>8. Swap(t, c, p, u)
    BY <2>5, <2>7 DEF Swap, Goto
  <2>9. Profile(p, nodes, 0, 0)
    <3>1. "base_node_dealloc" \in Gives /\ "base_node_dealloc" \notin Asks
          /\ "unlock_swap" \notin Gives /\ "unlock_swap" \notin Asks
      BY DEF Gives, Asks
    <3>2. Count(q, Gives) = nodes /\ Count(q, Asks) = 0 /\ Count(q, {"dealloc2"}) = 0
      <4>1. /\ \A k \in 1 .. Len(q) : q[k].do \in Gives
            /\ \A k \in 1 .. Len(q) : q[k].do \notin Asks
            /\ \A k \in 1 .. Len(q) : q[k].do \notin {"dealloc2"}
        BY <2>1, <2>3, <3>1
      <4> QED
        BY <2>3, <4>1, CountAll
    <3>3. Count(r, Gives) = 0 /\ Count(r, Asks) = 0 /\ Count(r, {"dealloc2"}) = 0
      BY <2>1, <2>2, <3>1, CountOne
    <3> QED
      BY <2>3, <2>4, <3>2, <3>3, CountConcat DEF Profile
  <2>10. ~Has(p, "base_pages") /\ ~Has(p, "postfork")
    BY <2>6 DEF Has
  <2>11. ASSUME NEW k \in 1 .. Len(p)
         PROVE  Ordered(p \o u, k)
    <3>1. PICK n : n = p \o u
      OBVIOUS
    <3>2. n[k] = p[k]
      BY <2>5, <3>1
    <3>3. n[k].do \in {"base_node_dealloc", "unlock_swap"}
      BY <2>6, <3>2
    <3>4. Ordered(n, k)
      BY <3>3 DEF Ordered, Asks
    <3> QED
      BY <3>1, <3>4
  <2>12. owner'["base"] = owner["base"]
    BY <2>7 DEF NodesInv, Inv, Typed, Mutexes
  <2>13. LeftBy(t, c, u, nodes, p)
    BY <2>8, <2>9, <2>10, <2>11 DEF LeftBy
  <2> QED
    BY <2>12, <2>13
<1> QED
  BY <1>1, <1>2

\* Instead of c and u the thread is to make u, and has k nodes for what it did.
Spent(t, c, u, k) ==
    \/ k = 0 /\ Profile(c, 0, 0, 0)
    \/ k = 1 /\ Profile(c, 0, 0, 1) /\ local[t].node
    \/ k = 0 /\ Profile(c, 0, 0, 1) /\ ~local[t].node /\ Count(u, Asks) = 0

\* A critical section of swap_mtx after which all nodes but those the trees need are given back.
LEMMA LeaveKept ==
    ASSUME NodesInv, Inv', NEW t \in Threads, NEW c \in Seq(CallSet), NEW u \in Seq(CallSet),
           calls[t] = c \o u, ~Has(c, "lock_base"), NEW k \in {0, 1}, Spent(t, c, u, k),
           NEW nodes \in Nat, Leave(t, nodes, u),
           UNCHANGED <<base_nodes, base_left, base_chunks, huge>>,
           local'[t].node = local[t].node, \A v \in Threads \ {t} : local'[v] = local[v],
           Cardinality(free') = Cardinality(free) + (k - nodes)
    PROVE  Nodes'
<1>1. owner'["base"] = owner["base"]
  BY LeaveNodes
<1>2. PICK p : LeftBy(t, c, u, nodes, p)
  BY LeaveNodes
<1>3. /\ Swap(t, c, p, u) /\ Profile(p, nodes, 0, 0)
      /\ ~Has(p, "base_pages") /\ ~Has(p, "postfork")
      /\ \A j \in 1 .. Len(p) : Ordered(p \o u, j)
  BY <1>2 DEF LeftBy
<1>4. \A v \in Threads : BaseHeld(v)'
  BY <1>1, <1>3, HeldSwap
<1>5. ASSUME NEW d \in {0, 1}, Profile(c, 0, 0, d)
      PROVE  Exchange(t, u, 0, 0, d, nodes, 0, 0)
  BY <1>3, <1>5, ProfileSwap
<1>6. NodesOf(calls'[t], local'[t].node) = NodesOf(calls[t], local[t].node) + (nodes - k)
  <2>1. CASE k = 0 /\ Profile(c, 0, 0, 0)
    <3>1. Exchange(t, u, 0, 0, 0, nodes, 0, 0)
      BY <1>5, <2>1
    <3> QED
      BY <2>1, <3>1 DEF Exchange, Profile, NodesOf
  <2>2. CASE k = 1 /\ Profile(c, 0, 0, 1) /\ local[t].node
    <3>1. Exchange(t, u, 0, 0, 1, nodes, 0, 0)
      BY <1>5, <2>2
    <3> QED
      BY <2>2, <3>1 DEF Exchange, Profile, NodesOf
  <2>3. CASE k = 0 /\ Profile(c, 0, 0, 1) /\ ~local[t].node /\ Count(u, Asks) = 0
    <3>1. Exchange(t, u, 0, 0, 1, nodes, 0, 0)
      BY <1>5, <2>3
    <3>2. PICK x \in Nat, y \in Nat, z \in Nat :
            /\ Profile(u, x, y, z) /\ Profile(calls[t], 0 + x, 0 + y, 1 + z)
            /\ Profile(calls'[t], nodes + x, 0 + y, 0 + z)
      BY <3>1 DEF Exchange
    <3>3. y = 0
      BY <2>3, <3>2 DEF Profile
    <3>4. NodesOf(calls[t], local[t].node) = x
      BY <2>3, <3>2, <3>3 DEF Profile, NodesOf
    <3>5. NodesOf(calls'[t], local'[t].node) = nodes + x
      BY <2>3, <3>2, <3>3 DEF Profile, NodesOf
    <3> QED
      BY <2>3, <3>2, <3>4, <3>5
  <2> QED
    BY <2>1, <2>2, <2>3 DEF Spent
<1>7. Ledger(t, k - nodes, 0, 0, nodes - k)
  <2>1. /\ Cardinality(huge') = Cardinality(huge) + 0
        /\ Cardinality(base_chunks') = Cardinality(base_chunks) + 0
    BY FiniteTrees DEF NodesInv
  <2>2. NodesPerChunk * 0 = 0 /\ base_left \in Nat /\ base_nodes \in Nat
    BY ChunksAssumption DEF NodesInv, Inv, Typed
  <2>3. NodesPerChunk * 0 - (base_left' - base_left)
          = base_nodes' - base_nodes + (k - nodes) + 0 + (nodes - k)
    BY <2>2
  <2>4. k - nodes \in Int /\ nodes - k \in Int
    OBVIOUS
  <2> QED
    BY <1>6, <2>1, <2>3, <2>4 DEF Ledger
<1> QED
  BY <1>3, <1>4, <1>7, LedgerKept

\* A sequence of calls is its first two and those that remain.
LEMMA TwoSplit ==
    ASSUME NEW s \in Seq(CallSet), Len(s) > 1
    PROVE  /\ Tail(Tail(s)) \in Seq(CallSet)
           /\ \E c \in Seq(CallSet) : /\ s = c \o Tail(Tail(s)) /\ Len(c) = 2
                                      /\ c[1] = s[1] /\ c[2] = s[2]
<1>1. Len(s) \in Nat /\ s # << >>
  <2>1. Len(<< >>) = 0 /\ Len(s) \in Nat
    OBVIOUS
  <2> QED
    BY <2>1
<1>2. PICK v : v = Tail(s)
  OBVIOUS
<1>3. v \in Seq(CallSet) /\ Len(v) = Len(s) - 1 /\ \A k \in 1 .. Len(s) - 1 : v[k] = s[k + 1]
  BY <1>1, <1>2, TailReplaced
<1>4. v # << >>
  <2>1. Len(<< >>) = 0
    OBVIOUS
  <2> QED
    BY <1>1, <1>3, <2>1
<1>5. PICK w : w = Tail(v)
  OBVIOUS
<1>6. w \in Seq(CallSet) /\ Len(w) = Len(v) - 1 /\ \A k \in 1 .. Len(v) - 1 : w[k] = v[k + 1]
  BY <1>3, <1>4, <1>5, TailReplaced
<1>7. s[1] \in CallSet /\ s[2] \in CallSet
  BY <1>1
<1>8. PICK c \in Seq(CallSet) : c = <<s[1], s[2]>> /\ Len(c) = 2 /\ c[1] = s[1] /\ c[2] = s[2]
  <2>1. PICK x \in CallSet, y \in CallSet : x = s[1] /\ y = s[2]
    BY <1>7
  <2>2. <<x, y>> \in Seq(CallSet) /\ Len(<<x, y>>) = 2 /\ <<x, y>>[1] = x /\ <<x, y>>[2] = y
    OBVIOUS
  <2> QED
    BY <2>1, <2>2
<1>9. PICK n : n = c \o w
  OBVIOUS
<1>10. n \in Seq(CallSet) /\ Len(n) = Len(s)
  <2>1. n \in Seq(CallSet) /\ Len(n) = Len(c) + Len(w)
    BY <1>6, <1>8, <1>9, ConcatProperties
  <2> QED
    BY <1>1, <1>3, <1>6, <1>8, <2>1
<1>11. \A k \in 1 .. Len(s) : n[k] = s[k]
  <2> SUFFICES ASSUME NEW k \in 1 .. Len(s)
               PROVE  n[k] = s[k]
    OBVIOUS
  <2>1. CASE k <= 2
    <3>1. n[k] = c[k] /\ (k = 1 \/ k = 2)
      BY <1>6, <1>8, <1>9, <1>10, <2>1
    <3> QED
      BY <1>8, <3>1
  <2>2. CASE k > 2
    <3>1. PICK j : j = k - 2
      OBVIOUS
    <3>2. j \in 1 .. Len(v) - 1 /\ j + 1 \in 1 .. Len(s) - 1 /\ (j + 1) + 1 = k /\ j \in 1 .. Len(w)
      BY <1>1, <1>3, <1>6, <2>2, <3>1
    <3>3. w[j] = v[j + 1] /\ v[j + 1] = s[(j + 1) + 1]
      BY <1>3, <1>6, <3>2
    <3>4. n[k] = w[j]
      BY <1>6, <1>8, <1>9, <1>10, <2>2, <3>1
    <3> QED
      BY <3>2, <3>3, <3>4
  <2> QED
    BY <2>1, <2>2
<1>12. n = s
  BY <1>10, <1>11, SeqEqual
<1> QED
  BY <1>2, <1>5, <1>6, <1>8, <1>9, <1>12

\* A free extent is taken or split: the tree has one node less, or as many.
LEMMA TakenFree ==
    ASSUME Inv, NEW e \in free, NEW k \in Nat \ {0}, e.size >= k,
           free' = (free \ {e}) \union Remainder(e, k)
    PROVE  Cardinality(free') = Cardinality(free) + (0 - (IF e.size = k THEN 1 ELSE 0))
<1>1. IsFiniteSet(free) /\ Cardinality(free) \in Nat
  BY FiniteTrees
<1>2. PICK R : R = free \ {e}
  OBVIOUS
<1>3. IsFiniteSet(R) /\ Cardinality(R) = Cardinality(free) - 1
  BY <1>1, <1>2, FS_RemoveElement
<1>4. CASE e.size = k
  <2>1. free' = R
    BY <1>2, <1>4 DEF Remainder
  <2> QED
    BY <1>1, <1>3, <1>4, <2>1
<1>5. CASE e.size # k
  <2>1. PICK r : r = Extent(e.addr + k, e.size - k)
    OBVIOUS
  <2>2. free' = R \union {r}
    BY <1>2, <1>5, <2>1 DEF Remainder
  <2>3. r \notin R
    <3> SUFFICES ASSUME r \in R
                 PROVE  FALSE
      OBVIOUS
    <3>1. r \in free /\ r # e
      BY <1>2
    <3>2. Apart(r, e) /\ r \in Ext /\ e \in Ext
      BY <3>1, ExtentFacts
    <3> QED
      BY <1>5, <2>1, <3>2 DEF Apart, End, Ext, Extent
  <2>4. Cardinality(free') = Cardinality(R) + 1
    BY <1>3, <2>2, <2>3, FS_AddElement
  <2> QED
    BY <1>1, <1>3, <1>5, <2>4
<1> QED
  BY <1>4, <1>5

\* chunk_recycle_swap takes a free extent or splits it; the node it does not need is given back.
LEMMA RecycleNodes ==
    ASSUME NodesInv, Inv', NEW t \in Threads, Recycle(t)
    PROVE  Nodes'
<1>1. At(t, "recycle") /\ Inv /\ calls[t] # << >>
      /\ UNCHANGED <<base_nodes, base_left, base_chunks, huge>>
  BY DEF Recycle, NodesInv, At, baseVars
<1>2. PICK k : k = Arg(t).size
  OBVIOUS
<1>3. PICK s : s = calls[t]
  OBVIOUS
<1>4. /\ s \in Seq(CallSet) /\ Len(s) \in Nat \ {0} /\ Head(s) = s[1] /\ Rest(t) = Tail(s)
      /\ Follows(s, 1)
  BY <1>1, <1>3, HeadFacts
<1>5. s[1].do = "recycle" /\ k = s[1].size
  BY <1>1, <1>2, <1>3, <1>4 DEF At, Arg
<1>6. k \in Nat \ {0} /\ 1 < Len(s) /\ s[1 + 1].do = "extend"
  BY <1>4, <1>5 DEF Follows
<1>7. CASE Return(t) /\ UNCHANGED <<free, owner, local>>
  <2>1. \A v \in Threads : BaseHeld(v)'
    BY <1>1, <1>7, PopHeld
  <2>2. "recycle" \notin Gives \union Asks \union {"dealloc2"}
    BY DEF Gives, Asks
  <2> QED
    BY <1>1, <1>7, <2>1, <2>2, IdleNodes
<1>8. ASSUME NEW e \in BestFit(k), free' = (free \ {e}) \union Remainder(e, k),
             Set(t, "ret", e.addr), Leave(t, IF e.size = k THEN 1 ELSE 0, Tail(Rest(t)))
      PROVE  Nodes'
  <2>1. PICK u, nodes : u = Tail(Tail(s)) /\ nodes = (IF e.size = k THEN 1 ELSE 0)
    OBVIOUS
  <2>2. u \in Seq(CallSet) /\ nodes \in Nat /\ Leave(t, nodes, u)
    <3>1. Len(s) > 1
      BY <1>4, <1>6
    <3>2. u \in Seq(CallSet)
      BY <1>4, <2>1, <3>1, TwoSplit
    <3> QED
      BY <1>4, <1>8, <2>1, <3>2
  <2>3. PICK c \in Seq(CallSet) : s = c \o u /\ Len(c) = 2 /\ c[1] = s[1] /\ c[2] = s[2]
    <3>1. Len(s) > 1
      BY <1>4, <1>6
    <3> QED
      BY <1>4, <2>1, <3>1, TwoSplit
  <2>4. c[1].do = "recycle" /\ c[2].do = "extend" /\ \A j \in 1 .. Len(c) : j = 1 \/ j = 2
    BY <1>5, <1>6, <2>3
  <2>5. \A j \in 1 .. Len(c) : c[j].do \in {"recycle", "extend"}
    BY <2>4
  <2>6. Profile(c, 0, 0, 0) /\ ~Has(c, "lock_base")
    <3>1. /\ \A j \in 1 .. Len(c) : c[j].do \notin Gives
          /\ \A j \in 1 .. Len(c) : c[j].do \notin Asks
          /\ \A j \in 1 .. Len(c) : c[j].do \notin {"dealloc2"}
      BY <2>5 DEF Gives, Asks
    <3>2. Count(c, Gives) = 0 /\ Count(c, Asks) = 0 /\ Count(c, {"dealloc2"}) = 0
      BY <3>1, CountAll
    <3> QED
      BY <2>5, <3>2 DEF Profile, Has
  <2>7. local'[t].node = local[t].node /\ \A v \in Threads \ {t} : local'[v] = local[v]
    BY <1>1, <1>8, SetNode
  <2>8. Cardinality(free') = Cardinality(free) + (0 - nodes)
    <3>1. e \in free /\ e.size >= k
      BY <1>8 DEF BestFit
    <3> QED
      BY <1>1, <1>6, <1>8, <2>1, <3>1, TakenFree
  <2>9. Spent(t, c, u, 0)
    BY <2>6 DEF Spent
  <2>10. calls[t] = c \o u
    BY <1>3, <2>3
  <2> QED
    BY <1>1, <2>2, <2>6, <2>7, <2>8, <2>9, <2>10, LeaveKept
<1> QED
  BY <1>2, <1>7, <1>8 DEF Recycle

\* chunk_alloc_swap takes chunks after the last in use.
LEMMA ExtendNodes ==
    ASSUME NodesInv, Inv', NEW t \in Threads, Extend(t)
    PROVE  Nodes'
<1>1. At(t, "extend") /\ Inv /\ Return(t) /\ UNCHANGED <<free, base_nodes, base_left, base_chunks, huge, owner>>
  BY DEF Extend, NodesInv, baseVars
<1>2. \E v : Set(t, "ret", v)
  BY DEF Extend
<1>3. local'[t].node = local[t].node /\ \A v \in Threads \ {t} : local'[v] = local[v]
  BY <1>1, <1>2, SetNode
<1>4. \A v \in Threads : BaseHeld(v)'
  BY <1>1, PopHeld
<1>5. "extend" \notin Gives \union Asks \union {"dealloc2"}
  BY DEF Gives, Asks
<1> QED
  BY <1>1, <1>3, <1>4, <1>5, IdleNodes

\* What e is joined with is taken off the tree, and what it becomes is not on it.
LEMMA JoinedFree ==
    ASSUME Inv, NEW t \in Threads, NEW e \in InHand(t),
           NEW parts, NEW first, NEW last, Touching(e, parts, first, last),
           NEW whole, whole = Extent(first, last - first)
    PROVE  /\ Cardinality(Neighbours(e)) \in Nat
           /\ After(e) # {} => Cardinality(Neighbours(e)) > 0
           /\ Cardinality(free \ parts) = Cardinality(free) - Cardinality(Neighbours(e))
           /\ Cardinality((free \ parts) \union {whole})
                = Cardinality(free) - Cardinality(Neighbours(e)) + 1
<1>1. parts = Neighbours(e) \union {e} /\ first = FirstOf(parts) /\ last = LastOf(parts)
  BY DEF Touching
<1>2. /\ free \subseteq Ext /\ e \in Ext /\ \A f \in free : Apart(e, f)
      /\ \A f, g \in free : f # g => Apart(f, g)
  BY ExtentFacts
<1>3. /\ Cardinality(Neighbours(e)) \in Nat
      /\ After(e) # {} => Cardinality(Neighbours(e)) > 0
  BY <1>1, <1>2, NeighboursAre
<1>4. e \notin free
  BY NoneTouch
<1>5. PICK R : R = free \ parts
  OBVIOUS
<1>6. R = free \ Neighbours(e) /\ free \intersect Neighbours(e) = Neighbours(e)
  BY <1>1, <1>4, <1>5 DEF Neighbours, After, Before
<1>7. IsFiniteSet(R) /\ Cardinality(R) = Cardinality(free) - Cardinality(Neighbours(e))
  <2>1. IsFiniteSet(free)
    BY FiniteTrees
  <2>2. IsFiniteSet(R)
    BY <1>5, <2>1, FS_Difference
  <2>3. Cardinality(free \ Neighbours(e)) = Cardinality(free) - Cardinality(free \intersect Neighbours(e))
    BY <2>1, FS_Difference
  <2> QED
    BY <1>6, <2>2, <2>3
<1>8. whole \notin R
  <2> SUFFICES ASSUME whole \in R
               PROVE  FALSE
    OBVIOUS
  <2>1. PICK w, P : /\ w = Piece("hand", t, whole)
                    /\ P = PieceSet("free", NoThread, Neighbours(e)) \union PieceSet("hand", t, {e})
    OBVIOUS
  <2>2. Union(t, e, P, w, first, last)
    BY <2>1, PieceFacts DEF Union
  <2>3. Merge(Pieces, P, w, swap_end)
    BY <2>2, NeighboursJoined
  <2>4. PICK o : o = Piece("free", NoThread, whole)
    OBVIOUS
  <2>5. o \in Pieces /\ o.extent = whole /\ w.extent = whole
    BY <1>5, <2>1, <2>4, ExtentFacts, PieceFacts
  <2>6. o \notin P
    BY <1>6, <2>1, <2>4, PieceFacts DEF PieceSet
  <2>7. Apart(whole, whole) /\ whole \in Ext
    <3>1. Apart(o.extent, w.extent) /\ w.extent \in Ext
      BY <2>3, <2>5, <2>6 DEF Merge
    <3> QED
      BY <2>5, <3>1
  <2> QED
    BY <2>7 DEF Apart, End, Ext
<1>9. Cardinality(R \union {whole}) = Cardinality(R) + 1
  BY <1>7, <1>8, FS_AddElement
<1> QED
  BY <1>3, <1>5, <1>7, <1>9

\* The node thread t has for what it records: that of the extent after, or one of its own.
NodeFor(t, nodes) ==
    \/ At(t, "dealloc") /\ nodes = 0
    \/ At(t, "dealloc2") /\ nodes = 1 /\ local[t].node

\* chunk_dealloc_swap joins the extent with its neighbours and gives back the nodes to spare.
LEMMA RecordedNodes ==
    ASSUME NodesInv, Inv', NEW t \in Threads, NEW e, CallFor(t, e),
           NEW nodes \in {0, 1}, nodes = 0 => After(e) # {}, NodeFor(t, nodes),
           Recorded(t, e, nodes, Rest(t)),
           UNCHANGED <<base_nodes, base_left, base_chunks, huge, local>>
    PROVE  Nodes'
<1>1. Inv /\ calls[t] # << >>
  BY DEF NodesInv, CallFor
<1>2. PICK c, u : c = <<Arg(t)>> /\ u = Rest(t)
  OBVIOUS
<1>3. Arg(t) \in CallSet /\ u \in Seq(CallSet) /\ calls[t] = c \o u /\ c \in Seq(CallSet)
  BY <1>1, <1>2, HeadSplit
<1>4. ~Has(c, "lock_base") /\ Spent(t, c, u, nodes)
  <2>1. CASE At(t, "dealloc") /\ nodes = 0
    <3>1. Arg(t).do = "dealloc"
      BY <2>1 DEF At, Arg
    <3>2. Profile(c, 0, 0, 0)
      BY <1>2, <1>3, <3>1, ProfileOne DEF Gives, Asks
    <3>3. ~Has(c, "lock_base")
      BY <1>2, <1>3, <3>1, CountOne
    <3> QED
      BY <2>1, <3>2, <3>3 DEF Spent
  <2>2. CASE At(t, "dealloc2") /\ nodes = 1 /\ local[t].node
    <3>1. Arg(t).do = "dealloc2"
      BY <2>2 DEF At, Arg
    <3>2. Profile(c, 0, 0, 1)
      BY <1>2, <1>3, <3>1, ProfileOne DEF Gives, Asks
    <3>3. ~Has(c, "lock_base")
      BY <1>2, <1>3, <3>1, CountOne
    <3> QED
      BY <2>2, <3>2, <3>3 DEF Spent
  <2> QED
    BY <2>1, <2>2 DEF NodeFor
<1>5. e \in InHand(t)
  <2>1. PICK n, p, r : p = << >> /\ n = p \o Tail(calls[t]) /\ r = 0
    OBVIOUS
  <2>2. Pushed(n, p, t) /\ p \in Seq(CallSet) /\ \A k \in 1 .. Len(p) : Passive(p[k])
    BY <2>1 DEF Pushed
  <2> QED
    BY <1>1, <2>2, NamedDone
<1>6. PICK parts, first, last, whole :
        /\ Touching(e, parts, first, last) /\ whole = Extent(first, last - first)
  BY DEF Touching
<1>7. parts = Neighbours(e) \union {e} /\ first = FirstOf(parts) /\ last = LastOf(parts)
  BY <1>6 DEF Touching
<1>8. PICK N : N = Cardinality(Neighbours(e))
  OBVIOUS
<1>9. /\ N \in Nat /\ (After(e) # {} => N > 0)
      /\ Cardinality(free \ parts) = Cardinality(free) - N
      /\ Cardinality((free \ parts) \union {whole}) = Cardinality(free) - N + 1
  BY <1>1, <1>5, <1>6, <1>8, JoinedFree
<1>10. Cardinality(free) \in Nat
  BY <1>1, FiniteTrees
<1>11. PICK v : v = nodes + N
  OBVIOUS
<1>12. \/ free' = free \ parts /\ Leave(t, v, u)
       \/ free' = (free \ parts) \union {whole} /\ Leave(t, v - 1, u)
  BY <1>2, <1>6, <1>7, <1>8, <1>11 DEF Recorded, FirstOf, LastOf
<1>13. PICK k : /\ Leave(t, k, u) /\ k \in Nat
                /\ Cardinality(free') = Cardinality(free) + (nodes - k)
  <2>1. CASE free' = free \ parts /\ Leave(t, v, u)
    <3>1. v \in Nat /\ Cardinality(free') = Cardinality(free) + (nodes - v)
      BY <1>9, <1>10, <1>11, <2>1
    <3> QED
      BY <2>1, <3>1
  <2>2. CASE free' = (free \ parts) \union {whole} /\ Leave(t, v - 1, u)
    <3>1. v - 1 \in Nat
      BY <1>9, <1>11
    <3>2. Cardinality(free') = Cardinality(free) + (nodes - (v - 1))
      BY <1>9, <1>10, <1>11, <2>2
    <3> QED
      BY <2>2, <3>1, <3>2
  <2> QED
    BY <1>12, <2>1, <2>2
<1>14. local'[t].node = local[t].node /\ \A w \in Threads \ {t} : local'[w] = local[w]
  OBVIOUS
<1> QED
  BY <1>3, <1>4, <1>13, <1>14, LeaveKept

\* chunk_dealloc_swap has no node: it goes on without one.
LEMMA DeallocWithNodeNodes ==
    ASSUME NodesInv, Inv', NEW t \in Threads, DeallocWithNode(t)
    PROVE  Nodes'
<1>1. At(t, "dealloc2") /\ Inv /\ calls[t] # << >> /\ Arg(t).do = "dealloc2"
      /\ UNCHANGED <<base_nodes, base_left, base_chunks, huge, local>>
  BY DEF DeallocWithNode, NodesInv, At, Arg, baseVars
<1>2. PICK e : e = Extent(Arg(t).addr, Arg(t).size)
  OBVIOUS
<1>3. CallFor(t, e)
  BY <1>1, <1>2 DEF CallFor, Named, Arg
<1>4. CASE local[t].node
  <2>1. Recorded(t, e, 1, Rest(t))
    BY <1>2, <1>4 DEF DeallocWithNode
  <2>2. PICK nodes \in {0, 1} : nodes = 1
    OBVIOUS
  <2>3. NodeFor(t, nodes) /\ Recorded(t, e, nodes, Rest(t)) /\ (nodes = 0 => After(e) # {})
    BY <1>1, <1>4, <2>1, <2>2 DEF NodeFor
  <2> QED
    BY <1>1, <1>3, <2>3, RecordedNodes
<1>5. CASE ~local[t].node
  <2>1. PICK c, u : c = <<Arg(t)>> /\ u = Rest(t)
    OBVIOUS
  <2>2. free' = free /\ Leave(t, 0, u)
    BY <1>2, <1>5, <2>1 DEF DeallocWithNode, Unrecorded
  <2>3. /\ Arg(t) \in CallSet /\ u \in Seq(CallSet) /\ calls[t] = c \o u /\ c \in Seq(CallSet)
        /\ Count(u, Asks) = 0
    BY <1>1, <2>1, HeadSplit, HeadOrder
  <2>4. Profile(c, 0, 0, 1) /\ ~Has(c, "lock_base")
    <3>1. Profile(c, 0, 0, 1)
      BY <1>1, <2>1, <2>3, ProfileOne DEF Gives, Asks
    <3>2. ~Has(c, "lock_base")
      BY <1>1, <2>1, <2>3, CountOne
    <3> QED
      BY <3>1, <3>2
  <2>5. Spent(t, c, u, 0)
    BY <1>5, <2>3, <2>4 DEF Spent
  <2>6. Cardinality(free') = Cardinality(free) + (0 - 0)
    BY <1>1, <2>2, FiniteTrees
  <2> QED
    BY <1>1, <2>2, <2>3, <2>4, <2>5, <2>6, LeaveKept
<1> QED
  BY <1>4, <1>5

\* chunk_dealloc_swap asks for a node, or has that of the extent after.
LEMMA DeallocNodes ==
    ASSUME NodesInv, Inv', NEW t \in Threads, Dealloc(t)
    PROVE  Nodes'
<1>1. At(t, "dealloc") /\ Inv /\ calls[t] # << >> /\ Arg(t).do = "dealloc"
      /\ UNCHANGED <<base_nodes, base_left, base_chunks, huge, local>>
  BY DEF Dealloc, NodesInv, At, Arg, baseVars
<1>2. PICK e : e = Extent(Arg(t).addr, Arg(t).size)
  OBVIOUS
<1>3. CallFor(t, e)
  BY <1>1, <1>2 DEF CallFor, Named, Arg
<1>4. CASE After(e) # {} /\ Recorded(t, e, 0, Rest(t))
  <2>1. PICK nodes \in {0, 1} : nodes = 0
    OBVIOUS
  <2>2. NodeFor(t, nodes) /\ Recorded(t, e, nodes, Rest(t)) /\ (nodes = 0 => After(e) # {})
    BY <1>1, <1>4, <2>1 DEF NodeFor
  <2> QED
    BY <1>1, <1>3, <2>2, RecordedNodes
<1>5. CASE /\ Goto(t, <<Do("base_node_alloc"), Call("dealloc2", e.addr, e.size)>> \o Rest(t))
           /\ UNCHANGED <<free, owner>>
  <2>1. PICK s, u, c : s = calls[t] /\ u = Rest(t) /\ c = <<Arg(t)>>
    OBVIOUS
  <2>2. /\ s \in Seq(CallSet) /\ Len(s) \in Nat \ {0} /\ Head(s) = s[1] /\ u = Tail(s)
        /\ u \in Seq(CallSet) /\ Len(u) = Len(s) - 1 /\ \A k \in 1 .. Len(s) - 1 : u[k] = s[k + 1]
    BY <1>1, <2>1, HeadFacts
  <2>3. Ordered(s, 1)
    <3>1. Orders(s) /\ 1 \in 1 .. Len(s)
      BY <2>1, <2>2 DEF NodesInv, Nodes
    <3> QED
      BY <3>1 DEF Orders
  <2>4. s[1].do = "dealloc" /\ Arg(t) \in CallSet
    BY <1>1, <2>1, <2>2, HeadSplit DEF Arg
  <2>5. \A j \in 1 + 1 .. Len(s) : s[j].do \notin Asks \union {"postfork"} /\ s[j].do # "dealloc2"
    BY <2>3, <2>4 DEF Ordered
  <2>6. \A k \in 1 .. Len(u) : u[k].do \notin Asks \union {"postfork"} /\ u[k].do # "dealloc2"
    BY <2>2, <2>5
  <2>7. PICK a \in CallSet, b \in CallSet :
          /\ a = Do("base_node_alloc") /\ a.do = "base_node_alloc"
          /\ b = Call("dealloc2", e.addr, e.size) /\ b.do = "dealloc2"
    <3>1. Arg(t).addr \in Int /\ Arg(t).size \in Int
      BY <2>4 DEF CallSet
    <3>2. e.addr \in Int /\ e.size \in Int
      BY <1>2, <3>1 DEF Extent
    <3> QED
      BY <3>2, CallFacts DEF Dos
  <2>8. PICK p \in Seq(CallSet) : p = <<a, b>> /\ Len(p) = 2 /\ p[1] = a /\ p[2] = b
    <3>1. <<a, b>> \in Seq(CallSet) /\ Len(<<a, b>>) = 2 /\ <<a, b>>[1] = a /\ <<a, b>>[2] = b
      OBVIOUS
    <3> QED
      BY <3>1
  <2>9. \A k \in 1 .. Len(p) : k = 1 \/ k = 2
    BY <2>8
  <2>10. Profile(p, 0, 1, 1)
    <3>1. {k \in 1 .. Len(p) : p[k].do \in Asks} = {1}
      BY <2>7, <2>8, <2>9 DEF Asks
    <3>2. {k \in 1 .. Len(p) : p[k].do \in {"dealloc2"}} = {2}
      BY <2>7, <2>8, <2>9
    <3>3. \A k \in 1 .. Len(p) : p[k].do \notin Gives
      BY <2>7, <2>8, <2>9 DEF Gives
    <3>4. Count(p, Gives) = 0
      BY <3>3, CountAll
    <3>5. Count(p, Asks) = 1 /\ Count(p, {"dealloc2"}) = 1
      BY <3>1, <3>2, FS_Singleton DEF Count
    <3> QED
      BY <3>4, <3>5 DEF Profile
  <2>11. Swap(t, c, p, u)
    <3>1. Goto(t, p \o Rest(t))
      BY <1>5, <2>7, <2>8
    <3> QED
      BY <1>1, <2>1, <2>8, <3>1, HeadSplit
  <2>12. Profile(c, 0, 0, 0) /\ ~Has(c, "lock_base")
    <3>1. Profile(c, 0, 0, 0)
      BY <1>1, <2>1, <2>4, ProfileOne DEF Gives, Asks
    <3>2. ~Has(c, "lock_base")
      BY <1>1, <2>1, <2>4, CountOne
    <3> QED
      BY <3>1, <3>2
  <2>13. NodesOf(calls'[t], local'[t].node) = NodesOf(calls[t], local[t].node) + 0
    <3>1. Exchange(t, u, 0, 0, 0, 0, 1, 1)
      BY <2>10, <2>11, <2>12, ProfileSwap
    <3>2. PICK x \in Nat, y \in Nat, z \in Nat :
            /\ Profile(u, x, y, z) /\ Profile(calls[t], 0 + x, 0 + y, 0 + z)
            /\ Profile(calls'[t], 0 + x, 1 + y, 1 + z)
      BY <3>1 DEF Exchange
    <3>3. y = 0 /\ z = 0
      <4>1. Count(u, Asks) = 0 /\ Count(u, {"dealloc2"}) = 0
        BY <1>1, <2>1, HeadOrder
      <4> QED
        BY <3>2, <4>1 DEF Profile
    <3>4. NodesOf(calls[t], local[t].node) = x
      BY <3>2, <3>3 DEF Profile, NodesOf
    <3>5. NodesOf(calls'[t], local'[t].node) = x
      BY <3>2, <3>3 DEF Profile, NodesOf
    <3> QED
      BY <3>2, <3>4, <3>5
  <2>14. Ledger(t, 0, 0, 0, 0)
    <3>1. base_left \in Nat /\ base_nodes \in Nat
      BY <1>1, ChunksAssumption DEF Inv, Typed
    <3>2. UNCHANGED <<free, huge, base_chunks>> /\ base_left' = base_left /\ base_nodes' = base_nodes
          /\ \A v \in Threads \ {t} : local'[v] = local[v]
      BY <1>1, <1>5
    <3> QED
      BY <1>1, <2>13, <3>1, <3>2, LedgerQuiet
  <2>15. \A v \in Threads : BaseHeld(v)'
    <3>1. ~Has(p, "base_pages") /\ ~Has(p, "postfork")
      BY <2>7, <2>8, <2>9 DEF Has
    <3> QED
      BY <1>1, <1>5, <2>11, <2>12, <3>1, HeldSwap
  <2>16. \A k \in 1 .. Len(p) : Ordered(p \o u, k)
    <3>1. PICK n : n = p \o u
      OBVIOUS
    <3>2. Len(n) = 2 + Len(u) /\ n[1] = a /\ n[2] = b /\ Len(u) \in Nat
      <4>1. Len(n) = Len(p) + Len(u)
        BY <2>2, <2>8, <3>1, ConcatProperties
      <4>2. Len(u) \in Nat
        BY <2>2
      <4>3. n[1] = p[1] /\ n[2] = p[2]
        BY <2>2, <2>8, <3>1, <4>2
      <4> QED
        BY <2>8, <4>1, <4>2, <4>3
    <3>3. \A j \in 3 .. Len(n) : n[j].do \notin Asks \union {"postfork"} /\ n[j].do # "dealloc2"
      <4> SUFFICES ASSUME NEW j \in 3 .. Len(n)
                   PROVE  n[j].do \notin Asks \union {"postfork"} /\ n[j].do # "dealloc2"
        OBVIOUS
      <4>1. j - 2 \in 1 .. Len(u)
        BY <3>2
      <4>2. n[j] = u[j - 2]
        BY <2>2, <2>8, <3>1, <3>2, <4>1
      <4> QED
        BY <2>6, <4>1, <4>2
    <3>4. \A j \in 2 .. Len(n) : n[j].do \notin Asks \union {"postfork"}
      <4>1. \A j \in 2 .. Len(n) : j = 2 \/ j \in 3 .. Len(n)
        BY <3>2
      <4> QED
        BY <2>7, <3>2, <3>3, <4>1 DEF Asks
    <3>5. Ordered(n, 1)
      <4>1. n[1].do = "base_node_alloc" /\ n[1 + 1].do = "dealloc2"
        BY <2>7, <3>2
      <4> QED
        BY <3>4, <4>1 DEF Ordered
    <3>6. Ordered(n, 2)
      <4>1. n[2].do = "dealloc2"
        BY <2>7, <3>2
      <4> QED
        BY <3>3, <4>1 DEF Ordered, Asks
    <3> QED
      BY <2>9, <3>1, <3>5, <3>6
  <2> QED
    BY <2>11, <2>14, <2>15, <2>16, LedgerKept
<1>6. CASE After(e) = {}
  <2>1. Goto(t, <<Do("base_node_alloc"), Call("dealloc2", e.addr, e.size)>> \o Rest(t))
        /\ UNCHANGED <<free, owner>>
    BY <1>2, <1>6 DEF Dealloc, swapVars
  <2> QED
    BY <1>5, <2>1
<1> QED
  BY <1>2, <1>4, <1>6 DEF Dealloc

\* A call of the program takes d nodes of allocations into the hand.
LEMMA BeginNodes ==
    ASSUME NodesInv, Inv', NEW t \in Threads, NEW zero, NEW p \in Seq(CallSet), Begin(t, zero, p),
           \A k \in 1 .. Len(p) : Ordered(p, k),
           ~Has(p, "base_pages"), Has(p, "postfork") => Has(p, "lock_base"),
           UNCHANGED <<owner, base_left, base_nodes, base_chunks, free>>,
           NEW d \in {0, 1}, Cardinality(huge') = Cardinality(huge) - d,
           NodesOf(p, local[t].node) = d
    PROVE  Nodes'
<1>1. Inv /\ calls[t] = << >> /\ Goto(t, p)
      /\ local' = [local EXCEPT ![t].zero = zero, ![t].ret = NULL]
  BY DEF NodesInv, Begin
<1>2. PICK u : u = << >>
  OBVIOUS
<1>3. u \in Seq(CallSet) /\ Profile(u, 0, 0, 0) /\ u \o u = u /\ p \o u = p
  BY <1>2, ProfileOne
<1>4. Swap(t, u, p, u)
  BY <1>1, <1>2, <1>3 DEF Swap, Goto
<1>5. calls'[t] = p /\ \A v \in Threads \ {t} : calls'[v] = calls[v]
  BY <1>1, GotoFacts DEF Inv
<1>6. local'[t].node = local[t].node /\ \A v \in Threads \ {t} : local'[v] = local[v]
  BY <1>1 DEF Inv, Typed, LocalSet
<1>7. NodesOf(calls[t], local[t].node) = 0
  BY <1>1, <1>2, <1>3 DEF Profile, NodesOf
<1>8. \A v \in Threads : BaseHeld(v)'
  <2>1. \A v \in Threads : BaseHeld(v)
    BY DEF NodesInv, Nodes
  <2> QED
    BY <1>5, <2>1 DEF BaseHeld
<1>9. Ledger(t, 0, 0 - d, 0, d)
  <2>1. /\ Cardinality(free') = Cardinality(free) + 0
        /\ Cardinality(base_chunks') = Cardinality(base_chunks) + 0
        /\ Cardinality(huge) \in Nat
    BY <1>1, FiniteTrees
  <2>2. Cardinality(huge') = Cardinality(huge) + (0 - d)
    BY <2>1
  <2>3. NodesPerChunk * 0 = 0 /\ base_left \in Nat /\ base_nodes \in Nat
    BY <1>1, ChunksAssumption DEF Inv, Typed
  <2>4. NodesPerChunk * 0 - (base_left' - base_left) = base_nodes' - base_nodes + 0 + (0 - d) + d
    BY <2>3
  <2>5. NodesOf(calls'[t], local'[t].node) = NodesOf(calls[t], local[t].node) + d
    BY <1>5, <1>6, <1>7
  <2> QED
    BY <1>6, <2>1, <2>2, <2>4, <2>5 DEF Ledger
<1>10. \A k \in 1 .. Len(p) : Ordered(p \o u, k)
  BY <1>3
<1> QED
  BY <1>4, <1>8, <1>9, <1>10, LedgerKept

\* malloc asks for a node, which is for the extent it is to insert.
LEMMA HugeMallocNodes ==
    ASSUME NodesInv, Inv', NEW t \in Threads, NEW s \in Sizes, NEW align \in Aligns \union {1},
           NEW zero \in BOOLEAN, HugeMalloc(t, s, align, zero)
    PROVE  Nodes'
<1>1. s \in Int /\ align \in Int
  BY ChunksAssumption
<1>2. PICK k \in Int : k = AllocSize(s, align)
  <2>1. AllocSize(s, align) \in Int
    BY <1>1 DEF AllocSize
  <2> QED
    BY <2>1
<1>3. PICK a \in CallSet, b \in CallSet, c \in CallSet, d \in CallSet :
        /\ a = Do("base_node_alloc") /\ a.do = "base_node_alloc"
        /\ b = Call("recycle", NULL, k) /\ b.do = "recycle"
        /\ c = Call("extend", NULL, k) /\ c.do = "extend"
        /\ d = Call("trim", align, s) /\ d.do = "trim"
  BY <1>1, CallFacts DEF Dos
<1>4. PICK p, q : p = <<a>> /\ q = <<b, c>>
  OBVIOUS
<1>5. /\ p \in Seq(CallSet) /\ Len(p) = 1 /\ p[1] = a
      /\ q \in Seq(CallSet) /\ Len(q) = 2 /\ q[1] = b /\ q[2] = c
  BY <1>4
<1>6. PICK n : Row(n, p, q, d)
  BY DEF Row
<1>7. /\ n \in Seq(CallSet) /\ Len(n) = Len(p) + Len(q) + 1
      /\ \A j \in 1 .. Len(p) : n[j] = p[j]
      /\ \A j \in 1 .. Len(q) : n[Len(p) + j] = q[j]
      /\ n[Len(n)] = d
  <2>1. p \in Seq(CallSet) /\ q \in Seq(CallSet)
    BY <1>5
  <2> QED
    BY <1>6, <2>1, RowIs
<1>8. Len(n) = 4 /\ n[1] = a /\ n[2] = b /\ n[3] = c /\ n[4] = d
  <2>1. Len(n) = 4 /\ n[1] = a /\ n[4] = d
    BY <1>5, <1>7
  <2>2. n[1 + 1] = q[1] /\ n[1 + 2] = q[2]
    BY <1>5, <1>7
  <2> QED
    BY <1>5, <2>1, <2>2
<1>9. Begin(t, zero, n)
  <2>1. n = <<a>> \o <<b, c>> \o <<d>>
    BY <1>4, <1>6 DEF Row
  <2> QED
    BY <1>2, <1>3, <2>1 DEF HugeMalloc, ChunkAlloc
<1>10. n[1].do = "base_node_alloc" /\ n[2].do = "recycle" /\ n[3].do = "extend" /\ n[4].do = "trim"
  BY <1>3, <1>8
<1>11. \A j \in 1 .. Len(n) : j = 1 \/ j = 2 \/ j = 3 \/ j = 4
  BY <1>8
<1>12. \A j \in 1 .. Len(n) : n[j].do \in {"base_node_alloc", "recycle", "extend", "trim"}
  BY <1>10, <1>11
<1>13. \A j \in 1 .. Len(n) : Ordered(n, j)
  <2>1. Ordered(n, 1)
    <3>1. \A j \in 1 + 1 .. Len(n) : n[j].do \notin Asks \union {"postfork"}
      <4>1. \A j \in 1 + 1 .. Len(n) : j = 2 \/ j = 3 \/ j = 4
        BY <1>8
      <4> QED
        BY <1>10, <4>1 DEF Asks
    <3>2. 1 + 3 <= Len(n) /\ n[1 + 3].do = "trim"
      BY <1>8, <1>10
    <3> QED
      BY <1>10, <3>1, <3>2 DEF Ordered
  <2>2. ASSUME NEW j \in 1 .. Len(n), j # 1
        PROVE  Ordered(n, j)
    <3>1. n[j].do \in {"recycle", "extend", "trim"}
      BY <1>10, <1>11, <2>2
    <3> QED
      BY <3>1 DEF Ordered, Asks
  <2> QED
    BY <2>1, <2>2
<1>14. ~Has(n, "base_pages") /\ ~Has(n, "postfork")
  BY <1>12 DEF Has
<1>15. NodesOf(n, local[t].node) = 0
  <2>1. n[1].do \in Asks
    BY <1>10 DEF Asks
  <2>2. Profile(n, 1, 1, 0)
    BY <1>7, <1>8, <1>10, <2>1, ProfileMalloc
  <2> QED
    BY <2>2 DEF Profile, NodesOf
<1>16. UNCHANGED <<free, base_nodes, base_left, base_chunks, huge, owner>>
  BY DEF HugeMalloc, swapVars, baseVars
<1>17. PICK z \in {0, 1} : z = 0
  OBVIOUS
<1>18. Cardinality(huge') = Cardinality(huge) - z
  BY <1>16, <1>17, FiniteTrees DEF NodesInv
<1> QED
  BY <1>7, <1>9, <1>13, <1>14, <1>15, <1>16, <1>17, <1>18, BeginNodes

\* free takes an allocation off the tree, and has its node to give back.
LEMMA HugeDallocNodes ==
    ASSUME NodesInv, Inv', NEW t \in Threads, NEW e \in huge, HugeDalloc(t, e)
    PROVE  Nodes'
<1>1. Inv /\ e \in Ext
  BY ExtentFacts DEF NodesInv
<1>2. UNCHANGED <<free, base_nodes, base_left, base_chunks, owner>> /\ huge' = huge \ {e}
  BY DEF HugeDalloc, swapVars, baseVars
<1>3. PICK a \in CallSet, b \in CallSet :
        /\ a = Call("dealloc", e.addr, e.size) /\ a.do = "dealloc"
        /\ b = Do("base_node_dealloc") /\ b.do = "base_node_dealloc"
  BY <1>1, CallFacts DEF Dos, Ext
<1>4. PICK n \in Seq(CallSet) : n = <<a, b>> /\ Len(n) = 2 /\ n[1] = a /\ n[2] = b
  <2>1. <<a, b>> \in Seq(CallSet) /\ Len(<<a, b>>) = 2 /\ <<a, b>>[1] = a /\ <<a, b>>[2] = b
    OBVIOUS
  <2> QED
    BY <2>1
<1>5. Begin(t, FALSE, n)
  BY <1>3, <1>4 DEF HugeDalloc
<1>6. n[1].do = "dealloc" /\ n[2].do = "base_node_dealloc" /\ \A j \in 1 .. Len(n) : j = 1 \/ j = 2
  BY <1>3, <1>4
<1>7. \A j \in 1 .. Len(n) : Ordered(n, j)
  <2>1. Ordered(n, 1)
    <3>1. \A j \in 1 + 1 .. Len(n) : j = 2
      BY <1>4
    <3>2. \A j \in 1 + 1 .. Len(n) : n[j].do \notin Asks \union {"postfork"} /\ n[j].do # "dealloc2"
      BY <1>6, <3>1 DEF Asks
    <3> QED
      BY <1>6, <3>2 DEF Ordered, Asks
  <2>2. Ordered(n, 2)
    BY <1>6 DEF Ordered, Asks
  <2> QED
    BY <1>6, <2>1, <2>2
<1>8. ~Has(n, "base_pages") /\ ~Has(n, "postfork")
  BY <1>6 DEF Has
<1>9. NodesOf(n, local[t].node) = 1
  <2>1. {j \in 1 .. Len(n) : n[j].do \in Gives} = {2}
    BY <1>4, <1>6 DEF Gives
  <2>2. /\ \A j \in 1 .. Len(n) : n[j].do \notin Asks
        /\ \A j \in 1 .. Len(n) : n[j].do \notin {"dealloc2"}
    BY <1>6 DEF Asks
  <2>3. Count(n, Gives) = 1
    BY <2>1, FS_Singleton DEF Count
  <2>4. Count(n, Asks) = 0 /\ Count(n, {"dealloc2"}) = 0
    BY <2>2, CountAll
  <2> QED
    BY <2>3, <2>4 DEF NodesOf
<1>10. PICK z \in {0, 1} : z = 1
  OBVIOUS
<1>11. Cardinality(huge') = Cardinality(huge) - z
  BY <1>1, <1>2, <1>10, FiniteTrees, FS_RemoveElement
<1>12. NodesOf(n, local[t].node) = z
  BY <1>9, <1>10
<1> QED
  BY <1>2, <1>5, <1>7, <1>8, <1>11, <1>12, BeginNodes

\* mflush and backup move no node.
LEMMA PreforkNodes ==
    ASSUME NodesInv, Inv', NEW t \in Threads, Prefork(t)
    PROVE  Nodes'
<1>1. PICK a \in CallSet, b \in CallSet, c \in CallSet, d \in CallSet :
        /\ a = Do("lock_base") /\ a.do = "lock_base" /\ b = Do("lock_huge") /\ b.do = "lock_huge"
        /\ c = Do("lock_swap") /\ c.do = "lock_swap" /\ d = Do("postfork") /\ d.do = "postfork"
  BY CallFacts DEF Dos
<1>2. PICK n : n = <<a, b, c, d>>
  OBVIOUS
<1>3. n \in Seq(CallSet) /\ Len(n) = 4 /\ n[1] = a /\ n[2] = b /\ n[3] = c /\ n[4] = d
  BY <1>2
<1>4. Begin(t, FALSE, n)
  BY <1>1, <1>2 DEF Prefork
<1>5. \A j \in 1 .. Len(n) : j = 1 \/ j = 2 \/ j = 3 \/ j = 4
  BY <1>3
<1>6. \A j \in 1 .. Len(n) : n[j].do \in {"lock_base", "lock_huge", "lock_swap", "postfork"}
  BY <1>1, <1>3, <1>5
<1>7. \A j \in 1 .. Len(n) : Ordered(n, j)
  <2> SUFFICES ASSUME NEW j \in 1 .. Len(n)
               PROVE  Ordered(n, j)
    OBVIOUS
  <2>1. n[j].do = "postfork" => j = Len(n)
    BY <1>1, <1>3, <1>5
  <2>2. n[j].do \in {"lock_base", "lock_huge", "lock_swap", "postfork"}
    BY <1>6
  <2> QED
    BY <2>1, <2>2 DEF Ordered, Asks
<1>8. ~Has(n, "base_pages") /\ Has(n, "lock_base")
  <2>1. 1 \in 1 .. Len(n) /\ n[1].do = "lock_base"
    BY <1>1, <1>3
  <2> QED
    BY <1>6, <2>1 DEF Has
<1>9. NodesOf(n, local[t].node) = 0
  <2>1. /\ \A j \in 1 .. Len(n) : n[j].do \notin Gives
        /\ \A j \in 1 .. Len(n) : n[j].do \notin Asks
        /\ \A j \in 1 .. Len(n) : n[j].do \notin {"dealloc2"}
    BY <1>6 DEF Gives, Asks
  <2>2. Count(n, Gives) = 0 /\ Count(n, Asks) = 0 /\ Count(n, {"dealloc2"}) = 0
    BY <1>3, <2>1, CountAll
  <2> QED
    BY <2>2 DEF NodesOf
<1>10. UNCHANGED <<free, base_nodes, base_left, base_chunks, huge, owner>>
  BY DEF Prefork, swapVars, baseVars
<1>11. PICK z \in {0, 1} : z = 0
  OBVIOUS
<1>12. Cardinality(huge') = Cardinality(huge) - z
  BY <1>10, <1>11, FiniteTrees DEF NodesInv
<1>13. NodesOf(n, local[t].node) = z
  BY <1>9, <1>11
<1> QED
  BY <1>3, <1>4, <1>7, <1>8, <1>10, <1>12, <1>13, BeginNodes

\* The mutexes are taken.
LEMMA LockNodes ==
    ASSUME NodesInv, Inv', NEW t \in Threads, Lock(t)
    PROVE  Nodes'
<1>1. PICK m \in Mutexes : At(t, LockCall[m]) /\ Hold(t, m)
  BY DEF Lock
<1>2. /\ Inv /\ calls[t] # << >> /\ Return(t)
      /\ UNCHANGED <<free, base_nodes, base_left, base_chunks, huge, local>>
  BY <1>1 DEF Lock, NodesInv, At, swapVars, baseVars
<1>3. PICK what : what = LockCall[m]
  OBVIOUS
<1>4. At(t, what) /\ (m # "base" => what # "lock_base") /\ what \in {"lock_base", "lock_huge", "lock_swap"}
  BY <1>1, <1>3 DEF LockCall, Mutexes
<1>5. \A v \in Threads : BaseHeld(v)'
  <2>1. CASE m = "base"
    <3>1. Swap(t, <<Arg(t)>>, << >>, Rest(t))
      BY <1>2, HeadSplit
    <3>2. /\ \A v \in Threads \ {t} : calls'[v] = calls[v]
          /\ Has(calls'[t], "base_pages") => Has(calls[t], "base_pages")
      BY <3>1, SwapFacts, ProfileOne
    <3> QED
      BY <1>1, <1>2, <2>1, <3>2, HoldHeld
  <2>2. CASE m # "base"
    <3>1. owner'["base"] = owner["base"]
      BY <1>1, <1>2, <2>2 DEF Hold, Inv, Typed, Mutexes
    <3> QED
      BY <1>2, <1>4, <2>2, <3>1, PopHeld
  <2> QED
    BY <2>1, <2>2
<1>6. what \notin Gives \union Asks \union {"dealloc2"}
  BY <1>4 DEF Gives, Asks
<1> QED
  BY <1>2, <1>4, <1>5, <1>6, IdleNodes

\* jemalloc_postfork releases base_mtx, which the thread holds.
LEMMA PostforkNodes ==
    ASSUME NodesInv, Inv', NEW t \in Threads, Postfork(t)
    PROVE  Nodes'
<1>1. /\ At(t, "postfork") /\ Inv /\ calls[t] # << >> /\ Return(t) /\ Arg(t).do = "postfork"
      /\ UNCHANGED <<free, base_nodes, base_left, base_chunks, huge, local>>
  BY DEF Postfork, NodesInv, At, Arg, swapVars, baseVars
<1>2. PICK c, p, u : c = <<Arg(t)>> /\ p = << >> /\ u = Rest(t)
  OBVIOUS
<1>3. Swap(t, c, p, u) /\ Arg(t) \in CallSet
  BY <1>1, <1>2, HeadSplit
<1>4. u = << >>
  BY <1>1, <1>2, HeadOrder
<1>5. \A what : ~Has(p, what) /\ ~Has(u, what)
  BY <1>2, <1>4, ProfileOne
<1>6. owner["base"] = t
  <2>1. Has(c, "postfork") /\ ~Has(c, "lock_base")
    BY <1>1, <1>2, <1>3, CountOne
  <2>2. Has(calls[t], "postfork") /\ ~Has(calls[t], "lock_base")
    BY <1>3, <1>5, <2>1, SwapFacts
  <2> QED
    BY <2>2 DEF NodesInv, Nodes, BaseHeld
<1>7. \A v \in Threads : BaseHeld(v)'
  <2>1. /\ \A v \in Threads \ {t} : calls'[v] = calls[v]
        /\ ~Has(calls'[t], "base_pages") /\ ~Has(calls'[t], "postfork")
    BY <1>3, <1>5, SwapFacts
  <2> QED
    BY <1>6, <2>1, UnlockHeld
<1>8. "postfork" \notin Gives \union Asks \union {"dealloc2"}
  BY DEF Gives, Asks
<1> QED
  BY <1>1, <1>7, <1>8, IdleNodes

\* An allocation is recorded with the node malloc has for it.
LEMMA InsertNodes ==
    ASSUME NodesInv, Inv', NEW t \in Threads, Insert(t)
    PROVE  Nodes'
<1>1. /\ At(t, "insert") /\ Inv /\ calls[t] # << >> /\ Return(t)
      /\ UNCHANGED <<free, base_nodes, base_left, base_chunks, owner, local>>
  BY DEF Insert, NodesInv, At, swapVars, baseVars
<1>2. PICK e : e = Extent(Arg(t).addr, Arg(t).size)
  OBVIOUS
<1>3. huge' = huge \union {e} /\ CallFor(t, e)
  BY <1>1, <1>2 DEF Insert, CallFor, Named, Arg, At
<1>4. e \in InHand(t)
  <2>1. PICK n, p, r : p = << >> /\ n = p \o Tail(calls[t]) /\ r = 0
    OBVIOUS
  <2>2. Pushed(n, p, t) /\ p \in Seq(CallSet) /\ \A k \in 1 .. Len(p) : Passive(p[k])
    BY <2>1 DEF Pushed
  <2> QED
    BY <1>1, <1>3, <2>2, NamedDone
<1>5. e \notin huge
  <2> SUFFICES ASSUME e \in huge
               PROVE  FALSE
    OBVIOUS
  <2>1. Piece("hand", t, e) \in Pieces /\ e \in Ext /\ Piece("huge", NoThread, e) \in Pieces
    BY <1>1, <1>4, ExtentFacts
  <2>2. Apart(e, e)
    BY <1>1, <2>1, PieceFacts DEF Inv, Divided, Separate
  <2> QED
    BY <2>1, <2>2 DEF Apart, End, Ext
<1>6. Cardinality(huge') = Cardinality(huge) + 1
  BY <1>1, <1>3, <1>5, FiniteTrees, FS_AddElement
<1>7. Popped(t, 1, 0, 0)
  BY <1>1, PopNodes DEF Gives, Asks
<1>8. NodesOf(calls'[t], local'[t].node) = NodesOf(calls[t], local[t].node) + (-1)
  BY <1>1, <1>7 DEF Popped, Profile, NodesOf
<1>9. Ledger(t, 0, 1, 0, -1)
  <2>1. /\ Cardinality(free') = Cardinality(free) + 0
        /\ Cardinality(base_chunks') = Cardinality(base_chunks) + 0
    BY <1>1, FiniteTrees
  <2>2. NodesPerChunk * 0 = 0 /\ base_left \in Nat /\ base_nodes \in Nat
    BY <1>1, ChunksAssumption DEF Inv, Typed
  <2>3. NodesPerChunk * 0 - (base_left' - base_left) = base_nodes' - base_nodes + 0 + 1 + (-1)
    BY <1>1, <2>2
  <2>4. \A v \in Threads \ {t} : local'[v] = local[v]
    BY <1>1
  <2> QED
    BY <1>6, <1>8, <2>1, <2>3, <2>4 DEF Ledger
<1>10. \A v \in Threads : BaseHeld(v)'
  BY <1>1, PopHeld
<1> QED
  BY <1>1, <1>9, <1>10, DoneNodes

\* What comes after trim gives back the node malloc has, or uses it.
LEMMA TrimmedNodes ==
    ASSUME NodesInv, Inv', NEW t \in Threads, At(t, "trim"), NEW p \in Seq(CallSet), Goto(t, p),
           \A k \in 1 .. Len(p) : p[k].do \in {"dealloc", "insert", "base_node_dealloc"},
           Count(p, Gives) = 1,
           UNCHANGED <<free, base_nodes, base_left, base_chunks, huge, owner, local>>
    PROVE  Nodes'
<1>1. Inv /\ calls[t] # << >>
  BY DEF NodesInv, At
<1>2. PICK s, u : s = calls[t] /\ u = << >>
  OBVIOUS
<1>3. /\ s \in Seq(CallSet) /\ Len(s) \in Nat \ {0} /\ Head(s) = s[1] /\ Follows(s, 1)
  BY <1>1, <1>2, HeadFacts
<1>4. s[1].do = "trim"
  BY <1>2, <1>3 DEF At
<1>5. Len(s) = 1
  BY <1>3, <1>4 DEF Follows
<1>6. \A k \in 1 .. Len(s) : s[k].do = "trim"
  <2>1. \A k \in 1 .. Len(s) : k = 1
    BY <1>5
  <2> QED
    BY <1>4, <2>1
<1>7. Profile(s, 1, 0, 0) /\ ~Has(s, "lock_base")
  <2>1. /\ \A k \in 1 .. Len(s) : s[k].do \in Gives
        /\ \A k \in 1 .. Len(s) : s[k].do \notin Asks
        /\ \A k \in 1 .. Len(s) : s[k].do \notin {"dealloc2"}
    BY <1>6 DEF Gives, Asks
  <2>2. Count(s, Gives) = 1 /\ Count(s, Asks) = 0 /\ Count(s, {"dealloc2"}) = 0
    BY <1>3, <1>5, <2>1, CountAll
  <2> QED
    BY <1>6, <2>2 DEF Profile, Has
<1>8. Profile(p, 1, 0, 0) /\ ~Has(p, "base_pages") /\ ~Has(p, "postfork")
  <2>1. /\ \A k \in 1 .. Len(p) : p[k].do \notin Asks
        /\ \A k \in 1 .. Len(p) : p[k].do \notin {"dealloc2"}
    BY DEF Asks
  <2>2. Count(p, Asks) = 0 /\ Count(p, {"dealloc2"}) = 0
    BY <2>1, CountAll
  <2> QED
    BY <2>2 DEF Profile, Has
<1>9. u \in Seq(CallSet) /\ s \o u = s /\ p \o u = p
  BY <1>2, <1>3
<1>10. Swap(t, s, p, u)
  BY <1>2, <1>3, <1>9 DEF Swap, Goto
<1>11. NodesOf(calls'[t], local'[t].node) = NodesOf(calls[t], local[t].node) + 0
  <2>1. Exchange(t, u, 1, 0, 0, 1, 0, 0)
    BY <1>7, <1>8, <1>10, ProfileSwap
  <2> QED
    BY <2>1 DEF Exchange, Profile, NodesOf
<1>12. Ledger(t, 0, 0, 0, 0)
  <2>1. base_left \in Nat /\ base_nodes \in Nat
    BY <1>1, ChunksAssumption DEF Inv, Typed
  <2>2. UNCHANGED <<free, huge, base_chunks>> /\ base_left' = base_left /\ base_nodes' = base_nodes
        /\ \A v \in Threads \ {t} : local'[v] = local[v]
    OBVIOUS
  <2> QED
    BY <1>1, <1>11, <2>1, <2>2, LedgerQuiet
<1>13. \A v \in Threads : BaseHeld(v)'
  BY <1>7, <1>8, <1>10, HeldSwap
<1>14. \A k \in 1 .. Len(p) : Ordered(p, k)
  <2> SUFFICES ASSUME NEW k \in 1 .. Len(p)
               PROVE  Ordered(p, k)
    OBVIOUS
  <2>1. \A j \in k + 1 .. Len(p) : j \in 1 .. Len(p)
    OBVIOUS
  <2>2. \A j \in k + 1 .. Len(p) : p[j].do \notin Asks \union {"postfork"} /\ p[j].do # "dealloc2"
    BY <2>1 DEF Asks
  <2>3. p[k].do \in {"dealloc", "insert", "base_node_dealloc"}
    OBVIOUS
  <2> QED
    BY <2>2, <2>3 DEF Ordered, Asks
<1> QED
  BY <1>9, <1>10, <1>12, <1>13, <1>14, LedgerKept

\* What is trimmed is given back without a node, and the rest inserted with the one malloc has.
LEMMA TrimNodes ==
    ASSUME NodesInv, Inv', NEW t \in Threads, Trim(t)
    PROVE  Nodes'
<1>1. At(t, "trim") /\ UNCHANGED <<free, base_nodes, base_left, base_chunks, huge, owner, local>>
  BY DEF Trim, swapVars, baseVars
<1>2. PICK s, align, ret : s = Arg(t).size /\ align = Arg(t).addr /\ ret = local[t].ret
  OBVIOUS
<1>3. s \in Int /\ align \in Nat \ {0} /\ ret \in Int
  <2>1. Inv /\ calls[t] # << >>
    BY <1>1 DEF NodesInv, At
  <2>2. PICK c : c = calls[t]
    OBVIOUS
  <2>3. c \in Seq(CallSet) /\ Head(c) = c[1] /\ Follows(c, 1) /\ c[1] \in CallSet
    BY <2>1, <2>2, HeadFacts
  <2>4. Arg(t) = c[1] /\ c[1].do = "trim"
    BY <1>1, <2>2, <2>3 DEF Arg, At
  <2>5. s \in Int /\ align \in Nat \ {0}
    BY <1>2, <2>3, <2>4 DEF Follows, CallSet
  <2>6. ret \in Int
    BY <1>2, <2>1 DEF Inv, Typed, LocalSet
  <2> QED
    BY <2>5, <2>6
<1>4. PICK lead, trail : /\ lead = (align - (ret % align)) % align
                         /\ trail = AllocSize(s, align) - lead - s
  OBVIOUS
<1>5. lead \in Int /\ trail \in Int
  <2>1. lead \in Int
    BY <1>3, <1>4
  <2>2. AllocSize(s, align) \in Int
    BY <1>3 DEF AllocSize
  <2> QED
    BY <1>3, <1>4, <2>1, <2>2
<1>6. PICK p, q : /\ p = IF lead = 0 THEN << >> ELSE <<Call("dealloc", ret, lead)>>
                  /\ q = IF trail = 0 THEN << >> ELSE <<Call("dealloc", ret + lead + s, trail)>>
  OBVIOUS
<1>7. ASSUME NEW a \in Int, NEW k \in Int, NEW v, v = IF k = 0 THEN << >> ELSE <<Call("dealloc", a, k)>>
      PROVE  v \in Seq(CallSet) /\ \A j \in 1 .. Len(v) : v[j].do = "dealloc"
  <2>1. PICK d \in CallSet : d = Call("dealloc", a, k) /\ d.do = "dealloc"
    BY <1>7, CallFacts DEF Dos
  <2>2. PICK r \in Seq(CallSet) : r = <<d>> /\ Len(r) = 1 /\ r[1] = d
    <3>1. <<d>> \in Seq(CallSet) /\ Len(<<d>>) = 1 /\ <<d>>[1] = d
      OBVIOUS
    <3> QED
      BY <3>1
  <2>3. CASE k = 0
    <3>1. v = << >>
      BY <1>7, <2>3
    <3>2. v \in Seq(CallSet) /\ Len(v) = 0
      BY <3>1
    <3> QED
      BY <3>2
  <2>4. CASE k # 0
    <3>1. v = r
      BY <1>7, <2>1, <2>2, <2>4
    <3>2. \A j \in 1 .. Len(r) : j = 1
      BY <2>2
    <3> QED
      BY <2>1, <2>2, <3>1, <3>2
  <2> QED
    BY <2>3, <2>4
<1>8. /\ p \in Seq(CallSet) /\ \A j \in 1 .. Len(p) : p[j].do = "dealloc"
      /\ q \in Seq(CallSet) /\ \A j \in 1 .. Len(q) : q[j].do = "dealloc"
  <2>1. PICK x \in Int : x = ret + lead + s
    BY <1>3, <1>5
  <2>2. /\ p = IF lead = 0 THEN << >> ELSE <<Call("dealloc", ret, lead)>>
        /\ q = IF trail = 0 THEN << >> ELSE <<Call("dealloc", x, trail)>>
    BY <1>6, <2>1
  <2>3. p \in Seq(CallSet) /\ \A j \in 1 .. Len(p) : p[j].do = "dealloc"
    BY <1>3, <1>5, <1>7, <2>2
  <2>4. q \in Seq(CallSet) /\ \A j \in 1 .. Len(q) : q[j].do = "dealloc"
    BY <1>5, <1>7, <2>1, <2>2
  <2> QED
    BY <2>3, <2>4
<1>9. PICK c \in CallSet : c = Call("insert", ret + lead, s) /\ c.do = "insert"
  <2>1. ret + lead \in Int
    BY <1>3, <1>5
  <2> QED
    BY <1>3, <2>1, CallFacts DEF Dos
<1>10. PICK d \in CallSet : d = Do("base_node_dealloc") /\ d.do = "base_node_dealloc"
  BY CallFacts DEF Dos
<1>11. CASE Goto(t, <<d>>)
  <2>1. PICK n \in Seq(CallSet) : n = <<d>> /\ Len(n) = 1 /\ n[1] = d
    <3>1. <<d>> \in Seq(CallSet) /\ Len(<<d>>) = 1 /\ <<d>>[1] = d
      OBVIOUS
    <3> QED
      BY <3>1
  <2>2. \A k \in 1 .. Len(n) : k = 1
    BY <2>1
  <2>3. \A k \in 1 .. Len(n) : n[k].do = "base_node_dealloc"
    BY <1>10, <2>1, <2>2
  <2>4. Count(n, Gives) = 1
    <3>1. \A k \in 1 .. Len(n) : n[k].do \in Gives
      BY <2>3 DEF Gives
    <3>2. Count(n, Gives) = Len(n)
      BY <3>1, CountAll
    <3> QED
      BY <2>1, <3>2
  <2>5. Goto(t, n)
    BY <1>11, <2>1
  <2> QED
    BY <1>1, <2>3, <2>4, <2>5, TrimmedNodes
<1>12. CASE Goto(t, p \o q \o <<c>>)
  <2>1. PICK n : n = p \o q \o <<c>>
    OBVIOUS
  <2>2. /\ n \in Seq(CallSet) /\ Len(n) = Len(p) + Len(q) + 1
        /\ Len(p) \in Nat /\ Len(q) \in Nat
        /\ \A k \in 1 .. Len(p) : n[k] = p[k]
        /\ \A k \in 1 .. Len(q) : n[Len(p) + k] = q[k]
        /\ n[Len(n)] = c
    <3>1. Row(n, p, q, c)
      BY <2>1 DEF Row
    <3> QED
      BY <1>8, <3>1, RowIs
  <2>3. ASSUME NEW k \in 1 .. Len(n), k # Len(n)
        PROVE  n[k].do = "dealloc"
    <3>1. CASE k <= Len(p)
      <4>1. k \in 1 .. Len(p)
        BY <2>2, <3>1
      <4> QED
        BY <1>8, <2>2, <4>1
    <3>2. CASE k > Len(p)
      <4>1. PICK j : j = k - Len(p)
        OBVIOUS
      <4>2. j \in 1 .. Len(q) /\ Len(p) + j = k
        BY <2>2, <2>3, <3>2, <4>1
      <4>3. n[Len(p) + j] = q[j] /\ q[j].do = "dealloc"
        BY <1>8, <2>2, <4>2
      <4> QED
        BY <4>2, <4>3
    <3> QED
      BY <2>2, <3>1, <3>2
  <2>4. n[Len(n)].do = "insert" /\ Len(n) \in 1 .. Len(n)
    BY <1>9, <2>2
  <2>5. \A k \in 1 .. Len(n) : n[k].do \in {"dealloc", "insert", "base_node_dealloc"}
    BY <2>3, <2>4
  <2>6. Count(n, Gives) = 1
    <3>1. {k \in 1 .. Len(n) : n[k].do \in Gives} = {Len(n)}
      BY <2>3, <2>4 DEF Gives
    <3> QED
      BY <3>1, FS_Singleton DEF Count
  <2>7. Goto(t, n)
    BY <1>12, <2>1
  <2> QED
    BY <1>1, <2>2, <2>5, <2>6, <2>7, TrimmedNodes
<1>13. Goto(t, <<d>>) \/ Goto(t, p \o q \o <<c>>)
  BY <1>2, <1>4, <1>6, <1>9, <1>10 DEF Trim
<1> QED
  BY <1>11, <1>12, <1>13

\* In the initial state no node has been made, and nothing is to be done.
LEMMA InitNodes == Init => NodesInv
<1> SUFFICES ASSUME Init
             PROVE  NodesInv
  OBVIOUS
<1>1. Inv
  BY InitInv
<1>2. /\ free = {} /\ huge = {} /\ base_chunks = {0} /\ base_nodes = 0 /\ base_left = NodesPerChunk
      /\ calls = [t \in Threads |-> << >>]
  BY DEF Init
<1>3. PICK u : u = << >>
  OBVIOUS
<1>4. u \in Seq(CallSet) /\ Profile(u, 0, 0, 0) /\ (\A what : ~Has(u, what)) /\ Len(u) = 0
  BY <1>3, ProfileOne
<1>5. \A t \in Threads : calls[t] = u
  BY <1>2, <1>3
<1>6. \A t \in Threads : Orders(calls[t]) /\ BaseHeld(t)
  BY <1>4, <1>5 DEF Orders, BaseHeld
<1>7. \A t \in Threads : Hands[t] = 0
  <2> SUFFICES ASSUME NEW t \in Threads
               PROVE  Hands[t] = 0
    OBVIOUS
  <2>1. Hands[t] = NodesOf(calls[t], local[t].node)
    BY <1>1, HandIs DEF Hands, Inv
  <2>2. NodesOf(u, local[t].node) = 0
    BY <1>4 DEF Profile, NodesOf
  <2> QED
    BY <1>5, <2>1, <2>2
<1>8. Hands \in [Threads -> Int]
  <2>1. Hands = [t \in Threads |-> Hands[t]]
    BY DEF Hands
  <2> QED
    BY <1>7, <2>1
<1>9. PICK g \in [SUBSET Threads -> Int] : SumOf(g, Hands, Threads) /\ Total = g[Threads]
  BY <1>8, TotalIs
<1>10. Total = 0
  <2>1. IsFiniteSet(Threads)
    BY ChunksAssumption
  <2>2. PICK f \in [Threads -> Int] : f = Hands
    BY <1>8
  <2>3. g[Threads] = 0
    BY <1>7, <1>9, <2>1, <2>2, SumZero
  <2> QED
    BY <1>9, <2>3
<1>11. Cardinality(free) = 0 /\ Cardinality(huge) = 0 /\ Cardinality(base_chunks) = 1
  BY <1>2, FS_EmptySet, FS_Singleton
<1>12. NodesPerChunk * 1 - NodesPerChunk = 0
  BY ChunksAssumption
<1>13. NodesKept
  BY <1>2, <1>10, <1>11, <1>12 DEF NodesKept, Total
<1> QED
  BY <1>1, <1>6, <1>13 DEF NodesInv, Nodes

\* A stuttering step changes none of what is said of the nodes.
LEMMA StutterNodes == Nodes /\ UNCHANGED vars => Nodes'
<1> SUFFICES ASSUME Nodes, UNCHANGED vars
             PROVE  Nodes'
  OBVIOUS
<1>1. /\ UNCHANGED <<free, base_nodes, base_left, base_chunks, huge, owner>>
      /\ UNCHANGED <<calls, local>>
  BY DEF vars, swapVars, baseVars
<1>2. \A t \in Threads : Orders(calls[t])' /\ BaseHeld(t)'
  BY <1>1 DEF Nodes, BaseHeld
<1>3. Total' = Total
  BY <1>1 DEF Total, NodesInHand, MapThenSumSet, MapThenFoldSet
<1>4. NodesKept'
  BY <1>1, <1>3 DEF Nodes, NodesKept, Total
<1> QED
  BY <1>2, <1>4 DEF Nodes

\* The invariant of the nodes is inductive.
LEMMA NextNodes == NodesInv /\ [Next]_vars => NodesInv'
<1> SUFFICES ASSUME NodesInv, [Next]_vars
             PROVE  NodesInv'
  OBVIOUS
<1>1. Inv'
  BY NextInv DEF NodesInv
<1>2. ASSUME NEW t \in Threads, Step(t)
      PROVE  Nodes'
  BY <1>1, <1>2, BaseNodeAllocNodes, BaseAllocNodes, BasePagesNodes, BaseNodeDeallocNodes,
     UnlockSwapNodes, RecycleNodes, ExtendNodes, DeallocNodes, DeallocWithNodeNodes, TrimNodes,
     InsertNodes, LockNodes, PostforkNodes DEF Step
<1>3. ASSUME NEW t \in Threads, Program(t)
      PROVE  Nodes'
  BY <1>1, <1>3, HugeMallocNodes, HugeDallocNodes, PreforkNodes DEF Program
<1>4. ASSUME UNCHANGED vars
      PROVE  Nodes'
  BY <1>4, StutterNodes DEF NodesInv
<1>5. Nodes'
  BY <1>2, <1>3, <1>4 DEF Next
<1> QED
  BY <1>1, <1>5 DEF NodesInv

\* No node is lost or made twice: each node base_alloc has made is on the list, in a tree, or
\* in a thread's hand, also when chunk_dealloc_swap has unlocked swap_mtx to get one
\* (chunk_swap.c:131) and then joins extents and needs none (base.c, chunk_swap.c, huge.c).
THEOREM NodesConserved == Spec => []NodesKept
<1>1. Init => NodesInv
  BY InitNodes
<1>2. NodesInv /\ [Next]_vars => NodesInv'
  BY NextNodes
<1>3. NodesInv => NodesKept
  BY DEF NodesInv, Nodes
<1> QED
  BY <1>1, <1>2, <1>3, PTL DEF Spec
=============================================================================
