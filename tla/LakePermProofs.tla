--------------------------- MODULE LakePermProofs ---------------------------
(***************************************************************************)
(* Theorems about the checkpointed lake, for every number of time steps,   *)
(* crashes and blocks and whatever evolve computes: a restarted run goes   *)
(* on from the state of the last backup, and its arrays do not overlap.    *)
(***************************************************************************)
EXTENDS LakePerm, FiniteSetTheorems, WellFoundedInduction, TLAPS

Pcs == {"mopen", "msave", "bopen", "malloc", "init", "print_i", "mflush", "backup", "writing",
        "restore", "reading", "globals", "evolve", "copy0", "copy1", "tpdt", "print_f", "free",
        "mclose", "remove", "remove2", "end", "down"}

Pointer == Blocks \union {Null}
Globals == [t : Nat, u_i0 : Pointer, u_i1 : Pointer, pebs : Pointer]

\* h is a heap, and malloc has nothing in use from block room + 1 on.
IsHeap(h, room) ==
    /\ DOMAIN h = {"globals", "used", "mem"} /\ h = [globals |-> h.globals, used |-> h.used, mem |-> h.mem]
    /\ h.globals \in Globals /\ h.used \subseteq 1 .. room
    /\ DOMAIN h.mem = Blocks /\ h.mem = [b \in Blocks |-> h.mem[b]]

\* The blocks that the mallocs so far may have taken.
Room == IF pc \in {"down", "mopen", "msave", "bopen", "malloc"} THEN 4 * crashes
        ELSE 4 * (crashes + 1)

\* b is a backup: a piece is missing, or one of a heap.
IsBackup(b, room) ==
    /\ DOMAIN b = Pieces /\ b = [k \in Pieces |-> b[k]]
    /\ b[Head] # Missing => b[Head].globals \in Globals /\ b[Head].used \subseteq 1 .. room

ComputingPcs == {"backup", "writing", "evolve", "copy0", "copy1", "tpdt", "print_f", "free"}

\* The types.
Types ==
    /\ pc \in Pcs /\ {restart, mfd, bfd, whole, lost} \subseteq BOOLEAN
    /\ next \in 0 .. NBlocks + 1 /\ crashes \in 0 .. MaxCrashes
    /\ glob \in Globals /\ IsHeap(heap, Room)
    /\ bakFile = NoBackup \/ IsBackup(bakFile, Room)
    /\ bfd => bakFile # NoBackup /\ pc \notin {"remove", "remove2", "end"}
    /\ pc \in {"reading", "writing"} => bfd /\ next <= NBlocks

\* The variables of a computation: the arrays are the first three blocks.
Begun(g) == g.u_i0 = 1 /\ g.u_i1 = 2 /\ g.pebs = 3 /\ g.t <= EndTime

\* Where the process is between its mallocs and its end.
Early   == {"mopen", "msave", "bopen", "malloc", "init"}
Resuming == {"mopen", "bopen", "malloc", "restore", "reading", "globals"}

\* The first process, up to its first backup.
FirstRun ==
    ~restart /\ pc # "down" =>
      /\ crashes = 0
      /\ pc \notin {"restore", "reading", "globals"}
      /\ pc \in Early \union {"print_i", "mflush"} => ~whole
      /\ pc \in {"mopen", "msave", "bopen", "malloc"} => heap.used = {}
      /\ pc = "init" => glob.u_i0 = 1 /\ glob.u_i1 = 2 /\ glob.pebs = 3
      /\ pc \notin {"mopen", "msave", "bopen", "malloc"} => u_cpu = 4
      /\ pc \in {"init", "print_i", "mflush"} => {1, 2, 3, 4} \subseteq heap.used
      /\ pc \in {"msave", "bopen"} => mfd
      /\ pc = "bopen" => mapFile = "heap"

\* A restarted process has a whole backup until it has read it.
Resumed ==
    /\ pc = "down" => whole
    /\ restart /\ pc \in Resuming => whole
    /\ restart => pc \notin {"msave", "init", "print_i", "mflush"}
    /\ restart /\ pc = "bopen" => mfd /\ mapFile = "heap"

\* A whole backup has all pieces of a heap of the computation.
Backed ==
    whole => /\ mapFile \in {"heap", "torn"} /\ bakFile # NoBackup
             /\ \A k \in Pieces : bakFile[k] # Missing
             /\ Begun(bakFile[Head].globals) /\ {1, 2, 3} \subseteq bakFile[Head].used

\* Both files are open while the program computes.
Open ==
    /\ pc \notin {"down", "mopen", "msave", "bopen", "remove", "remove2", "end"}
         => mfd /\ bfd /\ mapFile = "heap" /\ bakFile # NoBackup
    /\ pc \in {"remove2", "end"} => ~whole

\* The arrays and the scratch array, and what the copying has done.
Arrays ==
    /\ pc \in ComputingPcs \union {"print_i", "mflush", "mclose", "remove", "remove2", "end"} => Begun(glob)
    /\ pc \notin {"down", "mopen", "msave", "bopen", "malloc"} => u_cpu \in Blocks \ {1, 2, 3}
    /\ pc \in ComputingPcs => {1, 2, 3} \subseteq heap.used /\ (restart \/ u_cpu \in heap.used)
    /\ pc \in {"tpdt", "print_f"} => heap.mem[2] = heap.mem[u_cpu]
    /\ pc = "print_f" => glob.t + 1 > EndTime

\* What backup has written and restore has read so far.
Copied ==
    /\ pc = "writing" =>
         /\ heap.globals = glob
         /\ \A k \in Pieces : k < next => bakFile[k] = PieceOf(heap, k)
    /\ pc \in {"reading", "globals"} =>
         /\ pc = "globals" => next = NBlocks + 1
         /\ next > 0 => heap.globals = bakFile[Head].globals /\ heap.used = bakFile[Head].used
         /\ \A k \in Blocks : k < next => heap.mem[k] = bakFile[k].content

\* The inductive invariant; of a lost run only the types are known.
Inv == /\ Types
       /\ ~lost => FirstRun /\ Resumed /\ Backed /\ Open /\ Arrays /\ Copied
       /\ lost => restart \/ pc = "down"

----------------------------------------------------------------------------
(* The heap.  *)

\* The constants.
LEMMA ConstantFacts ==
    ASSUME HeapFits
    PROVE  /\ EndTime \in Nat /\ MaxCrashes \in Nat /\ NBlocks \in Nat
           /\ NBlocks >= 4 * (MaxCrashes + 1) /\ NBlocks >= 4
           /\ 1 \in Blocks /\ 2 \in Blocks /\ 3 \in Blocks /\ 4 \in Blocks
           /\ Head = 0 /\ Head \in Pieces /\ Pieces = 0 .. NBlocks
           /\ \A b \in Blocks : b \in Pieces /\ b # Head /\ b \in Nat
           /\ \A k \in Pieces : k = Head \/ k \in Blocks
           /\ NoGlobals \in Globals /\ Blocks \subseteq Pointer
<1>1. EndTime \in Nat /\ MaxCrashes \in Nat /\ NBlocks \in Nat /\ NBlocks >= 4 * (MaxCrashes + 1)
  BY DEF HeapFits
<1>2. NBlocks >= 4
  BY <1>1
<1>3. NoGlobals \in Globals
  BY DEF HeapFits, Globals, Pointer
<1> QED
  BY <1>1, <1>2, <1>3 DEF Blocks, Pieces, Head, Pointer

\* A piece is there.
LEMMA PieceIsThere == \A h, k : PieceOf(h, k) # Missing
<1>1. \A x, y : [globals |-> x, used |-> y] # [absent |-> TRUE]
  OBVIOUS
<1>2. \A x : [content |-> x] # [absent |-> TRUE]
  OBVIOUS
<1> QED
  BY <1>1, <1>2 DEF PieceOf, Missing

\* One block is written.
Put(h, b, v) == [h EXCEPT !.mem[b] = v]
LEMMA HeapPut ==
    ASSUME NEW h, NEW room, IsHeap(h, room), NEW b, NEW v,
           NEW g, g = Put(h, b, v)
    PROVE  /\ IsHeap(g, room) /\ g.globals = h.globals /\ g.used = h.used
           /\ b \in Blocks => g.mem[b] = v
           /\ \A c \in Blocks : c # b => g.mem[c] = h.mem[c]
<1>1. g = [globals |-> h.globals, used |-> h.used, mem |-> [h.mem EXCEPT ![b] = v]]
  BY DEF IsHeap, Put
<1>2. [h.mem EXCEPT ![b] = v] = [c \in Blocks |-> IF c = b THEN v ELSE h.mem[c]]
  BY DEF IsHeap
<1> QED
  BY <1>1, <1>2 DEF IsHeap

\* One block is copied.
Copy(h, a, b) == [h EXCEPT !.mem[b] = h.mem[a]]
LEMMA HeapCopy ==
    ASSUME NEW h, NEW room, IsHeap(h, room), NEW a, NEW b,
           NEW g, g = Copy(h, a, b)
    PROVE  /\ IsHeap(g, room) /\ g.globals = h.globals /\ g.used = h.used
           /\ a \in Blocks /\ b \in Blocks => g.mem[b] = h.mem[a] /\ g.mem[a] = h.mem[a]
           /\ \A c \in Blocks : c # b => g.mem[c] = h.mem[c]
<1> DEFINE v == h.mem[a]
<1>1. g = Put(h, b, v)
  BY DEF Copy, Put
<1> HIDE DEF v
<1>2. /\ IsHeap(g, room) /\ g.globals = h.globals /\ g.used = h.used
      /\ b \in Blocks => g.mem[b] = v
      /\ \A c \in Blocks : c # b => g.mem[c] = h.mem[c]
  BY <1>1, HeapPut
<1> QED
  BY <1>2 DEF v

\* restore reads one piece of the backup b.
Read(h, k, b) ==
    IF k = Head
    THEN [h EXCEPT !.globals = b[Head].globals, !.used = b[Head].used]
    ELSE [h EXCEPT !.mem[k] = b[k].content]
LEMMA HeapRead ==
    ASSUME NEW h, NEW room, IsHeap(h, room), NEW k, NEW b,
           k = Head => b[Head].globals \in Globals /\ b[Head].used \subseteq 1 .. room,
           NEW g, g = Read(h, k, b)
    PROVE  /\ IsHeap(g, room)
           /\ k = Head => g.globals = b[Head].globals /\ g.used = b[Head].used /\ g.mem = h.mem
           /\ k # Head => /\ g.globals = h.globals /\ g.used = h.used
                          /\ k \in Blocks => g.mem[k] = b[k].content
                          /\ \A c \in Blocks : c # k => g.mem[c] = h.mem[c]
<1>1. CASE k = Head
  <2>1. g = [globals |-> b[Head].globals, used |-> b[Head].used, mem |-> h.mem]
    BY <1>1 DEF IsHeap, Read
  <2> QED
    BY <1>1, <2>1 DEF IsHeap
<1>2. CASE k # Head
  <2> DEFINE v == b[k].content
  <2>1. g = Put(h, k, v)
    BY <1>2 DEF Put, Read
  <2> HIDE DEF v
  <2>2. /\ IsHeap(g, room) /\ g.globals = h.globals /\ g.used = h.used
        /\ k \in Blocks => g.mem[k] = v
        /\ \A c \in Blocks : c # k => g.mem[c] = h.mem[c]
    BY <2>1, HeapPut
  <2> QED
    BY <1>2, <2>2 DEF v
<1> QED
  BY <1>1, <1>2

\* The PERM variables are saved.
LEMMA HeapSave ==
    ASSUME NEW h, NEW room, IsHeap(h, room), NEW vs \in Globals,
           NEW g, g = [h EXCEPT !.globals = vs]
    PROVE  IsHeap(g, room) /\ g.globals = vs /\ g.used = h.used /\ g.mem = h.mem
<1>1. g = [globals |-> vs, used |-> h.used, mem |-> h.mem]
  BY DEF IsHeap
<1> QED
  BY <1>1 DEF IsHeap

\* malloc takes blocks or gets them back.
LEMMA HeapUse ==
    ASSUME NEW h, NEW room, NEW more, IsHeap(h, room), NEW u, u \subseteq 1 .. more,
           NEW g, g = [globals |-> h.globals, used |-> u, mem |-> h.mem]
    PROVE  IsHeap(g, more) /\ g.globals = h.globals /\ g.used = u /\ g.mem = h.mem
  BY DEF IsHeap

\* An empty heap is a heap.
LEMMA EmptyIsHeap ==
    ASSUME HeapFits, NEW room
    PROVE  IsHeap(EmptyHeap, room)
  BY ConstantFacts DEF EmptyHeap, IsHeap

\* Room only grows.
LEMMA MoreRoom ==
    ASSUME NEW room \in Nat, NEW more \in Nat, room <= more
    PROVE  /\ \A h : IsHeap(h, room) => IsHeap(h, more)
           /\ \A b : IsBackup(b, room) => IsBackup(b, more)
<1>1. 1 .. room \subseteq 1 .. more
  OBVIOUS
<1> QED
  BY <1>1 DEF IsHeap, IsBackup

----------------------------------------------------------------------------
(* malloc takes the lowest blocks.  *)

\* The numbers below b.
LEMMA BelowFinite ==
    ASSUME NEW S, S \subseteq Nat, NEW b \in Nat
    PROVE  IsFiniteSet({c \in S : c < b})
<1>1. IsFiniteSet(0 .. b)
  BY FS_Interval
<1>2. \A c \in S : c < b => c \in 0 .. b
  OBVIOUS
<1> QED
  BY <1>1, <1>2, FS_Subset

\* A set of naturals that is not empty has a least element.
LEMMA LeastExists ==
    ASSUME NEW S, S \subseteq Nat, S # {}
    PROVE  \E x \in S : \A y \in S : x <= y
<1> DEFINE R == OpToRel(<, Nat)
<1>1. IsWellFoundedOn(R, Nat)
  BY NatLessThanWellFounded
<1>2. PICK x \in S : \A y \in S : ~(<<y, x>> \in R)
  <2> HIDE DEF R
  <2> QED
    BY <1>1, WFMin, Zenon
<1>3. ASSUME NEW y \in S PROVE x <= y
  <2>1. x \in Nat /\ y \in Nat
    OBVIOUS
  <2>2. y < x => <<y, x>> \in R
    BY <2>1 DEF OpToRel
  <2> HIDE DEF R
  <2> QED
    BY <1>2, <2>1, <2>2
<1> QED
  BY <1>3

\* After the lowest k elements of S comes another, if there is one.
LEMMA NextLowest ==
    ASSUME NEW S, S \subseteq Nat, NEW T, T \subseteq S, IsFiniteSet(T),
           \A x \in T, y \in S \ T : x < y,
           S \ T # {}
    PROVE  \E b \in S \ T :
             /\ {c \in S : c < b} = T
             /\ IsFiniteSet(T \union {b}) /\ Cardinality(T \union {b}) = Cardinality(T) + 1
             /\ \A x \in T \union {b}, y \in S \ (T \union {b}) : x < y
<1>1. PICK b \in S \ T : \A y \in S \ T : b <= y
  <2>1. S \ T \subseteq Nat
    OBVIOUS
  <2> QED
    BY <2>1, LeastExists
<1>2. {c \in S : c < b} = T
  <2>1. b \in Nat /\ \A c \in S : c \in Nat
    OBVIOUS
  <2>2. ASSUME NEW c \in S PROVE c < b <=> c \in T
    BY <1>1, <2>1
  <2> QED
    BY <2>2
<1>3. IsFiniteSet(T \union {b}) /\ Cardinality(T \union {b}) = Cardinality(T) + 1
  BY <1>1, FS_AddElement
<1>4. ASSUME NEW x \in T \union {b}, NEW y \in S \ (T \union {b}) PROVE x < y
  BY <1>1
<1> QED
  BY <1>1, <1>2, <1>3, <1>4

\* b is the k-th lowest number of S.
Nth(S, k, b) == b \in S /\ Cardinality({c \in S : c < b}) = k - 1

\* A set with four numbers above m has a first, second, third and fourth.
LEMMA NthExists ==
    ASSUME NEW S, S \subseteq Nat, NEW m \in Nat, m + 1 .. m + 4 \subseteq S,
           NEW k \in 1 .. 4
    PROVE  \E b \in S : Nth(S, k, b)
<1> DEFINE Initial(T, i) == /\ T \subseteq S /\ IsFiniteSet(T) /\ Cardinality(T) = i
                            /\ \A x \in T, y \in S \ T : x < y
<1>1. ASSUME NEW T, NEW i \in 0 .. 3, Initial(T, i)
      PROVE  \E b \in S : Nth(S, i + 1, b) /\ Initial(T \union {b}, i + 1)
  <2>1. S \ T # {}
    <3> SUFFICES ASSUME S \subseteq T PROVE FALSE
      OBVIOUS
    <3>1. m + 1 .. m + 4 \subseteq T /\ Cardinality(m + 1 .. m + 4) = 4
      BY FS_Interval
    <3>2. Cardinality(m + 1 .. m + 4) <= Cardinality(T)
      BY <1>1, <3>1, FS_Subset
    <3> QED
      BY <1>1, <3>1, <3>2
  <2>2. PICK b \in S \ T :
             /\ {c \in S : c < b} = T
             /\ IsFiniteSet(T \union {b}) /\ Cardinality(T \union {b}) = Cardinality(T) + 1
             /\ \A x \in T \union {b}, y \in S \ (T \union {b}) : x < y
    BY <1>1, <2>1, NextLowest
  <2>3. Cardinality(T) = (i + 1) - 1
    BY <1>1
  <2>4. Nth(S, i + 1, b)
    BY <2>2, <2>3 DEF Nth
  <2>5. Initial(T \union {b}, i + 1)
    BY <1>1, <2>2
  <2> QED
    BY <2>2, <2>4, <2>5
<1>2. Initial({}, 0)
  BY FS_EmptySet
<1> HIDE DEF Initial
<1>3. ASSUME NEW i \in 0 .. 3, NEW j, j = i + 1, \E T : Initial(T, i)
      PROVE  (\E T : Initial(T, j)) /\ \E b \in S : Nth(S, j, b)
  BY <1>1, <1>3
<1>4. (\E T : Initial(T, 1)) /\ \E b \in S : Nth(S, 1, b)
  BY <1>2, <1>3
<1>5. (\E T : Initial(T, 2)) /\ \E b \in S : Nth(S, 2, b)
  BY <1>3, <1>4
<1>6. (\E T : Initial(T, 3)) /\ \E b \in S : Nth(S, 3, b)
  BY <1>3, <1>5
<1>7. \E b \in S : Nth(S, 4, b)
  BY <1>3, <1>6
<1>8. k = 1 \/ k = 2 \/ k = 3 \/ k = 4
  OBVIOUS
<1> QED
  BY <1>4, <1>5, <1>6, <1>7, <1>8

\* The four lowest blocks of a heap with room for them.
LEMMA LowestFacts ==
    ASSUME HeapFits, NEW m \in Nat, m + 4 <= NBlocks, heap.used \subseteq 1 .. m,
           NEW k \in 1 .. 4
    PROVE  /\ Lowest(k) \in FreeBlocks /\ Lowest(k) \in 1 .. m + 4
           /\ k = 4 => Lowest(k) \notin {1, 2, 3}
           /\ heap.used = {} => Lowest(k) = k
<1> DEFINE S == FreeBlocks
           b == Lowest(k)
<1>1. S \subseteq Nat /\ m + 1 .. m + 4 \subseteq S /\ S \subseteq Blocks /\ NBlocks \in Nat
  BY ConstantFacts DEF FreeBlocks, Blocks
<1>2. b \in S /\ Cardinality({c \in S : c < b}) = k - 1
  <2>1. \E x \in S : Nth(S, k, x)
    BY <1>1, NthExists
  <2> HIDE DEF S
  <2> QED
    BY <2>1 DEF Lowest, Nth, S
<1>3. IsFiniteSet({c \in S : c < b}) /\ b \in 1 .. NBlocks
  BY <1>1, <1>2, BelowFinite DEF Blocks
<1>d. S = Blocks \ heap.used /\ Blocks = 1 .. NBlocks
  BY DEF FreeBlocks, Blocks
<1> HIDE DEF S, b
<1>4. b <= m + 4
  <2> SUFFICES ASSUME b > m + 4 PROVE FALSE
    BY <1>1, <1>3
  <2>1. m + 1 .. m + 4 \subseteq {c \in S : c < b}
    BY <1>1, <1>3
  <2>2. Cardinality(m + 1 .. m + 4) = 4
    BY FS_Interval
  <2>3. Cardinality(m + 1 .. m + 4) <= Cardinality({c \in S : c < b})
    BY <1>3, <2>1, FS_Subset
  <2> QED
    BY <1>2, <2>2, <2>3
<1>5. Cardinality(1 .. b - 1) = b - 1 /\ IsFiniteSet(1 .. b - 1)
  <2>1. 1 \in Int /\ b - 1 \in Int /\ b - 1 >= 0
    BY <1>1, <1>3
  <2>2. IsFiniteSet(1 .. b - 1)
         /\ Cardinality(1 .. b - 1) = IF 1 > b - 1 THEN 0 ELSE (b - 1) - 1 + 1
    BY <2>1, FS_Interval
  <2> QED
    BY <2>1, <2>2
<1>6. k = 4 => b >= 4
  <2>1. {c \in S : c < b} \subseteq 1 .. b - 1
    BY <1>1, <1>3, <1>d
  <2>2. Cardinality({c \in S : c < b}) <= Cardinality(1 .. b - 1)
    BY <1>5, <2>1, FS_Subset
  <2> QED
    BY <1>2, <1>3, <1>5, <2>2
<1>7. ASSUME heap.used = {} PROVE b = k
  <2>1. S = 1 .. NBlocks
    BY <1>7, <1>d
  <2>2. \A c : c \in S /\ c < b <=> c \in 1 .. b - 1
    BY <1>1, <1>3, <2>1
  <2>3. {c \in S : c < b} = 1 .. b - 1
    <3> DEFINE I == 1 .. b - 1
    <3> HIDE DEF I
    <3>1. {c \in S : c < b} = I
      BY <2>2 DEF I
    <3> QED
      BY <3>1 DEF I
  <2>4. Cardinality({c \in S : c < b}) = b - 1
    BY <1>5, <2>3, Zenon
  <2>5. k - 1 = b - 1
    BY <1>2, <2>4, Zenon
  <2> QED
    BY <1>3, <2>5
<1> QED
  BY <1>2, <1>3, <1>4, <1>6, <1>7 DEF S, b

----------------------------------------------------------------------------
(* Every action preserves the invariant: one lemma for each action of LakePerm, or for *)
(* each of its disjuncts, and in it one step for each part of the invariant.           *)

\* PERM variables are set.
Pointed(g, x, y, z) == [g EXCEPT !.u_i0 = x, !.u_i1 = y, !.pebs = z]
LEMMA GlobalsPut ==
    ASSUME NEW g \in Globals
    PROVE  /\ \A x : [g EXCEPT !.t = x] = [t |-> x, u_i0 |-> g.u_i0, u_i1 |-> g.u_i1, pebs |-> g.pebs]
           /\ \A x, y, z : Pointed(g, x, y, z) = [t |-> g.t, u_i0 |-> x, u_i1 |-> y, pebs |-> z]
<1>1. g = [t |-> g.t, u_i0 |-> g.u_i0, u_i1 |-> g.u_i1, pebs |-> g.pebs]
  BY DEF Globals
<1>2. ASSUME NEW x
      PROVE [g EXCEPT !.t = x] = [t |-> x, u_i0 |-> g.u_i0, u_i1 |-> g.u_i1, pebs |-> g.pebs]
  BY <1>1
<1>3. ASSUME NEW x, NEW y, NEW z
      PROVE Pointed(g, x, y, z) = [t |-> g.t, u_i0 |-> x, u_i1 |-> y, pebs |-> z]
  <2>1. Pointed(g, x, y, z) = [[[g EXCEPT !.u_i0 = x] EXCEPT !.u_i1 = y] EXCEPT !.pebs = z]
    BY DEF Pointed
  <2>2. [g EXCEPT !.u_i0 = x] = [t |-> g.t, u_i0 |-> x, u_i1 |-> g.u_i1, pebs |-> g.pebs]
    BY <1>1
  <2>3. [[t |-> g.t, u_i0 |-> x, u_i1 |-> g.u_i1, pebs |-> g.pebs] EXCEPT !.u_i1 = y]
          = [t |-> g.t, u_i0 |-> x, u_i1 |-> y, pebs |-> g.pebs]
    OBVIOUS
  <2>4. [[t |-> g.t, u_i0 |-> x, u_i1 |-> y, pebs |-> g.pebs] EXCEPT !.pebs = z]
          = [t |-> g.t, u_i0 |-> x, u_i1 |-> y, pebs |-> z]
    OBVIOUS
  <2> QED
    BY <2>1, <2>2, <2>3, <2>4
<1> QED
  BY <1>2, <1>3

\* Three blocks are written.
LEMMA HeapPut3 ==
    ASSUME NEW h, NEW room, IsHeap(h, room), NEW a, NEW b, NEW c, NEW u, NEW v, NEW w,
           NEW g, g = Put(Put(Put(h, a, u), b, v), c, w)
    PROVE  /\ IsHeap(g, room) /\ g.globals = h.globals /\ g.used = h.used
           /\ {a, b, c} \subseteq Blocks /\ a # b /\ a # c /\ b # c
                => g.mem[a] = u /\ g.mem[b] = v /\ g.mem[c] = w
<1> DEFINE h1 == Put(h, a, u)
           h2 == Put(h1, b, v)
<1>1. g = Put(h2, c, w)
  OBVIOUS
<1>2. IsHeap(h1, room) /\ h1.globals = h.globals /\ h1.used = h.used
      /\ (a \in Blocks => h1.mem[a] = u)
  BY HeapPut
<1>3. /\ IsHeap(h2, room) /\ h2.globals = h1.globals /\ h2.used = h1.used
      /\ b \in Blocks => h2.mem[b] = v
      /\ a \in Blocks /\ a # b => h2.mem[a] = h1.mem[a]
  BY <1>2, HeapPut
<1> HIDE DEF h1, h2
<1>4. /\ IsHeap(g, room) /\ g.globals = h2.globals /\ g.used = h2.used
      /\ c \in Blocks => g.mem[c] = w
      /\ b \in Blocks /\ b # c => g.mem[b] = h2.mem[b]
      /\ a \in Blocks /\ a # c => g.mem[a] = h2.mem[a]
  BY <1>1, <1>3, HeapPut
<1> QED
  BY <1>2, <1>3, <1>4

\* An empty backup.
LEMMA EmptyIsBackup ==
    ASSUME HeapFits, NEW room
    PROVE  IsBackup(EmptyBackup, room) /\ EmptyBackup # NoBackup
<1>1. DOMAIN EmptyBackup = Pieces /\ DOMAIN NoBackup = {}
  BY DEF EmptyBackup, NoBackup
<1>2. EmptyBackup # NoBackup
  BY <1>1, ConstantFacts
<1> QED
  BY <1>2, ConstantFacts DEF EmptyBackup, IsBackup

\* Crashes are counted.
LEMMA CountFacts ==
    ASSUME HeapFits, Inv
    PROVE  crashes \in Nat
  BY ConstantFacts DEF Inv, Types

\* The shapes of the heap and of the PERM variables.
LEMMA ShapeFacts ==
    ASSUME Inv
    PROVE  IsHeap(heap, Room) /\ glob \in Globals
  BY DEF Inv, Types

LEMMA MopenCreateStep ==
    ASSUME HeapFits, Inv, ~restart /\ Goto("mopen", "msave") /\ MopenCreate /\ UNCHANGED lakeVars
    PROVE  Inv'
<1> USE ConstantFacts DEF MopenCreate, Goto, disk, process, ghosts, lakeVars
<1>r. Room \in Nat /\ Room' \in Nat /\ Room <= Room'
  BY CountFacts DEF Room
<1>s. /\ \A h : IsHeap(h, Room) => IsHeap(h, Room')
      /\ \A b : IsBackup(b, Room) => IsBackup(b, Room')
  BY <1>r, MoreRoom
<1>h. heap' = EmptyHeap /\ IsHeap(heap', Room') /\ heap'.used = {}
  BY EmptyIsHeap DEF EmptyHeap
<1>1. Types'
  BY <1>s, <1>h DEF Inv, Types, Pcs
<1>2. ~lost' => ~lost /\ FirstRun /\ Resumed /\ Backed /\ Open /\ Arrays /\ Copied
  BY DEF Inv
<1>3. ~lost' => FirstRun'
  BY <1>h, <1>2 DEF FirstRun, Early, Inv, Types
<1>4. ~lost' => Resumed'
  BY <1>h, <1>2 DEF Resumed, Resuming, FirstRun, Backed
<1>5. ~lost' => Backed'
  BY <1>2 DEF FirstRun, Early, Backed
<1>6. ~lost' => Open'
  BY <1>h, <1>2 DEF Open, Backed, FirstRun, Resumed
<1>7. ~lost' => Arrays'
  BY <1>h, <1>2 DEF Arrays, ComputingPcs, FirstRun, Backed, Copied, Inv, Types
<1>8. ~lost' => Copied'
  BY <1>h, <1>2 DEF Copied, Inv, Types
<1>9. lost' => restart' \/ pc' = "down"
  BY DEF Inv
<1> QED
  BY <1>1, <1>3, <1>4, <1>5, <1>6, <1>7, <1>8, <1>9 DEF Inv

LEMMA MopenSaveStep ==
    ASSUME HeapFits, Inv, Goto("msave", "bopen") /\ MopenSave /\ UNCHANGED lakeVars
    PROVE  Inv'
<1> USE ConstantFacts DEF MopenSave, Goto, disk, process, ghosts, lakeVars
<1>r. Room \in Nat /\ Room' \in Nat /\ Room <= Room'
  BY CountFacts DEF Room
<1>s. /\ \A h : IsHeap(h, Room) => IsHeap(h, Room')
      /\ \A b : IsBackup(b, Room) => IsBackup(b, Room')
  BY <1>r, MoreRoom
<1>h. IsHeap(heap', Room') /\ heap'.globals = glob /\ heap'.used = heap.used /\ heap'.mem = heap.mem
  BY <1>s, HeapSave DEF Inv, Types
<1>1. Types'
  BY <1>s, <1>h DEF Inv, Types, Pcs
<1>2. ~lost' => ~lost /\ FirstRun /\ Resumed /\ Backed /\ Open /\ Arrays /\ Copied
  BY DEF Inv
<1>3. ~lost' => FirstRun'
  BY <1>h, <1>2 DEF FirstRun, Early, Inv, Types
<1>4. ~lost' => Resumed'
  BY <1>h, <1>2 DEF Resumed, Resuming, FirstRun, Backed
<1>5. ~lost' => Backed'
  BY <1>h, <1>2 DEF Backed, Open, Copied, Arrays, ComputingPcs, Inv, Types
<1>6. ~lost' => Open'
  BY <1>h, <1>2 DEF Open, Backed, FirstRun, Resumed
<1>7. ~lost' => Arrays'
  BY <1>h, <1>2 DEF Arrays, ComputingPcs, FirstRun, Backed, Copied, Inv, Types
<1>8. ~lost' => Copied'
  BY <1>h, <1>2 DEF Copied, Inv, Types
<1>9. lost' => restart' \/ pc' = "down"
  BY DEF Inv
<1> QED
  BY <1>1, <1>3, <1>4, <1>5, <1>6, <1>7, <1>8, <1>9 DEF Inv

LEMMA MopenExistingStep ==
    ASSUME HeapFits, Inv, restart /\ Goto("mopen", "bopen") /\ MopenExisting /\ UNCHANGED lakeVars
    PROVE  Inv'
<1> USE ConstantFacts DEF MopenExisting, Goto, disk, process, ghosts, lakeVars
<1>r. Room \in Nat /\ Room' \in Nat /\ Room <= Room'
  BY CountFacts DEF Room
<1>s. /\ \A h : IsHeap(h, Room) => IsHeap(h, Room')
      /\ \A b : IsBackup(b, Room) => IsBackup(b, Room')
  BY <1>r, MoreRoom
<1>h. IsHeap(heap', Room') /\ glob' \in Globals /\ (mapFile = "heap" => heap' = heap)
  BY <1>s, EmptyIsHeap DEF Inv, Types, IsHeap
<1>1. Types'
  BY <1>s, <1>h DEF Inv, Types, Pcs
<1>2. ~lost' => ~lost /\ FirstRun /\ Resumed /\ Backed /\ Open /\ Arrays /\ Copied
  BY DEF Inv
<1>3. ~lost' => FirstRun'
  BY <1>h, <1>2 DEF FirstRun, Early, Inv, Types
<1>4. ~lost' => Resumed'
  BY <1>h, <1>2 DEF Resumed, Resuming, FirstRun, Backed
<1>5. ~lost' => Backed'
  BY <1>h, <1>2 DEF Backed, Open, Copied, Arrays, ComputingPcs, Inv, Types
<1>6. ~lost' => Open'
  BY <1>h, <1>2 DEF Open, Backed, FirstRun, Resumed
<1>7. ~lost' => Arrays'
  BY <1>h, <1>2 DEF Arrays, ComputingPcs, FirstRun, Backed, Copied, Inv, Types
<1>8. ~lost' => Copied'
  BY <1>h, <1>2 DEF Copied, Inv, Types
<1>9. lost' => restart' \/ pc' = "down"
  BY DEF Inv
<1> QED
  BY <1>1, <1>3, <1>4, <1>5, <1>6, <1>7, <1>8, <1>9 DEF Inv

LEMMA MopenTornStep ==
    ASSUME HeapFits, Inv, restart /\ Goto("mopen", "down") /\ MopenTorn /\ UNCHANGED lakeVars
    PROVE  Inv'
<1> USE ConstantFacts DEF MopenTorn, Goto, disk, process, ghosts, lakeVars
<1>r. Room' = Room
  BY DEF Room
<1>1. Types'
  BY <1>r DEF Inv, Types, Pcs
<1>2. ~lost' => ~lost /\ FirstRun /\ Resumed /\ Backed /\ Open /\ Arrays /\ Copied
  BY DEF Inv
<1>3. ~lost' => FirstRun'
  BY <1>2 DEF FirstRun, Early
<1>4. ~lost' => Resumed'
  BY <1>2 DEF Resumed, Resuming
<1>5. ~lost' => Backed'
  BY <1>2 DEF Backed
<1>6. ~lost' => Open'
  BY <1>2 DEF Open
<1>7. ~lost' => Arrays'
  BY <1>2 DEF Arrays, ComputingPcs
<1>8. ~lost' => Copied'
  BY <1>2 DEF Copied
<1>9. lost' => restart' \/ pc' = "down"
  BY DEF Inv
<1> QED
  BY <1>1, <1>3, <1>4, <1>5, <1>6, <1>7, <1>8, <1>9 DEF Inv

LEMMA BopenStep ==
    ASSUME HeapFits, Inv, Bopen
    PROVE  Inv'
<1> USE ConstantFacts DEF Bopen, BopenExisting, BopenCreate, Goto, disk, process, ghosts, lakeVars
<1>r. Room \in Nat /\ Room' \in Nat /\ Room <= Room'
  BY CountFacts DEF Room
<1>s. /\ \A h : IsHeap(h, Room) => IsHeap(h, Room')
      /\ \A b : IsBackup(b, Room) => IsBackup(b, Room')
  BY <1>r, MoreRoom
<1>1. Types'
  BY <1>s, EmptyIsBackup DEF Inv, Types, Pcs
<1>2. ~lost' => ~lost /\ FirstRun /\ Resumed /\ Backed /\ Open /\ Arrays /\ Copied
  BY DEF Inv
<1>3. ~lost' => FirstRun'
  BY <1>2 DEF FirstRun, Early, Inv, Types
<1>4. ~lost' => Resumed'
  BY <1>2 DEF Resumed, Resuming, FirstRun, Backed
<1>5. ~lost' => Backed'
  BY <1>2 DEF Backed, FirstRun, Early
<1>6. ~lost' => Open'
  BY <1>2, EmptyIsBackup DEF Open, Backed, FirstRun, Resumed, Resuming
<1>7. ~lost' => Arrays'
  BY <1>2 DEF Arrays, ComputingPcs, FirstRun, Backed, Copied, Inv, Types
<1>8. ~lost' => Copied'
  BY <1>2 DEF Copied, Inv, Types
<1>9. lost' => restart' \/ pc' = "down"
  BY DEF Inv
<1> QED
  BY <1>1, <1>3, <1>4, <1>5, <1>6, <1>7, <1>8, <1>9 DEF Inv

\* The blocks that the mallocs of a process take.
LEMMA MallocBlocks ==
    ASSUME HeapFits, Inv, pc = "malloc",
           NEW u, u = heap.used \union {Lowest(k) : k \in 1 .. 4}
    PROVE  /\ {Lowest(1), Lowest(2), Lowest(3), Lowest(4)} \subseteq Blocks
           /\ Lowest(4) \notin {1, 2, 3}
           /\ u \subseteq 1 .. 4 * (crashes + 1)
           /\ heap.used = {} => /\ Lowest(1) = 1 /\ Lowest(2) = 2 /\ Lowest(3) = 3 /\ Lowest(4) = 4
                                /\ {1, 2, 3, 4} \subseteq u
<1>1. /\ 4 * crashes \in Nat /\ 4 * crashes + 4 <= NBlocks /\ heap.used \subseteq 1 .. 4 * crashes
      /\ crashes \in Nat
  BY ConstantFacts DEF Inv, Types, Room, IsHeap
<1>2. 4 * (crashes + 1) = 4 * crashes + 4 /\ 1 .. 4 * crashes \subseteq 1 .. 4 * crashes + 4
  BY <1>1
<1>3. \A k \in 1 .. 4 :
         /\ Lowest(k) \in FreeBlocks /\ Lowest(k) \in 1 .. 4 * crashes + 4
         /\ k = 4 => Lowest(k) \notin {1, 2, 3}
         /\ heap.used = {} => Lowest(k) = k
  BY <1>1, LowestFacts
<1>4. 1 \in 1 .. 4 /\ 2 \in 1 .. 4 /\ 3 \in 1 .. 4 /\ 4 \in 1 .. 4
  OBVIOUS
<1>5. FreeBlocks \subseteq Blocks
  BY DEF FreeBlocks
<1> DEFINE L(k) == Lowest(k)
<1>e. /\ Lowest(1) = L(1) /\ Lowest(2) = L(2) /\ Lowest(3) = L(3) /\ Lowest(4) = L(4)
      /\ u = heap.used \union {L(k) : k \in 1 .. 4}
      /\ \A k \in 1 .. 4 : L(k) \in FreeBlocks /\ L(k) \in 1 .. 4 * crashes + 4
      /\ L(4) \notin {1, 2, 3}
      /\ heap.used = {} => \A k \in 1 .. 4 : L(k) = k
  BY <1>3, <1>4
<1> HIDE DEF L
<1>6. u \subseteq 1 .. 4 * crashes + 4
  BY <1>1, <1>2, <1>e
<1>7. L(1) \in u /\ L(2) \in u /\ L(3) \in u /\ L(4) \in u
  BY <1>4, <1>e
<1>8. heap.used = {} => L(1) = 1 /\ L(2) = 2 /\ L(3) = 3 /\ L(4) = 4 /\ {1, 2, 3, 4} \subseteq u
  BY <1>4, <1>e, <1>7
<1>9. {L(1), L(2), L(3), L(4)} \subseteq Blocks
  BY <1>4, <1>5, <1>e
<1> QED
  <2> USE <1>e
  <2>1. u \subseteq 1 .. 4 * (crashes + 1)
    BY <1>2, <1>6
  <2> QED
    BY <2>1, <1>8, <1>9, <1>e

LEMMA MallocStep ==
    ASSUME HeapFits, Inv, Malloc
    PROVE  Inv'
<1> USE ConstantFacts DEF Malloc, Goto, disk, process, ghosts, lakeVars
<1>r. Room \in Nat /\ Room' = 4 * (crashes + 1) /\ Room' \in Nat /\ Room <= Room'
  BY CountFacts DEF Room
<1>s. /\ \A h : IsHeap(h, Room) => IsHeap(h, Room')
      /\ \A b : IsBackup(b, Room) => IsBackup(b, Room')
  BY <1>r, MoreRoom
<1> DEFINE u == heap.used \union {Lowest(k) : k \in 1 .. 4}
<1>l. /\ {Lowest(1), Lowest(2), Lowest(3), Lowest(4)} \subseteq Blocks
      /\ Lowest(4) \notin {1, 2, 3}
      /\ u \subseteq 1 .. Room'
      /\ heap.used = {} => /\ Lowest(1) = 1 /\ Lowest(2) = 2 /\ Lowest(3) = 3 /\ Lowest(4) = 4
                           /\ {1, 2, 3, 4} \subseteq u
  BY <1>r, MallocBlocks
<1>d. heap' = [heap EXCEPT !.used = u]
  OBVIOUS
<1> HIDE DEF u
<1>h. /\ IsHeap(heap', Room') /\ heap'.globals = heap.globals
      /\ heap'.used = u /\ heap'.mem = heap.mem
  <2>1. heap' = [globals |-> heap.globals, used |-> u, mem |-> heap.mem]
    BY <1>d DEF Inv, Types, IsHeap
  <2>2. IsHeap(heap, Room) /\ u \subseteq 1 .. Room'
    BY <1>l, ShapeFacts
  <2> HIDE DEF Malloc
  <2>3. ASSUME NEW h, h = heap' PROVE IsHeap(h, Room') /\ h.globals = heap.globals /\ h.used = u /\ h.mem = heap.mem
    <3>1. h = [globals |-> heap.globals, used |-> u, mem |-> heap.mem]
      BY <2>1, <2>3
    <3> QED
      BY <2>2, <3>1, HeapUse
  <2> QED
    BY <2>3
<1>g. /\ glob' \in Globals /\ glob'.u_i0 = Lowest(1) /\ glob'.u_i1 = Lowest(2) /\ glob'.pebs = Lowest(3)
      /\ u_cpu' = Lowest(4) /\ u_cpu' \in Blocks \ {1, 2, 3}
  <2>1. glob \in Globals /\ glob' = Pointed(glob, Lowest(1), Lowest(2), Lowest(3))
    BY DEF Inv, Types, Pointed
  <2>2. glob' = [t |-> glob.t, u_i0 |-> Lowest(1), u_i1 |-> Lowest(2), pebs |-> Lowest(3)]
    BY <2>1, GlobalsPut
  <2> QED
    BY <1>l, <2>1, <2>2 DEF Globals, Pointer
<1>f. ~restart => heap.used = {}
  BY DEF Inv, FirstRun
<1>1. Types'
  BY <1>s, <1>h, <1>g DEF Inv, Types, Pcs
<1>2. ~lost' => ~lost /\ FirstRun /\ Resumed /\ Backed /\ Open /\ Arrays /\ Copied
  BY DEF Inv
<1>3. ~lost' => FirstRun'
  BY <1>h, <1>g, <1>f, <1>l, <1>2 DEF FirstRun, Early, Inv, Types
<1>4. ~lost' => Resumed'
  BY <1>h, <1>2 DEF Resumed, Resuming, FirstRun, Backed
<1>5. ~lost' => Backed'
  BY <1>h, <1>2 DEF Backed, Open, Copied, Arrays, ComputingPcs, Inv, Types
<1>6. ~lost' => Open'
  BY <1>h, <1>2 DEF Open, Backed, FirstRun, Resumed
<1>7. ~lost' => Arrays'
  BY <1>g, <1>2 DEF Arrays, ComputingPcs
<1>8. ~lost' => Copied'
  BY <1>h, <1>2 DEF Copied, Inv, Types
<1>9. lost' => restart' \/ pc' = "down"
  BY DEF Inv
<1> QED
  BY <1>1, <1>3, <1>4, <1>5, <1>6, <1>7, <1>8, <1>9 DEF Inv

LEMMA InitLakeStep ==
    ASSUME HeapFits, Inv, InitLake
    PROVE  Inv'
<1> USE ConstantFacts DEF InitLake, Goto, disk, process, ghosts, lakeVars
<1>r. Room \in Nat /\ Room' \in Nat /\ Room <= Room'
  BY CountFacts DEF Room
<1>s. /\ \A h : IsHeap(h, Room) => IsHeap(h, Room')
      /\ \A b : IsBackup(b, Room) => IsBackup(b, Room')
  BY <1>r, MoreRoom
<1>g. /\ glob' \in Globals /\ glob'.t = 0 /\ glob'.u_i0 = glob.u_i0 /\ glob'.u_i1 = glob.u_i1
      /\ glob'.pebs = glob.pebs
  <2>1. glob \in Globals
    BY DEF Inv, Types
  <2>2. glob' = [t |-> 0, u_i0 |-> glob.u_i0, u_i1 |-> glob.u_i1, pebs |-> glob.pebs]
    BY <2>1, GlobalsPut
  <2> QED
    BY <2>1, <2>2 DEF Globals
<1>h. IsHeap(heap', Room') /\ heap'.used = heap.used
  <2>1. heap' = Put(Put(Put(heap, glob.pebs, Pebs), glob.u_i0, StartLake), glob.u_i1, StartLake)
    BY DEF Put
  <2> QED
    BY <1>s, <2>1, HeapPut3 DEF Inv, Types
<1>1. Types'
  BY <1>s, <1>h, <1>g DEF Inv, Types, Pcs
<1>2. ~lost' => ~lost /\ FirstRun /\ Resumed /\ Backed /\ Open /\ Arrays /\ Copied
  BY DEF Inv
<1>3. ~lost' => FirstRun'
  BY <1>h, <1>2 DEF FirstRun, Early, Inv, Types
<1>4. ~lost' => Resumed'
  BY <1>h, <1>2 DEF Resumed, Resuming, FirstRun, Backed
<1>5. ~lost' => Backed'
  BY <1>h, <1>2 DEF Backed, Open, Copied, Arrays, ComputingPcs, Inv, Types
<1>6. ~lost' => Open'
  BY <1>h, <1>2 DEF Open, Backed, FirstRun, Resumed
<1>7. ~lost' => Arrays'
  <2>1. ~lost => ~restart /\ u_cpu = 4 /\ glob.u_i0 = 1 /\ glob.u_i1 = 2 /\ glob.pebs = 3
    BY DEF Inv, FirstRun, Resumed
  <2>2. ~lost => Begun(glob') /\ u_cpu' \in Blocks \ {1, 2, 3}
    BY <1>g, <2>1 DEF Begun
  <2>3. pc' = "print_i" /\ lost' = lost
    OBVIOUS
  <2> QED
    BY <2>2, <2>3 DEF Arrays, ComputingPcs, Begun
<1>8. ~lost' => Copied'
  BY <1>h, <1>2 DEF Copied, Inv, Types
<1>9. lost' => restart' \/ pc' = "down"
  BY DEF Inv
<1> QED
  BY <1>1, <1>3, <1>4, <1>5, <1>6, <1>7, <1>8, <1>9 DEF Inv

LEMMA PrintInitialStep ==
    ASSUME HeapFits, Inv, PrintInitial
    PROVE  Inv'
<1> USE ConstantFacts DEF PrintInitial, Goto, disk, process, ghosts, lakeVars
<1>r. Room \in Nat /\ Room' \in Nat /\ Room <= Room'
  BY CountFacts DEF Room
<1>s. /\ \A h : IsHeap(h, Room) => IsHeap(h, Room')
      /\ \A b : IsBackup(b, Room) => IsBackup(b, Room')
  BY <1>r, MoreRoom
<1>1. Types'
  BY <1>s DEF Inv, Types, Pcs
<1>2. ~lost' => ~lost /\ FirstRun /\ Resumed /\ Backed /\ Open /\ Arrays /\ Copied
  BY DEF Inv
<1>3. ~lost' => FirstRun'
  BY <1>2 DEF FirstRun, Early, Inv, Types
<1>4. ~lost' => Resumed'
  BY <1>2 DEF Resumed, Resuming, FirstRun, Backed
<1>5. ~lost' => Backed'
  BY <1>2 DEF Backed, Open, Copied, Arrays, ComputingPcs, Inv, Types
<1>6. ~lost' => Open'
  BY <1>2 DEF Open, Backed, FirstRun, Resumed
<1>7. ~lost' => Arrays'
  BY <1>2 DEF Arrays, ComputingPcs, FirstRun, Backed, Copied, Inv, Types
<1>8. ~lost' => Copied'
  BY <1>2 DEF Copied, Inv, Types
<1>9. lost' => restart' \/ pc' = "down"
  BY DEF Inv
<1> QED
  BY <1>1, <1>3, <1>4, <1>5, <1>6, <1>7, <1>8, <1>9 DEF Inv

LEMMA MflushStep ==
    ASSUME HeapFits, Inv, Mflush
    PROVE  Inv'
<1> USE ConstantFacts DEF Mflush, Flush, Goto, disk, process, ghosts, lakeVars
<1>r. Room \in Nat /\ Room' \in Nat /\ Room <= Room'
  BY CountFacts DEF Room
<1>s. /\ \A h : IsHeap(h, Room) => IsHeap(h, Room')
      /\ \A b : IsBackup(b, Room) => IsBackup(b, Room')
  BY <1>r, MoreRoom
<1>h. IsHeap(heap', Room') /\ heap'.used = heap.used /\ heap'.mem = heap.mem
  <2>1. CASE mfd
    BY <1>s, <2>1, HeapSave DEF Inv, Types
  <2>2. CASE ~mfd
    BY <1>s, <2>2 DEF Inv, Types
  <2> QED
    BY <2>1, <2>2
<1>1. Types'
  BY <1>s, <1>h DEF Inv, Types, Pcs
<1>2. ~lost' => ~lost /\ FirstRun /\ Resumed /\ Backed /\ Open /\ Arrays /\ Copied
  BY DEF Inv
<1>3. ~lost' => FirstRun'
  BY <1>h, <1>2 DEF FirstRun, Early, Inv, Types
<1>4. ~lost' => Resumed'
  BY <1>h, <1>2 DEF Resumed, Resuming, FirstRun, Backed
<1>5. ~lost' => Backed'
  BY <1>h, <1>2 DEF Backed, Open, Copied, Arrays, ComputingPcs, Inv, Types
<1>6. ~lost' => Open'
  BY <1>h, <1>2 DEF Open, Backed, FirstRun, Resumed
<1>7. ~lost' => Arrays'
  <2>1. ~lost => ~restart /\ {1, 2, 3, 4} \subseteq heap.used /\ u_cpu = 4
    BY DEF Inv, FirstRun, Resumed
  <2> QED
    BY <2>1, <1>h, <1>2 DEF Arrays, ComputingPcs
<1>8. ~lost' => Copied'
  BY <1>h, <1>2 DEF Copied, Inv, Types
<1>9. lost' => restart' \/ pc' = "down"
  BY DEF Inv
<1> QED
  BY <1>1, <1>3, <1>4, <1>5, <1>6, <1>7, <1>8, <1>9 DEF Inv

LEMMA BackupStartStep ==
    ASSUME HeapFits, Inv, Goto("backup", "writing") /\ BackupStart /\ UNCHANGED lakeVars
    PROVE  Inv'
<1> USE ConstantFacts DEF BackupStart, Goto, disk, process, ghosts, lakeVars
<1>r. Room \in Nat /\ Room' \in Nat /\ Room <= Room'
  BY CountFacts DEF Room
<1>s. /\ \A h : IsHeap(h, Room) => IsHeap(h, Room')
      /\ \A b : IsBackup(b, Room) => IsBackup(b, Room')
  BY <1>r, MoreRoom
<1>h. IsHeap(heap', Room') /\ heap'.globals = glob /\ heap'.used = heap.used /\ heap'.mem = heap.mem
  BY <1>s, HeapSave DEF Inv, Types
<1>1. Types'
  BY <1>s, <1>h DEF Inv, Types, Pcs
<1>2. ~lost' => ~lost /\ FirstRun /\ Resumed /\ Backed /\ Open /\ Arrays /\ Copied
  BY DEF Inv
<1>3. ~lost' => FirstRun'
  BY <1>h, <1>2 DEF FirstRun, Early, Inv, Types
<1>4. ~lost' => Resumed'
  BY <1>h, <1>2 DEF Resumed, Resuming, FirstRun, Backed
<1>5. ~lost' => Backed'
  BY <1>h, <1>2 DEF Backed, Open, Copied, Arrays, ComputingPcs, Inv, Types
<1>6. ~lost' => Open'
  BY <1>h, <1>2 DEF Open, Backed, FirstRun, Resumed
<1>7. ~lost' => Arrays'
  BY <1>h, <1>2 DEF Arrays, ComputingPcs, FirstRun, Backed, Copied, Inv, Types
<1>8. ~lost' => Copied'
  BY <1>h, <1>2 DEF Copied, Inv, Types
<1>9. lost' => restart' \/ pc' = "down"
  BY DEF Inv
<1> QED
  BY <1>1, <1>3, <1>4, <1>5, <1>6, <1>7, <1>8, <1>9 DEF Inv

LEMMA BackupFailsStep ==
    ASSUME HeapFits, Inv, Goto("backup", "evolve") /\ BackupFails /\ UNCHANGED lakeVars
    PROVE  Inv'
<1> USE ConstantFacts DEF BackupFails, Goto, disk, process, ghosts, lakeVars
<1>r. Room \in Nat /\ Room' \in Nat /\ Room <= Room'
  BY CountFacts DEF Room
<1>s. /\ \A h : IsHeap(h, Room) => IsHeap(h, Room')
      /\ \A b : IsBackup(b, Room) => IsBackup(b, Room')
  BY <1>r, MoreRoom
<1>1. Types'
  BY <1>s DEF Inv, Types, Pcs
<1>2. ~lost' => ~lost /\ FirstRun /\ Resumed /\ Backed /\ Open /\ Arrays /\ Copied
  BY DEF Inv
<1>3. ~lost' => FirstRun'
  BY <1>2 DEF FirstRun, Early, Inv, Types
<1>4. ~lost' => Resumed'
  BY <1>2 DEF Resumed, Resuming, FirstRun, Backed
<1>5. ~lost' => Backed'
  BY <1>2 DEF Backed, Open, Copied, Arrays, ComputingPcs, Inv, Types
<1>6. ~lost' => Open'
  BY <1>2 DEF Open, Backed, FirstRun, Resumed
<1>7. ~lost' => Arrays'
  BY <1>2 DEF Arrays, ComputingPcs, FirstRun, Backed, Copied, Inv, Types
<1>8. ~lost' => Copied'
  BY <1>2 DEF Copied, Inv, Types
<1>9. lost' => restart' \/ pc' = "down"
  BY DEF Inv
<1> QED
  BY <1>1, <1>3, <1>4, <1>5, <1>6, <1>7, <1>8, <1>9 DEF Inv

LEMMA BackupWriteStep ==
    ASSUME HeapFits, Inv, Goto("writing", IF next = NBlocks THEN "evolve" ELSE "writing") /\ BackupWrite /\ UNCHANGED lakeVars
    PROVE  Inv'
<1> USE ConstantFacts DEF BackupWrite, Goto, disk, process, ghosts, lakeVars
<1>r. Room \in Nat /\ Room' \in Nat /\ Room <= Room'
  BY CountFacts DEF Room
<1>s. /\ \A h : IsHeap(h, Room) => IsHeap(h, Room')
      /\ \A b : IsBackup(b, Room) => IsBackup(b, Room')
  BY <1>r, MoreRoom
<1>a. /\ next \in Pieces /\ next <= NBlocks /\ IsBackup(bakFile, Room') /\ IsHeap(heap, Room')
      /\ DOMAIN bakFile = Pieces
  <2>1. next \in 0 .. NBlocks + 1 /\ next <= NBlocks
    BY DEF Inv, Types
  <2>2. IsBackup(bakFile, Room)
    BY DEF Inv, Types
  <2>3. DOMAIN bakFile = Pieces
    BY <2>2 DEF IsBackup
  <2> QED
    BY <1>s, <2>1, <2>2, <2>3, ShapeFacts DEF Pieces, Head
<1>b. /\ DOMAIN bakFile' = Pieces /\ bakFile' = [k \in Pieces |-> bakFile'[k]]
      /\ bakFile'[next] = PieceOf(heap, next)
      /\ \A k \in Pieces : k # next => bakFile'[k] = bakFile[k]
  BY <1>a DEF IsBackup
<1>c. IsBackup(bakFile', Room')
  <2>1. CASE next = Head
    <3>1. bakFile'[Head] = [globals |-> heap.globals, used |-> heap.used]
      BY <1>b, <2>1 DEF PieceOf
    <3> QED
      BY <1>a, <1>b, <3>1 DEF IsBackup, IsHeap
  <2>2. CASE next # Head
    <3>1. bakFile'[Head] = bakFile[Head]
      BY <1>b, <2>2
    <3> QED
      BY <1>a, <1>b, <3>1 DEF IsBackup
  <2> QED
    BY <2>1, <2>2
<1>d. bakFile' # NoBackup
  BY <1>b DEF NoBackup
<1>1. Types'
  <2>1. next' \in 0 .. NBlocks + 1 /\ (pc' = "writing" => next' <= NBlocks)
    BY <1>a DEF Inv, Types
  <2>2. IsHeap(heap', Room')
    BY <1>s DEF Inv, Types
  <2> QED
    BY <1>c, <1>d, <2>1, <2>2 DEF Inv, Types, Pcs
<1>2. ~lost' => ~lost /\ FirstRun /\ Resumed /\ Backed /\ Open /\ Arrays /\ Copied
  BY DEF Inv
<1>3. ~lost' => FirstRun'
  BY <1>2 DEF FirstRun, Early, Inv, Types
<1>4. ~lost' => Resumed'
  BY <1>2 DEF Resumed, Resuming, FirstRun, Backed
<1>w. ASSUME ~lost PROVE \A k \in Pieces : k < next + 1 => bakFile'[k] = PieceOf(heap, k)
  <2>1. \A k \in Pieces : k < next => bakFile[k] = PieceOf(heap, k)
    BY <1>w DEF Inv, Copied
  <2>2. \A k \in Pieces : k < next + 1 => k < next \/ k = next
    BY <1>a DEF Pieces
  <2> QED
    BY <1>a, <1>b, <2>1, <2>2 DEF Pieces
<1>v. ASSUME ~lost PROVE heap.globals = glob /\ Begun(glob) /\ {1, 2, 3} \subseteq heap.used /\ mapFile = "heap"
  BY <1>v DEF Inv, Copied, Arrays, ComputingPcs, Open
<1>5. ~lost' => Backed'
  <2> SUFFICES ASSUME ~lost, next = NBlocks PROVE Backed'
    BY DEF Backed
  <2>1. \A k \in Pieces : bakFile'[k] = PieceOf(heap, k)
    BY <1>a, <1>w DEF Pieces
  <2>2. \A k \in Pieces : bakFile'[k] # Missing
    BY <2>1, PieceIsThere
  <2>3. bakFile'[Head].globals = glob /\ bakFile'[Head].used = heap.used
    <3>1. bakFile'[Head] = PieceOf(heap, Head)
      BY <2>1
    <3>2. PieceOf(heap, Head) = [globals |-> heap.globals, used |-> heap.used]
      BY DEF PieceOf
    <3> QED
      BY <1>v, <3>1, <3>2
  <2> QED
    BY <1>d, <1>v, <2>2, <2>3 DEF Backed
<1>6. ~lost' => Open'
  BY <1>2, <1>d DEF Open
<1>7. ~lost' => Arrays'
  BY <1>2 DEF Arrays, ComputingPcs, FirstRun, Backed, Copied, Inv, Types
<1>8. ~lost' => Copied'
  <2> SUFFICES ASSUME ~lost PROVE Copied'
    OBVIOUS
  <2>1. \A k \in Pieces : k < next' => bakFile'[k] = PieceOf(heap, k)
    BY <1>w
  <2>2. \A k \in Pieces : PieceOf(heap, k)' = PieceOf(heap, k)
    BY DEF PieceOf
  <2> QED
    BY <1>v, <2>1, <2>2 DEF Copied
<1>9. lost' => restart' \/ pc' = "down"
  BY DEF Inv
<1> QED
  BY <1>1, <1>3, <1>4, <1>5, <1>6, <1>7, <1>8, <1>9 DEF Inv

LEMMA RestoreStartStep ==
    ASSUME HeapFits, Inv, Goto("restore", "reading") /\ RestoreStart /\ UNCHANGED lakeVars
    PROVE  Inv'
<1> USE ConstantFacts DEF RestoreStart, CheckHeader, Goto, disk, process, ghosts, lakeVars
<1>r. Room \in Nat /\ Room' \in Nat /\ Room <= Room'
  BY CountFacts DEF Room
<1>s. /\ \A h : IsHeap(h, Room) => IsHeap(h, Room')
      /\ \A b : IsBackup(b, Room) => IsBackup(b, Room')
  BY <1>r, MoreRoom
<1>1. Types'
  BY <1>s DEF Inv, Types, Pcs
<1>2. ~lost' => ~lost /\ FirstRun /\ Resumed /\ Backed /\ Open /\ Arrays /\ Copied
  BY DEF Inv
<1>3. ~lost' => FirstRun'
  BY <1>2 DEF FirstRun, Early, Inv, Types
<1>4. ~lost' => Resumed'
  BY <1>2 DEF Resumed, Resuming, FirstRun, Backed
<1>5. ~lost' => Backed'
  BY <1>2 DEF Backed, Open, Copied, Arrays, ComputingPcs, Inv, Types
<1>6. ~lost' => Open'
  BY <1>2 DEF Open, Backed, FirstRun, Resumed
<1>7. ~lost' => Arrays'
  BY <1>2 DEF Arrays, ComputingPcs, FirstRun, Backed, Copied, Inv, Types
<1>8. ~lost' => Copied'
  BY <1>2 DEF Copied, Inv, Types
<1>9. lost' => restart' \/ pc' = "down"
  BY DEF Inv
<1> QED
  BY <1>1, <1>3, <1>4, <1>5, <1>6, <1>7, <1>8, <1>9 DEF Inv

LEMMA RestoreReadStep ==
    ASSUME HeapFits, Inv, Goto("reading", IF next = NBlocks THEN "globals" ELSE "reading") /\ RestoreRead /\ UNCHANGED lakeVars
    PROVE  Inv'
<1> USE ConstantFacts DEF RestoreRead, Goto, disk, process, ghosts, lakeVars
<1>r. Room \in Nat /\ Room' \in Nat /\ Room <= Room'
  <2>1. crashes' = crashes /\ crashes \in Nat
    BY DEF Inv, Types
  <2>2. pc \notin {"down", "mopen", "msave", "bopen", "malloc"}
        /\ pc' \notin {"down", "mopen", "msave", "bopen", "malloc"}
    OBVIOUS
  <2> QED
    BY <2>1, <2>2 DEF Room
<1>s. /\ \A h : IsHeap(h, Room) => IsHeap(h, Room')
      /\ \A b : IsBackup(b, Room) => IsBackup(b, Room')
  BY <1>r, MoreRoom
<1>h. /\ IsHeap(heap', Room')
      /\ next = Head => heap'.globals = bakFile[Head].globals /\ heap'.used = bakFile[Head].used /\ heap'.mem = heap.mem
      /\ next # Head => /\ heap'.globals = heap.globals /\ heap'.used = heap.used
                        /\ next \in Blocks => heap'.mem[next] = bakFile[next].content
                        /\ \A c \in Blocks : c # next => heap'.mem[c] = heap.mem[c]
  <2>1. IsHeap(heap, Room')
    BY <1>s, ShapeFacts
  <2>2. ASSUME next = Head PROVE bakFile[Head].globals \in Globals /\ bakFile[Head].used \subseteq 1 .. Room'
    <3>1. bakFile # NoBackup /\ bakFile[Head] # Missing
      BY <2>2 DEF Inv, Types
    <3> QED
      BY <1>s, <3>1 DEF Inv, Types, IsBackup
  <2>3. heap' = Read(heap, next, bakFile)
    BY DEF Read
  <2> HIDE DEF RestoreRead
  <2> QED
    BY <2>1, <2>2, <2>3, HeapRead
<1>1. Types'
  BY <1>s, <1>h DEF Inv, Types, Pcs
<1>2. ~lost' => ~lost /\ FirstRun /\ Resumed /\ Backed /\ Open /\ Arrays /\ Copied
  BY DEF Inv
<1>3. ~lost' => FirstRun'
  BY <1>h, <1>2 DEF FirstRun, Early, Inv, Types
<1>4. ~lost' => Resumed'
  BY <1>h, <1>2 DEF Resumed, Resuming, FirstRun, Backed
<1>5. ~lost' => Backed'
  BY <1>h, <1>2 DEF Backed, Open, Copied, Arrays, ComputingPcs, Inv, Types
<1>6. ~lost' => Open'
  BY <1>h, <1>2 DEF Open, Backed, FirstRun, Resumed
<1>7. ~lost' => Arrays'
  BY <1>h, <1>2 DEF Arrays, ComputingPcs, FirstRun, Backed, Copied, Inv, Types
<1>8. ~lost' => Copied'
  BY <1>h, <1>2 DEF Copied, Inv, Types
<1>9. lost' => restart' \/ pc' = "down"
  BY DEF Inv
<1> QED
  BY <1>1, <1>3, <1>4, <1>5, <1>6, <1>7, <1>8, <1>9 DEF Inv

LEMMA RestoreGlobalsStep ==
    ASSUME HeapFits, Inv, Goto("globals", "evolve") /\ RestoreGlobals /\ UNCHANGED lakeVars
    PROVE  Inv'
<1> USE ConstantFacts DEF RestoreGlobals, Goto, disk, process, ghosts, lakeVars
<1>r. Room \in Nat /\ Room' \in Nat /\ Room <= Room'
  BY CountFacts DEF Room
<1>s. /\ \A h : IsHeap(h, Room) => IsHeap(h, Room')
      /\ \A b : IsBackup(b, Room) => IsBackup(b, Room')
  BY <1>r, MoreRoom
<1>1. Types'
  BY <1>s DEF Inv, Types, Pcs, IsHeap
<1>2. ~lost' => ~lost /\ FirstRun /\ Resumed /\ Backed /\ Open /\ Arrays /\ Copied
  BY DEF Inv
<1>3. ~lost' => FirstRun'
  BY <1>2 DEF FirstRun, Early, Inv, Types
<1>4. ~lost' => Resumed'
  BY <1>2 DEF Resumed, Resuming, FirstRun, Backed
<1>5. ~lost' => Backed'
  BY <1>2 DEF Backed, Open, Copied, Arrays, ComputingPcs, Inv, Types
<1>6. ~lost' => Open'
  BY <1>2 DEF Open, Backed, FirstRun, Resumed
<1>7. ~lost' => Arrays'
  BY <1>2 DEF Arrays, ComputingPcs, FirstRun, Backed, Copied, Resumed, Resuming, Inv, Types
<1>8. ~lost' => Copied'
  BY <1>2 DEF Copied, Inv, Types
<1>9. lost' => restart' \/ pc' = "down"
  BY DEF Inv
<1> QED
  BY <1>1, <1>3, <1>4, <1>5, <1>6, <1>7, <1>8, <1>9 DEF Inv

LEMMA RestoreFailsStep ==
    ASSUME HeapFits, Inv, \E at \in {"restore", "reading"} : Goto(at, "evolve") /\ RestoreFails(at = "reading") /\ UNCHANGED lakeVars
    PROVE  Inv'
<1> USE ConstantFacts DEF RestoreFails, CheckHeader, Goto, disk, process, ghosts, lakeVars
<1>r. Room \in Nat /\ Room' \in Nat /\ Room <= Room'
  BY CountFacts DEF Room
<1>s. /\ \A h : IsHeap(h, Room) => IsHeap(h, Room')
      /\ \A b : IsBackup(b, Room) => IsBackup(b, Room')
  BY <1>r, MoreRoom
<1>c. lost
  BY PieceIsThere DEF Inv, Resumed, Resuming, FirstRun, Backed, Open, Copied, Types
<1>1. Types'
  BY <1>s DEF Inv, Types, Pcs
<1>2. ~lost' => ~lost /\ FirstRun /\ Resumed /\ Backed /\ Open /\ Arrays /\ Copied
  BY DEF Inv
<1>3. ~lost' => FirstRun'
  BY <1>2 DEF FirstRun, Early, Inv, Types
<1>4. ~lost' => Resumed'
  BY <1>2 DEF Resumed, Resuming, FirstRun, Backed
<1>5. ~lost' => Backed'
  BY <1>2 DEF Backed
<1>6. ~lost' => Open'
  BY <1>2 DEF Open, Backed, FirstRun, Resumed
<1>7. ~lost' => Arrays'
  BY <1>c DEF Inv
<1>8. ~lost' => Copied'
  BY <1>2 DEF Copied, Inv, Types
<1>9. lost' => restart' \/ pc' = "down"
  BY DEF Inv
<1> QED
  BY <1>1, <1>3, <1>4, <1>5, <1>6, <1>7, <1>8, <1>9 DEF Inv

LEMMA EvolveStep ==
    ASSUME HeapFits, Inv, Evolve
    PROVE  Inv'
<1> USE ConstantFacts DEF Evolve, Goto, disk, process, ghosts, lakeVars
<1>r. Room \in Nat /\ Room' \in Nat /\ Room <= Room'
  BY CountFacts DEF Room
<1>s. /\ \A h : IsHeap(h, Room) => IsHeap(h, Room')
      /\ \A b : IsBackup(b, Room) => IsBackup(b, Room')
  BY <1>r, MoreRoom
<1>h. IsHeap(heap', Room') /\ heap'.used = heap.used /\ heap'.globals = heap.globals
  <2>1. \E v : heap' = Put(heap, u_cpu, v)
    BY DEF Put
  <2> QED
    BY <1>s, <2>1, HeapPut DEF Inv, Types
<1>1. Types'
  BY <1>s, <1>h DEF Inv, Types, Pcs
<1>2. ~lost' => ~lost /\ FirstRun /\ Resumed /\ Backed /\ Open /\ Arrays /\ Copied
  BY DEF Inv
<1>3. ~lost' => FirstRun'
  BY <1>h, <1>2 DEF FirstRun, Early, Inv, Types
<1>4. ~lost' => Resumed'
  BY <1>h, <1>2 DEF Resumed, Resuming, FirstRun, Backed
<1>5. ~lost' => Backed'
  BY <1>h, <1>2 DEF Backed, Open, Copied, Arrays, ComputingPcs, Inv, Types
<1>6. ~lost' => Open'
  BY <1>h, <1>2 DEF Open, Backed, FirstRun, Resumed
<1>7. ~lost' => Arrays'
  BY <1>h, <1>2 DEF Arrays, ComputingPcs, FirstRun, Backed, Copied, Inv, Types
<1>8. ~lost' => Copied'
  BY <1>h, <1>2 DEF Copied, Inv, Types
<1>9. lost' => restart' \/ pc' = "down"
  BY DEF Inv
<1> QED
  BY <1>1, <1>3, <1>4, <1>5, <1>6, <1>7, <1>8, <1>9 DEF Inv

LEMMA Copy0Step ==
    ASSUME HeapFits, Inv, Copy0
    PROVE  Inv'
<1> USE ConstantFacts DEF Copy0, Goto, disk, process, ghosts, lakeVars
<1>r. Room \in Nat /\ Room' \in Nat /\ Room <= Room'
  BY CountFacts DEF Room
<1>s. /\ \A h : IsHeap(h, Room) => IsHeap(h, Room')
      /\ \A b : IsBackup(b, Room) => IsBackup(b, Room')
  BY <1>r, MoreRoom
<1>h. IsHeap(heap', Room') /\ heap'.used = heap.used /\ heap'.globals = heap.globals
  <2>1. heap' = Put(heap, glob.u_i0, heap.mem[glob.u_i1])
    BY DEF Put
  <2> QED
    BY <1>s, <2>1, HeapPut DEF Inv, Types
<1>1. Types'
  BY <1>s, <1>h DEF Inv, Types, Pcs
<1>2. ~lost' => ~lost /\ FirstRun /\ Resumed /\ Backed /\ Open /\ Arrays /\ Copied
  BY DEF Inv
<1>3. ~lost' => FirstRun'
  BY <1>h, <1>2 DEF FirstRun, Early, Inv, Types
<1>4. ~lost' => Resumed'
  BY <1>h, <1>2 DEF Resumed, Resuming, FirstRun, Backed
<1>5. ~lost' => Backed'
  BY <1>h, <1>2 DEF Backed, Open, Copied, Arrays, ComputingPcs, Inv, Types
<1>6. ~lost' => Open'
  BY <1>h, <1>2 DEF Open, Backed, FirstRun, Resumed
<1>7. ~lost' => Arrays'
  BY <1>h, <1>2 DEF Arrays, ComputingPcs, FirstRun, Backed, Copied, Inv, Types
<1>8. ~lost' => Copied'
  BY <1>h, <1>2 DEF Copied, Inv, Types
<1>9. lost' => restart' \/ pc' = "down"
  BY DEF Inv
<1> QED
  BY <1>1, <1>3, <1>4, <1>5, <1>6, <1>7, <1>8, <1>9 DEF Inv

LEMMA Copy1Step ==
    ASSUME HeapFits, Inv, Copy1
    PROVE  Inv'
<1> USE ConstantFacts DEF Copy1, Goto, disk, process, ghosts, lakeVars
<1>r. Room \in Nat /\ Room' \in Nat /\ Room <= Room'
  BY CountFacts DEF Room
<1>s. /\ \A h : IsHeap(h, Room) => IsHeap(h, Room')
      /\ \A b : IsBackup(b, Room) => IsBackup(b, Room')
  BY <1>r, MoreRoom
<1>h. /\ IsHeap(heap', Room') /\ heap'.used = heap.used /\ heap'.globals = heap.globals
      /\ ~lost => heap'.mem[2] = heap.mem[u_cpu] /\ heap'.mem[u_cpu] = heap.mem[u_cpu]
  <2>1. heap' = Copy(heap, u_cpu, glob.u_i1)
    BY DEF Copy
  <2>2. ~lost => glob.u_i1 = 2 /\ u_cpu \in Blocks /\ u_cpu # 2
    BY DEF Inv, Arrays, ComputingPcs, Begun
  <2>3. IsHeap(heap, Room')
    BY <1>s, ShapeFacts
  <2> HIDE DEF Copy1
  <2>4. /\ IsHeap(heap', Room') /\ heap'.globals = heap.globals /\ heap'.used = heap.used
        /\ u_cpu \in Blocks /\ glob.u_i1 \in Blocks
             => heap'.mem[glob.u_i1] = heap.mem[u_cpu] /\ heap'.mem[u_cpu] = heap.mem[u_cpu]
    BY <2>1, <2>3, HeapCopy
  <2> QED
    BY <2>2, <2>4
<1>1. Types'
  BY <1>s, <1>h DEF Inv, Types, Pcs
<1>2. ~lost' => ~lost /\ FirstRun /\ Resumed /\ Backed /\ Open /\ Arrays /\ Copied
  BY DEF Inv
<1>3. ~lost' => FirstRun'
  BY <1>h, <1>2 DEF FirstRun, Early, Inv, Types
<1>4. ~lost' => Resumed'
  BY <1>h, <1>2 DEF Resumed, Resuming, FirstRun, Backed
<1>5. ~lost' => Backed'
  BY <1>h, <1>2 DEF Backed, Open, Copied, Arrays, ComputingPcs, Inv, Types
<1>6. ~lost' => Open'
  BY <1>h, <1>2 DEF Open, Backed, FirstRun, Resumed
<1>7. ~lost' => Arrays'
  BY <1>h, <1>2 DEF Arrays, ComputingPcs, FirstRun, Backed, Copied, Inv, Types
<1>8. ~lost' => Copied'
  BY <1>h, <1>2 DEF Copied, Inv, Types
<1>9. lost' => restart' \/ pc' = "down"
  BY DEF Inv
<1> QED
  BY <1>1, <1>3, <1>4, <1>5, <1>6, <1>7, <1>8, <1>9 DEF Inv

LEMMA TpdtStep ==
    ASSUME HeapFits, Inv, Tpdt
    PROVE  Inv'
<1> USE ConstantFacts DEF Tpdt, Goto, disk, process, ghosts, lakeVars
<1>r. Room \in Nat /\ Room' \in Nat /\ Room <= Room'
  <2>1. crashes' = crashes /\ crashes \in Nat
    BY DEF Inv, Types
  <2>2. pc \notin {"down", "mopen", "msave", "bopen", "malloc"}
        /\ pc' \notin {"down", "mopen", "msave", "bopen", "malloc"}
    OBVIOUS
  <2> QED
    BY <2>1, <2>2 DEF Room
<1>s. /\ \A h : IsHeap(h, Room) => IsHeap(h, Room')
      /\ \A b : IsBackup(b, Room) => IsBackup(b, Room')
  BY <1>r, MoreRoom
<1>g. /\ glob \in Globals /\ glob.t \in Nat /\ glob.u_i0 \in Pointer /\ glob.u_i1 \in Pointer /\ glob.pebs \in Pointer
      /\ glob' = glob \/ glob' = [t |-> glob.t + 1, u_i0 |-> glob.u_i0, u_i1 |-> glob.u_i1, pebs |-> glob.pebs]
      /\ glob' \in Globals
  <2>1. glob \in Globals
    BY DEF Inv, Types
  <2>2. glob.t \in Nat /\ glob.u_i0 \in Pointer /\ glob.u_i1 \in Pointer /\ glob.pebs \in Pointer
    BY <2>1 DEF Globals
  <2>3. glob' = glob \/ glob' = [t |-> glob.t + 1, u_i0 |-> glob.u_i0, u_i1 |-> glob.u_i1, pebs |-> glob.pebs]
    BY <2>1, GlobalsPut
  <2> QED
    BY <2>1, <2>2, <2>3 DEF Globals
<1>h. /\ pc = "tpdt" /\ UNCHANGED <<heap, u_cpu, restart>>
      /\ \/ glob' = glob /\ pc' = "print_f" /\ glob.t + 1 > EndTime
         \/ /\ pc' = "backup" /\ glob'.t = glob.t + 1 /\ glob'.t <= EndTime
            /\ glob'.u_i0 = glob.u_i0 /\ glob'.u_i1 = glob.u_i1 /\ glob'.pebs = glob.pebs
  <2>1. CASE glob.t + 1 > EndTime
    BY <2>1
  <2>2. CASE ~(glob.t + 1 > EndTime)
    <3>1. glob' = [t |-> glob.t + 1, u_i0 |-> glob.u_i0, u_i1 |-> glob.u_i1, pebs |-> glob.pebs]
      BY <2>2, <1>g, GlobalsPut
    <3> QED
      BY <2>2, <3>1, <1>g
  <2> QED
    BY <2>1, <2>2
<1>1. Types'
  BY <1>s, <1>g DEF Inv, Types, Pcs
<1>2. ~lost' => ~lost /\ FirstRun /\ Resumed /\ Backed /\ Open /\ Arrays /\ Copied
  BY DEF Inv
<1>3. ~lost' => FirstRun'
  BY <1>2 DEF FirstRun, Early, Inv, Types
<1>4. ~lost' => Resumed'
  BY <1>2 DEF Resumed, Resuming, FirstRun, Backed
<1>5. ~lost' => Backed'
  BY <1>2 DEF Backed, Open, Copied, Arrays, ComputingPcs, Inv, Types
<1>6. ~lost' => Open'
  BY <1>2 DEF Open, Backed, FirstRun, Resumed
<1>7. ~lost' => Arrays'
  BY <1>2, <1>g, <1>h DEF Arrays, ComputingPcs, Begun
<1>8. ~lost' => Copied'
  BY <1>2 DEF Copied, Inv, Types
<1>9. lost' => restart' \/ pc' = "down"
  BY DEF Inv
<1> QED
  BY <1>1, <1>3, <1>4, <1>5, <1>6, <1>7, <1>8, <1>9 DEF Inv

LEMMA PrintFinalStep ==
    ASSUME HeapFits, Inv, PrintFinal
    PROVE  Inv'
<1> USE ConstantFacts DEF PrintFinal, Goto, disk, process, ghosts, lakeVars
<1>r. Room \in Nat /\ Room' \in Nat /\ Room <= Room'
  BY CountFacts DEF Room
<1>s. /\ \A h : IsHeap(h, Room) => IsHeap(h, Room')
      /\ \A b : IsBackup(b, Room) => IsBackup(b, Room')
  BY <1>r, MoreRoom
<1>1. Types'
  BY <1>s DEF Inv, Types, Pcs
<1>2. ~lost' => ~lost /\ FirstRun /\ Resumed /\ Backed /\ Open /\ Arrays /\ Copied
  BY DEF Inv
<1>3. ~lost' => FirstRun'
  BY <1>2 DEF FirstRun, Early, Inv, Types
<1>4. ~lost' => Resumed'
  BY <1>2 DEF Resumed, Resuming, FirstRun, Backed
<1>5. ~lost' => Backed'
  BY <1>2 DEF Backed, Open, Copied, Arrays, ComputingPcs, Inv, Types
<1>6. ~lost' => Open'
  BY <1>2 DEF Open, Backed, FirstRun, Resumed
<1>7. ~lost' => Arrays'
  BY <1>2 DEF Arrays, ComputingPcs, FirstRun, Backed, Copied, Inv, Types
<1>8. ~lost' => Copied'
  BY <1>2 DEF Copied, Inv, Types
<1>9. lost' => restart' \/ pc' = "down"
  BY DEF Inv
<1> QED
  BY <1>1, <1>3, <1>4, <1>5, <1>6, <1>7, <1>8, <1>9 DEF Inv

LEMMA FreeStep ==
    ASSUME HeapFits, Inv, Free
    PROVE  Inv'
<1> USE ConstantFacts DEF Free, Goto, disk, process, ghosts, lakeVars
<1>r. Room \in Nat /\ Room' \in Nat /\ Room <= Room'
  BY CountFacts DEF Room
<1>s. /\ \A h : IsHeap(h, Room) => IsHeap(h, Room')
      /\ \A b : IsBackup(b, Room) => IsBackup(b, Room')
  BY <1>r, MoreRoom
<1>h. IsHeap(heap', Room') /\ heap'.globals = heap.globals /\ heap'.mem = heap.mem
  <2> DEFINE u == heap.used \ {glob.u_i0, glob.u_i1, glob.pebs, u_cpu}
  <2>1. heap' = [globals |-> heap.globals, used |-> u, mem |-> heap.mem]
    BY DEF Inv, Types, IsHeap
  <2>2. u \subseteq 1 .. Room' /\ IsHeap(heap, Room)
    BY <1>s DEF Inv, Types, IsHeap
  <2> HIDE DEF u
  <2> QED
    BY <2>1, <2>2, HeapUse
<1>1. Types'
  BY <1>s, <1>h DEF Inv, Types, Pcs
<1>2. ~lost' => ~lost /\ FirstRun /\ Resumed /\ Backed /\ Open /\ Arrays /\ Copied
  BY DEF Inv
<1>3. ~lost' => FirstRun'
  BY <1>h, <1>2 DEF FirstRun, Early, Inv, Types
<1>4. ~lost' => Resumed'
  BY <1>h, <1>2 DEF Resumed, Resuming, FirstRun, Backed
<1>5. ~lost' => Backed'
  BY <1>h, <1>2 DEF Backed, Open, Copied, Arrays, ComputingPcs, Inv, Types
<1>6. ~lost' => Open'
  BY <1>h, <1>2 DEF Open, Backed, FirstRun, Resumed
<1>7. ~lost' => Arrays'
  BY <1>h, <1>2 DEF Arrays, ComputingPcs, FirstRun, Backed, Copied, Inv, Types
<1>8. ~lost' => Copied'
  BY <1>h, <1>2 DEF Copied, Inv, Types
<1>9. lost' => restart' \/ pc' = "down"
  BY DEF Inv
<1> QED
  BY <1>1, <1>3, <1>4, <1>5, <1>6, <1>7, <1>8, <1>9 DEF Inv

LEMMA McloseStep ==
    ASSUME HeapFits, Inv, Mclose
    PROVE  Inv'
<1> USE ConstantFacts DEF Mclose, Close, Goto, disk, process, ghosts, lakeVars
<1>r. Room \in Nat /\ Room' \in Nat /\ Room <= Room'
  BY CountFacts DEF Room
<1>s. /\ \A h : IsHeap(h, Room) => IsHeap(h, Room')
      /\ \A b : IsBackup(b, Room) => IsBackup(b, Room')
  BY <1>r, MoreRoom
<1>h. IsHeap(heap', Room') /\ heap'.used = heap.used /\ heap'.mem = heap.mem
  <2>1. CASE mfd
    BY <1>s, <2>1, HeapSave DEF Inv, Types
  <2>2. CASE ~mfd
    BY <1>s, <2>2 DEF Inv, Types
  <2> QED
    BY <2>1, <2>2
<1>1. Types'
  BY <1>s, <1>h DEF Inv, Types, Pcs
<1>2. ~lost' => ~lost /\ FirstRun /\ Resumed /\ Backed /\ Open /\ Arrays /\ Copied
  BY DEF Inv
<1>3. ~lost' => FirstRun'
  BY <1>h, <1>2 DEF FirstRun, Early, Inv, Types
<1>4. ~lost' => Resumed'
  BY <1>h, <1>2 DEF Resumed, Resuming, FirstRun, Backed
<1>5. ~lost' => Backed'
  BY <1>h, <1>2 DEF Backed, Open, Copied, Arrays, ComputingPcs, Inv, Types
<1>6. ~lost' => Open'
  BY <1>h, <1>2 DEF Open, Backed, FirstRun, Resumed
<1>7. ~lost' => Arrays'
  BY <1>h, <1>2 DEF Arrays, ComputingPcs, FirstRun, Backed, Copied, Inv, Types
<1>8. ~lost' => Copied'
  BY <1>h, <1>2 DEF Copied, Inv, Types
<1>9. lost' => restart' \/ pc' = "down"
  BY DEF Inv
<1> QED
  BY <1>1, <1>3, <1>4, <1>5, <1>6, <1>7, <1>8, <1>9 DEF Inv

LEMMA RemoveStep ==
    ASSUME HeapFits, Inv, Remove
    PROVE  Inv'
<1> USE ConstantFacts DEF Remove, RemoveBackup, RemoveMap, Goto, disk, process, ghosts, lakeVars
<1>r. Room \in Nat /\ Room' \in Nat /\ Room <= Room'
  BY CountFacts DEF Room
<1>s. /\ \A h : IsHeap(h, Room) => IsHeap(h, Room')
      /\ \A b : IsBackup(b, Room) => IsBackup(b, Room')
  BY <1>r, MoreRoom
<1>1. Types'
  <2>1. IsHeap(heap', Room')
    BY <1>s, ShapeFacts
  <2>2. bakFile' = NoBackup \/ IsBackup(bakFile', Room')
    BY <1>s DEF Inv, Types
  <2>3. ~bfd /\ {restart, mfd, bfd, whole, lost} \subseteq BOOLEAN
        /\ next \in 0 .. NBlocks + 1 /\ crashes \in 0 .. MaxCrashes /\ glob \in Globals
    BY DEF Inv, Types
  <2>4. /\ UNCHANGED <<restart, mfd, bfd, lost, next, crashes, glob>>
        /\ whole' = whole \/ whole' = FALSE
        /\ pc' \in {"remove2", "end"}
    OBVIOUS
  <2>5. ~bfd' /\ {restart', mfd', bfd', whole', lost'} \subseteq BOOLEAN
        /\ next' \in 0 .. NBlocks + 1 /\ crashes' \in 0 .. MaxCrashes /\ glob' \in Globals
    <3> HIDE DEF Remove
    <3> QED
      BY <2>3, <2>4
  <2> HIDE DEF Remove
  <2> QED
    BY <2>1, <2>2, <2>4, <2>5 DEF Types, Pcs
<1>2. ~lost' => ~lost /\ FirstRun /\ Resumed /\ Backed /\ Open /\ Arrays /\ Copied
  BY DEF Inv
<1>3. ~lost' => FirstRun'
  BY <1>2 DEF FirstRun, Early, Inv, Types
<1>4. ~lost' => Resumed'
  BY <1>2 DEF Resumed, Resuming, FirstRun, Backed
<1>5. ~lost' => Backed'
  BY <1>2 DEF Backed, Open, Copied, Arrays, ComputingPcs, Inv, Types
<1>6. ~lost' => Open'
  BY <1>2 DEF Open, Backed, FirstRun, Resumed
<1>7. ~lost' => Arrays'
  BY <1>2 DEF Arrays, ComputingPcs, FirstRun, Backed, Copied, Inv, Types
<1>8. ~lost' => Copied'
  BY <1>2 DEF Copied, Inv, Types
<1>9. lost' => restart' \/ pc' = "down"
  BY DEF Inv
<1> QED
  BY <1>1, <1>3, <1>4, <1>5, <1>6, <1>7, <1>8, <1>9 DEF Inv

LEMMA CrashStep ==
    ASSUME HeapFits, Inv, Crash
    PROVE  Inv'
<1> USE ConstantFacts DEF Crash, Die, Goto, disk, process, ghosts, lakeVars
<1>r. Room \in Nat /\ Room' \in Nat /\ Room <= Room'
  <2>1. crashes \in Nat /\ crashes' = crashes + 1 /\ pc' = "down"
    BY DEF Inv, Types
  <2>2. Room' = 4 * (crashes + 1)
    BY <2>1 DEF Room
  <2>3. Room = 4 * crashes \/ Room = 4 * (crashes + 1)
    BY DEF Room
  <2> QED
    BY <2>1, <2>2, <2>3
<1>s. /\ \A h : IsHeap(h, Room) => IsHeap(h, Room')
      /\ \A b : IsBackup(b, Room) => IsBackup(b, Room')
  BY <1>r, MoreRoom
<1>h. IsHeap(heap', Room')
  BY <1>s DEF Inv, Types
<1>1. Types'
  <2>1. crashes' \in 0 .. MaxCrashes /\ NoGlobals \in Globals
    BY DEF Inv, Types
  <2>3. bakFile' = NoBackup \/ IsBackup(bakFile', Room')
    BY <1>s DEF Inv, Types
  <2>4. {restart', mfd', bfd', whole', lost'} \subseteq BOOLEAN
    BY DEF Inv, Types
  <2>5. pc' = "down" /\ ~bfd' /\ next' = 0 /\ glob' = NoGlobals
    OBVIOUS
  <2> QED
    BY <1>h, <2>1, <2>3, <2>4, <2>5 DEF Types, Pcs
<1>2. ~lost' => ~lost /\ FirstRun /\ Resumed /\ Backed /\ Open /\ Arrays /\ Copied
  BY DEF Inv
<1>3. ~lost' => FirstRun'
  BY <1>h, <1>2 DEF FirstRun, Early, Inv, Types
<1>4. ~lost' => Resumed'
  <2>1. pc' = "down" /\ lost' = (lost \/ ~whole) /\ whole' = whole
    OBVIOUS
  <2>2. ~lost' => whole'
    <3> HIDE DEF Crash, Die
    <3> QED
      BY <2>1, Zenon
  <2> QED
    BY <2>1, <2>2 DEF Resumed, Resuming
<1>5. ~lost' => Backed'
  BY <1>h, <1>2 DEF Backed, Open, Copied, Arrays, ComputingPcs, Inv, Types
<1>6. ~lost' => Open'
  BY <1>h, <1>2 DEF Open, Backed, FirstRun, Resumed
<1>7. ~lost' => Arrays'
  BY <1>h, <1>2 DEF Arrays, ComputingPcs, FirstRun, Backed, Copied, Inv, Types
<1>8. ~lost' => Copied'
  BY <1>h, <1>2 DEF Copied, Inv, Types
<1>9. lost' => restart' \/ pc' = "down"
  BY DEF Inv
<1> QED
  BY <1>1, <1>3, <1>4, <1>5, <1>6, <1>7, <1>8, <1>9 DEF Inv

LEMMA RestartStep ==
    ASSUME HeapFits, Inv, Restart
    PROVE  Inv'
<1> USE ConstantFacts DEF Restart, Goto, disk, process, ghosts, lakeVars
<1>r. Room \in Nat /\ Room' \in Nat /\ Room <= Room'
  BY CountFacts DEF Room
<1>s. /\ \A h : IsHeap(h, Room) => IsHeap(h, Room')
      /\ \A b : IsBackup(b, Room) => IsBackup(b, Room')
  BY <1>r, MoreRoom
<1>1. Types'
  BY <1>s DEF Inv, Types, Pcs
<1>2. ~lost' => ~lost /\ FirstRun /\ Resumed /\ Backed /\ Open /\ Arrays /\ Copied
  BY DEF Inv
<1>3. ~lost' => FirstRun'
  BY <1>2 DEF FirstRun, Early, Inv, Types
<1>4. ~lost' => Resumed'
  BY <1>2 DEF Resumed, Resuming, FirstRun, Backed
<1>5. ~lost' => Backed'
  BY <1>2 DEF Backed, Open, Copied, Arrays, ComputingPcs, Inv, Types
<1>6. ~lost' => Open'
  BY <1>2 DEF Open, Backed, FirstRun, Resumed
<1>7. ~lost' => Arrays'
  BY <1>2 DEF Arrays, ComputingPcs, FirstRun, Backed, Copied, Inv, Types
<1>8. ~lost' => Copied'
  BY <1>2 DEF Copied, Inv, Types
<1>9. lost' => restart' \/ pc' = "down"
  BY DEF Inv
<1> QED
  BY <1>1, <1>3, <1>4, <1>5, <1>6, <1>7, <1>8, <1>9 DEF Inv


\* The invariant holds at the start.
LEMMA InitHolds ==
    ASSUME HeapFits, Init
    PROVE  Inv
<1> USE ConstantFacts DEF Init, HeapInit
<1>1. IsHeap(heap, Room) /\ heap.used = {}
  BY EmptyIsHeap DEF EmptyHeap
<1>2. Types
  <2>1. {restart, mfd, bfd, whole, lost} \subseteq BOOLEAN /\ pc \in Pcs
    BY DEF Pcs
  <2>2. next \in 0 .. NBlocks + 1 /\ crashes \in 0 .. MaxCrashes /\ glob \in Globals
    OBVIOUS
  <2> QED
    BY <1>1, <2>1, <2>2 DEF Types
<1>3. FirstRun
  BY <1>1 DEF FirstRun, Early
<1>4. Resumed /\ Backed /\ Open /\ Arrays /\ Copied
  BY DEF Resumed, Resuming, Backed, Open, Arrays, ComputingPcs, Copied
<1> QED
  BY <1>2, <1>3, <1>4 DEF Inv

\* Every step preserves the invariant.
LEMMA StepHolds ==
    ASSUME HeapFits, Inv, [Next]_vars
    PROVE  Inv'
<1>1. CASE Next
  <2>1. CASE Mopen
    BY <2>1, MopenCreateStep, MopenSaveStep, MopenExistingStep, MopenTornStep DEF Mopen
  <2>2. CASE Backup
    BY <2>2, BackupStartStep, BackupFailsStep, BackupWriteStep DEF Backup
  <2>3. CASE Restore
    <3>1. CASE \E at \in {"restore", "reading"} :
                  Goto(at, "evolve") /\ RestoreFails(at = "reading") /\ UNCHANGED lakeVars
      BY <3>1, RestoreFailsStep
    <3>2. CASE Goto("restore", "reading") /\ RestoreStart /\ UNCHANGED lakeVars
      BY <3>2, RestoreStartStep
    <3>3. CASE Goto("reading", IF next = NBlocks THEN "globals" ELSE "reading")
               /\ RestoreRead /\ UNCHANGED lakeVars
      BY <3>3, RestoreReadStep
    <3>4. CASE Goto("globals", "evolve") /\ RestoreGlobals /\ UNCHANGED lakeVars
      BY <3>4, RestoreGlobalsStep
    <3> QED
      BY <2>3, <3>1, <3>2, <3>3, <3>4 DEF Restore
  <2> QED
    BY <1>1, <2>1, <2>2, <2>3, BopenStep, MallocStep, InitLakeStep, PrintInitialStep,
       MflushStep, EvolveStep, Copy0Step, Copy1Step, TpdtStep, PrintFinalStep, FreeStep,
       McloseStep, RemoveStep, CrashStep, RestartStep DEF Next, Run
<1>2. CASE UNCHANGED vars
  BY <1>2 DEF vars, disk, process, ghosts, lakeVars, Inv, Types, FirstRun, Resumed, Backed, Open,
     Arrays, Copied, Room, IsHeap, IsBackup
<1> QED
  BY <1>1, <1>2

\* The invariant of the checkpointed lake: what the heap, the backup and the PERM
\* variables hold at every point of the program and after every crash.
THEOREM PermInductive == ASSUME HeapFits PROVE Spec => []Inv
<1>1. Init => Inv
  BY InitHolds
<1>2. Inv /\ [Next]_vars => Inv'
  BY StepHolds
<1> QED
  BY <1>1, <1>2, PTL DEF Spec

\* BlocksApart: the arrays of the heap and the scratch array never overlap, and
\* malloc has them in use while the program computes.
THEOREM ArraysApart == ASSUME HeapFits PROVE Spec => []BlocksApart
<1>1. Inv => BlocksApart
  <2> SUFFICES ASSUME Inv, Computing, ~lost PROVE
         /\ {glob.u_i0, glob.u_i1, glob.pebs} \subseteq heap.used \ {u_cpu}
         /\ Cardinality({glob.u_i0, glob.u_i1, glob.pebs}) = 3
         /\ restart \/ u_cpu \in heap.used
    BY DEF BlocksApart
  <2>1. /\ glob.u_i0 = 1 /\ glob.u_i1 = 2 /\ glob.pebs = 3 /\ u_cpu \notin {1, 2, 3}
        /\ {1, 2, 3} \subseteq heap.used /\ (restart \/ u_cpu \in heap.used)
    BY DEF Inv, Arrays, Begun, Computing, ComputingPcs
  <2>2. Cardinality({1, 2, 3}) = 3
    <3>1. IsFiniteSet({1}) /\ Cardinality({1}) = 1
      BY FS_Singleton
    <3>2. IsFiniteSet({1} \union {2}) /\ Cardinality({1} \union {2}) = 1 + 1
      <4>1. 2 \notin {1}
        OBVIOUS
      <4> QED
        BY <3>1, <4>1, FS_AddElement, Zenon
    <3>3. Cardinality(({1} \union {2}) \union {3}) = (1 + 1) + 1
      <4>1. 3 \notin {1} \union {2}
        OBVIOUS
      <4> QED
        BY <3>2, <4>1, FS_AddElement, Zenon
    <3>4. {1, 2, 3} = ({1} \union {2}) \union {3}
      OBVIOUS
    <3>5. (1 + 1) + 1 = 3
      OBVIOUS
    <3> QED
      BY <3>3, <3>4, <3>5, Zenon
  <2>3. {glob.u_i0, glob.u_i1, glob.pebs} = {1, 2, 3}
    BY <2>1
  <2>4. Cardinality({glob.u_i0, glob.u_i1, glob.pebs}) = 3
    BY <2>2, <2>3, Zenon
  <2> QED
    BY <2>1, <2>3, <2>4
<1>2. Spec => []Inv
  BY PermInductive
<1> QED
  BY <1>1, <1>2, PTL

----------------------------------------------------------------------------
(* The computation, and what is saved of it, at each point of the program.  *)

StateFacts ==
    /\ lost => CurrentState = LostState
    /\ lost \/ ~whole => SavedState = LostState
    /\ ~lost /\ whole =>
         SavedState = [u0 |-> bakFile[bakFile[Head].globals.u_i0].content,
                       u1 |-> bakFile[bakFile[Head].globals.u_i1].content,
                       p |-> bakFile[bakFile[Head].globals.pebs].content,
                       t |-> bakFile[Head].globals.t]
    /\ ~lost =>
         /\ pc \in Early /\ ~restart => CurrentState = IdleState
         /\ pc = "down" \/ (pc \in Resuming /\ restart) => CurrentState = SavedState
         /\ pc \in {"print_i", "mflush", "backup", "writing", "evolve"}
              => CurrentState = Levels(glob.u_i0, glob.u_i1, glob.t)
         /\ pc = "copy0" => CurrentState = Levels(glob.u_i1, u_cpu, glob.t + 1)
         /\ pc = "copy1" => CurrentState = Levels(glob.u_i0, u_cpu, glob.t + 1)
         /\ pc \in {"tpdt", "print_f", "free", "mclose", "remove", "remove2", "end"}
              => CurrentState = Levels(glob.u_i0, glob.u_i1, glob.t + 1)

\* It holds before and after every step.
LEMMA StateIs == StateFacts /\ StateFacts'
<1>1. StateFacts
  BY DEF StateFacts, CurrentState, SavedState, Content, Early, Resuming
<1>2. StateFacts'
  BY DEF StateFacts, CurrentState, SavedState, Content, Early, Resuming
<1> QED
  BY <1>1, <1>2

\* The step of the uninterrupted run that a step of the program is.
RunStep == [Uninterrupted!Next]_(Uninterrupted!runVars)

\* Nothing changes that the mapping looks at.
LEMMA Stutters ==
    ASSUME CurrentState' = CurrentState, SavedState' = SavedState, lake_f' = lake_f
    PROVE  RunStep
  BY DEF RunStep, Uninterrupted!runVars

\* The backup is the same.
LEMMA SavedStays ==
    ASSUME UNCHANGED <<whole, lost, bakFile>>
    PROVE  SavedState' = SavedState
  BY DEF SavedState, Content

\* The levels are the same.
LEMMA LevelsStay ==
    ASSUME UNCHANGED <<heap, glob, u_cpu>>
    PROVE  /\ Levels(glob.u_i0, glob.u_i1, glob.t)' = Levels(glob.u_i0, glob.u_i1, glob.t)
           /\ Levels(glob.u_i0, glob.u_i1, glob.t + 1)' = Levels(glob.u_i0, glob.u_i1, glob.t + 1)
  BY DEF Levels

\* A state that has begun is none of the two others.
LEMMA HasBegun ==
    ASSUME NEW x, NEW y, NEW z, NEW k \in Nat
    PROVE  [u0 |-> x, u1 |-> y, p |-> z, t |-> k] \notin {IdleState, LostState}
<1>1. [u0 |-> x, u1 |-> y, p |-> z, t |-> k].t = k
  OBVIOUS
<1>2. IdleState.t = -1 /\ LostState.t = -2
  BY DEF IdleState, LostState, Apart
<1>3. k # -1 /\ k # -2
  OBVIOUS
<1> QED
  BY <1>1, <1>2, <1>3

\* A lost run stays lost.
LEMMA LostRun ==
    ASSUME lost, Next
    PROVE  RunStep
<1>1. lost'
  BY DEF Next, Run, Mopen, MopenCreate, MopenSave, MopenExisting, MopenTorn, Bopen, BopenCreate, BopenExisting,
     Malloc, InitLake, PrintInitial, Mflush, Flush, Backup, BackupStart, BackupFails, BackupWrite,
     Restore, RestoreStart, RestoreRead, RestoreGlobals, RestoreFails, Evolve, Copy0, Copy1, Tpdt,
     PrintFinal, Free, Mclose, Close, Remove, RemoveBackup, RemoveMap, Crash, Die, Restart,
     ghosts, process, disk
<1>2. /\ CurrentState = LostState /\ CurrentState' = LostState
      /\ SavedState = LostState /\ SavedState' = LostState
  BY <1>1, StateIs DEF StateFacts
<1> QED
  BY <1>2 DEF RunStep, Uninterrupted!Next, Uninterrupted!PrintLost

\* A process starts: the state is that of the backup, or none yet.
LEMMA StartsMap ==
    ASSUME HeapFits, Inv, ~lost, Mopen \/ Bopen \/ Malloc
    PROVE  RunStep
<1>1. ~lost' /\ whole' = whole /\ lake_f' = lake_f /\ restart' = restart
  BY DEF Mopen, MopenCreate, MopenSave, MopenExisting, MopenTorn, Bopen, BopenCreate, BopenExisting, Malloc,
     disk, process, ghosts, lakeVars
<1>2. CASE ~restart
  <2>1. ~whole /\ pc \in Early /\ pc' \in Early
    BY <1>2 DEF Inv, FirstRun, Early, Mopen, Bopen, Malloc, Goto
  <2> QED
    BY <1>1, <1>2, <2>1, StateIs, Stutters DEF StateFacts
<1>3. CASE restart
  <2>1. pc \in Resuming /\ pc' \in Resuming \union {"down"} /\ bakFile' = bakFile
    BY <1>3 DEF Resuming, Mopen, MopenCreate, MopenSave, MopenExisting, MopenTorn, Bopen, BopenExisting, Malloc, Goto,
       Inv, Resumed, disk
  <2> QED
    BY <1>1, <1>3, <2>1, SavedStays, StateIs, Stutters DEF StateFacts
<1> QED
  BY <1>2, <1>3

\* The computation begins.
LEMMA InitLakeMaps ==
    ASSUME HeapFits, Inv, ~lost, InitLake
    PROVE  RunStep
<1>1. /\ pc = "init" /\ pc' = "print_i" /\ UNCHANGED <<whole, lost, bakFile, lake_f>>
      /\ glob.u_i0 = 1 /\ glob.u_i1 = 2 /\ glob.pebs = 3 /\ ~restart
  BY DEF InitLake, Goto, Inv, FirstRun, Resumed, ghosts, disk, lakeVars
<1>2. glob'.t = 0 /\ glob'.u_i0 = 1 /\ glob'.u_i1 = 2 /\ glob'.pebs = 3
  <2>1. glob' = [t |-> 0, u_i0 |-> glob.u_i0, u_i1 |-> glob.u_i1, pebs |-> glob.pebs]
    BY ShapeFacts, GlobalsPut DEF InitLake
  <2> QED
    BY <1>1, <2>1
<1>3. heap'.mem[1] = StartLake /\ heap'.mem[2] = StartLake /\ heap'.mem[3] = Pebs
  <2>1. heap' = Put(Put(Put(heap, 3, Pebs), 1, StartLake), 2, StartLake)
    BY <1>1 DEF InitLake, Put
  <2>2. 1 \in Blocks /\ 2 \in Blocks /\ 3 \in Blocks
    BY ConstantFacts
  <2>3. /\ IsHeap(heap', Room)
        /\ {3, 1, 2} \subseteq Blocks /\ 3 # 1 /\ 3 # 2 /\ 1 # 2
             => heap'.mem[3] = Pebs /\ heap'.mem[1] = StartLake /\ heap'.mem[2] = StartLake
    BY <2>1, ShapeFacts, HeapPut3
  <2> QED
    BY <2>2, <2>3
<1>4. CurrentState = IdleState
  BY <1>1, StateIs DEF StateFacts, Early
<1>5. CurrentState' = [u0 |-> StartLake, u1 |-> StartLake, p |-> Pebs, t |-> 0]
  BY <1>1, <1>2, <1>3, StateIs DEF StateFacts, Levels
<1> QED
  BY <1>1, <1>4, <1>5, SavedStays DEF RunStep, Uninterrupted!Next, Uninterrupted!Begin

\* Steps that leave the levels as they are.
Still ==
    \/ PrintInitial \/ Mflush \/ Free \/ Mclose
    \/ Goto("backup", "writing") /\ BackupStart /\ UNCHANGED lakeVars
    \/ Goto("remove2", "end") /\ RemoveMap /\ UNCHANGED lakeVars

\* They are no steps of the computation.
LEMMA StillMaps ==
    ASSUME HeapFits, Inv, ~lost, Still
    PROVE  RunStep
<1>1. /\ heap'.mem = heap.mem /\ UNCHANGED <<glob, u_cpu, whole, lost, bakFile, lake_f>>
      /\ \/ {pc, pc'} \subseteq {"print_i", "mflush", "backup", "writing", "evolve"}
         \/ {pc, pc'} \subseteq {"tpdt", "print_f", "free", "mclose", "remove", "remove2", "end"}
  <2>1. heap = [globals |-> heap.globals, used |-> heap.used, mem |-> heap.mem]
    BY ShapeFacts DEF IsHeap
  <2> QED
    BY <2>1 DEF Still, PrintInitial, Mflush, Flush, BackupStart, Free, Mclose, Close, RemoveMap, Goto,
       disk, process, ghosts, lakeVars
<1>2. Levels(glob.u_i0, glob.u_i1, glob.t)' = Levels(glob.u_i0, glob.u_i1, glob.t)
      /\ Levels(glob.u_i0, glob.u_i1, glob.t + 1)' = Levels(glob.u_i0, glob.u_i1, glob.t + 1)
  BY <1>1 DEF Levels
<1>3. CurrentState' = CurrentState
  BY <1>1, <1>2, StateIs DEF StateFacts
<1> QED
  BY <1>1, <1>3, SavedStays, Stutters

\* A piece is written: there is no backup until the last one, and then it is this state.
LEMMA BackupWriteMaps ==
    ASSUME HeapFits, Inv, Inv', ~lost,
           Goto("writing", IF next = NBlocks THEN "evolve" ELSE "writing") /\ BackupWrite /\ UNCHANGED lakeVars
    PROVE  RunStep
<1>1. /\ UNCHANGED <<heap, glob, u_cpu, lost, lake_f>> /\ whole' = (next = NBlocks)
      /\ pc = "writing" /\ pc' \in {"writing", "evolve"}
  BY DEF BackupWrite, Goto, lakeVars
<1>2. CurrentState' = CurrentState /\ CurrentState = Levels(glob.u_i0, glob.u_i1, glob.t)
  BY <1>1, LevelsStay, StateIs DEF StateFacts
<1>3. CASE next # NBlocks
  <2>1. SavedState' = LostState
    BY <1>1, <1>3, StateIs DEF StateFacts
  <2> QED
    BY <1>1, <1>2, <2>1 DEF RunStep, Uninterrupted!Next, Uninterrupted!Discard
<1>4. CASE next = NBlocks
  <2>1. Begun(glob) /\ glob.t \in Nat /\ heap.globals = glob
    BY <1>1, ShapeFacts DEF Inv, Arrays, ComputingPcs, Copied, Globals
  <2>2. \A k \in Pieces : k < next => bakFile[k] = PieceOf(heap, k)
    BY <1>1 DEF Inv, Copied
  <2>3. next \in Pieces /\ DOMAIN bakFile = Pieces
    BY <1>1, <1>4, ConstantFacts DEF Inv, Types, IsBackup
  <2>4. \A k \in Pieces : bakFile'[k] = PieceOf(heap, k)
    BY <1>4, <2>2, <2>3, ConstantFacts DEF BackupWrite, Pieces
  <2>5. bakFile'[Head].globals = glob
    <3>1. bakFile'[Head] = PieceOf(heap, Head)
      BY <2>4, ConstantFacts
    <3>2. PieceOf(heap, Head) = [globals |-> heap.globals, used |-> heap.used]
      BY DEF PieceOf
    <3> QED
      BY <2>1, <3>1, <3>2
  <2>6. \A k \in {1, 2, 3} : bakFile'[k].content = heap.mem[k]
    <3>1. \A k \in Blocks : bakFile'[k] = [content |-> heap.mem[k]]
      BY <2>4, ConstantFacts DEF PieceOf
    <3>2. \A x : [content |-> x].content = x
      OBVIOUS
    <3> QED
      BY <3>1, <3>2, ConstantFacts
  <2>7. SavedState' = [u0 |-> heap.mem[1], u1 |-> heap.mem[2], p |-> heap.mem[3], t |-> glob.t]
    BY <1>1, <1>4, <2>1, <2>5, <2>6, StateIs DEF StateFacts, Begun
  <2>8. CurrentState = [u0 |-> heap.mem[1], u1 |-> heap.mem[2], p |-> heap.mem[3], t |-> glob.t]
    BY <1>2, <2>1 DEF Levels, Begun
  <2>9. CurrentState # IdleState
    BY <2>1, <2>8, HasBegun
  <2> QED
    BY <1>1, <1>2, <2>7, <2>8, <2>9 DEF RunStep, Uninterrupted!Next, Uninterrupted!Save
<1> QED
  BY <1>3, <1>4

\* What is restored is what was saved.
LEMMA RestoreMaps ==
    ASSUME HeapFits, Inv, Inv', ~lost, Restore
    PROVE  RunStep
<1>1. /\ UNCHANGED <<whole, lost, bakFile, lake_f, restart>> /\ pc \in {"restore", "reading", "globals"}
      /\ restart /\ whole
  BY DEF Restore, RestoreStart, RestoreRead, RestoreGlobals, RestoreFails, Goto, lakeVars, ghosts, disk,
     process, Inv, FirstRun, Resumed, Resuming
<1>2. CurrentState = SavedState /\ SavedState' = SavedState
  BY <1>1, SavedStays, StateIs DEF StateFacts, Resuming
<1>3. CASE pc' \in {"reading", "globals"}
  BY <1>1, <1>2, <1>3, StateIs, Stutters DEF StateFacts, Resuming
<1>4. CASE pc = "globals" /\ RestoreGlobals /\ pc' = "evolve"
  <2>1. /\ heap.globals = bakFile[Head].globals /\ glob' = heap.globals /\ heap' = heap
        /\ \A k \in Blocks : heap.mem[k] = bakFile[k].content
        /\ Begun(bakFile[Head].globals)
    BY <1>1, <1>4, ConstantFacts DEF Inv, Copied, Backed, RestoreGlobals, Blocks
  <2>2. SavedState = [u0 |-> heap.mem[1], u1 |-> heap.mem[2], p |-> heap.mem[3], t |-> glob'.t]
    BY <1>1, <2>1, StateIs, ConstantFacts DEF StateFacts, Begun
  <2>3. CurrentState' = [u0 |-> heap.mem[1], u1 |-> heap.mem[2], p |-> heap.mem[3], t |-> glob'.t]
    BY <1>1, <1>4, <2>1, StateIs DEF StateFacts, Begun, Levels
  <2> QED
    BY <1>1, <1>2, <2>2, <2>3, Stutters
<1>5. ASSUME NEW at \in {"restore", "reading"}, Goto(at, "evolve"), RestoreFails(at = "reading")
      PROVE  FALSE
  <2>1. pc \in {"restore", "reading"} /\ (IF pc = "reading" THEN bakFile[next] = Missing ELSE ~CheckHeader)
    BY <1>5 DEF Goto, RestoreFails
  <2>2. bfd /\ \A k \in Pieces : bakFile[k] # Missing
    BY <1>1, <2>1 DEF Inv, Open, Backed
  <2>3. pc = "reading" => next \in Pieces
    BY ConstantFacts DEF Inv, Types
  <2> QED
    BY <2>1, <2>2, <2>3, ConstantFacts DEF CheckHeader
<1> QED
  BY <1>3, <1>4, <1>5 DEF Restore, Goto

\* evolve is one time step of the computation.
LEMMA EvolveMaps ==
    ASSUME HeapFits, Inv, ~lost, Evolve
    PROVE  RunStep
<1> DEFINE v == evolve(heap.mem[1], heap.mem[2], heap.mem[3], glob.t)
<1>1. /\ Begun(glob) /\ u_cpu \in Blocks \ {1, 2, 3} /\ glob.t \in Nat /\ EndTime \in Nat
      /\ pc = "evolve" /\ pc' = "copy0" /\ UNCHANGED <<glob, u_cpu, whole, lost, bakFile, lake_f>>
  BY ShapeFacts, ConstantFacts DEF Evolve, Goto, Inv, Arrays, ComputingPcs, Globals, disk, process, ghosts, lakeVars
<1>2. heap' = Put(heap, u_cpu, v)
  BY <1>1 DEF Evolve, Put, Begun
<1> HIDE DEF v
<1>3. /\ heap'.mem[u_cpu] = v
      /\ heap'.mem[1] = heap.mem[1] /\ heap'.mem[2] = heap.mem[2] /\ heap'.mem[3] = heap.mem[3]
  BY <1>1, <1>2, ShapeFacts, HeapPut, ConstantFacts
<1>4. CurrentState = [u0 |-> heap.mem[1], u1 |-> heap.mem[2], p |-> heap.mem[3], t |-> glob.t]
  BY <1>1, StateIs DEF StateFacts, Levels, Begun
<1>5. CurrentState' = [u0 |-> heap.mem[2], u1 |-> v, p |-> heap.mem[3], t |-> glob.t + 1]
  BY <1>1, <1>3, StateIs DEF StateFacts, Levels, Begun
<1>6. CurrentState \notin {IdleState, LostState}
  BY <1>1, <1>4, HasBegun
<1>7. ~(CurrentState.t > EndTime)
  BY <1>1, <1>4 DEF Begun
<1>8. CurrentState' = [u0 |-> CurrentState.u1,
                       u1 |-> evolve(CurrentState.u0, CurrentState.u1, CurrentState.p, CurrentState.t),
                       p |-> CurrentState.p, t |-> CurrentState.t + 1]
  BY <1>4, <1>5 DEF v
<1> QED
  BY <1>1, <1>6, <1>7, <1>8, SavedStays DEF RunStep, Uninterrupted!Next, Uninterrupted!Advance

\* The levels are copied on.
LEMMA CopyMaps ==
    ASSUME HeapFits, Inv, ~lost, Copy0 \/ Copy1
    PROVE  RunStep
<1>1. /\ Begun(glob) /\ u_cpu \in Blocks \ {1, 2, 3}
      /\ UNCHANGED <<glob, u_cpu, whole, lost, bakFile, lake_f>>
  BY DEF Copy0, Copy1, Goto, Inv, Arrays, ComputingPcs, disk, process, ghosts, lakeVars
<1>2. CASE Copy0
  <2>1. heap' = Copy(heap, 2, 1)
    BY <1>1, <1>2 DEF Copy0, Copy, Begun
  <2>2. heap'.mem[1] = heap.mem[2] /\ heap'.mem[3] = heap.mem[3] /\ heap'.mem[u_cpu] = heap.mem[u_cpu]
    BY <1>1, <2>1, ShapeFacts, HeapCopy, ConstantFacts
  <2>3. pc = "copy0" /\ pc' = "copy1"
    BY <1>2 DEF Copy0, Goto
  <2>4. CurrentState' = CurrentState
    BY <1>1, <2>2, <2>3, StateIs DEF StateFacts, Levels, Begun
  <2> QED
    BY <1>1, <2>4, SavedStays, Stutters
<1>3. CASE Copy1
  <2>1. heap' = Copy(heap, u_cpu, 2)
    BY <1>1, <1>3 DEF Copy1, Copy, Begun
  <2>2. heap'.mem[2] = heap.mem[u_cpu] /\ heap'.mem[3] = heap.mem[3] /\ heap'.mem[1] = heap.mem[1]
    BY <1>1, <2>1, ShapeFacts, HeapCopy, ConstantFacts
  <2>3. pc = "copy1" /\ pc' = "tpdt"
    BY <1>3 DEF Copy1, Goto
  <2>4. CurrentState' = CurrentState
    BY <1>1, <2>2, <2>3, StateIs DEF StateFacts, Levels, Begun
  <2> QED
    BY <1>1, <2>4, SavedStays, Stutters
<1> QED
  BY <1>2, <1>3

\* t is advanced, which the state has done with evolve.
LEMMA TpdtMaps ==
    ASSUME HeapFits, Inv, ~lost, Tpdt
    PROVE  RunStep
<1>1. pc = "tpdt" /\ UNCHANGED <<heap, u_cpu, whole, lost, bakFile, lake_f>> /\ Begun(glob)
  BY DEF Tpdt, Goto, Inv, Arrays, ComputingPcs, disk, ghosts, lakeVars
<1>2. CASE glob.t + 1 > EndTime
  <2>1. glob' = glob /\ pc' = "print_f"
    BY <1>2 DEF Tpdt, Goto
  <2> QED
    BY <1>1, <2>1, LevelsStay, StateIs, SavedStays, Stutters DEF StateFacts
<1>3. CASE ~(glob.t + 1 > EndTime)
  <2>1. glob' = [t |-> glob.t + 1, u_i0 |-> glob.u_i0, u_i1 |-> glob.u_i1, pebs |-> glob.pebs]
        /\ pc' = "backup"
    BY <1>3, ShapeFacts, GlobalsPut DEF Tpdt, Goto
  <2>2. CurrentState = Levels(glob.u_i0, glob.u_i1, glob.t + 1)
        /\ CurrentState' = Levels(glob.u_i0, glob.u_i1, glob.t)'
    BY <1>1, <2>1, StateIs DEF StateFacts
  <2>3. CurrentState' = CurrentState
    BY <1>1, <2>1, <2>2 DEF Levels
  <2> QED
    BY <1>1, <2>3, SavedStays, Stutters
<1> QED
  BY <1>2, <1>3

\* The result is printed when the time is over.
LEMMA PrintFinalMaps ==
    ASSUME HeapFits, Inv, ~lost, PrintFinal
    PROVE  RunStep
<1>1. /\ pc = "print_f" /\ pc' = "free" /\ UNCHANGED <<heap, glob, u_cpu, whole, lost, bakFile>>
      /\ lake_f' = heap.mem[u_cpu] /\ heap.mem[2] = heap.mem[u_cpu] /\ glob.t + 1 > EndTime
      /\ Begun(glob) /\ glob.t \in Nat
  BY ShapeFacts DEF PrintFinal, Goto, Inv, Arrays, ComputingPcs, Globals, disk, process, ghosts
<1>2. CurrentState' = CurrentState
  BY <1>1, LevelsStay, StateIs DEF StateFacts
<1>3. CurrentState = [u0 |-> heap.mem[1], u1 |-> heap.mem[2], p |-> heap.mem[3], t |-> glob.t + 1]
  BY <1>1, StateIs DEF StateFacts, Levels, Begun
<1>4. glob.t + 1 \in Nat
  BY <1>1
<1>5. CurrentState \notin {IdleState, LostState}
  BY <1>3, <1>4, HasBegun
<1>6. CurrentState.t > EndTime /\ lake_f' = CurrentState.u1
  BY <1>1, <1>3
<1> QED
  BY <1>1, <1>2, <1>5, <1>6, SavedStays DEF RunStep, Uninterrupted!Next, Uninterrupted!PrintResult

\* The backup is removed.
LEMMA RemoveBackupMaps ==
    ASSUME HeapFits, Inv, ~lost, Goto("remove", "remove2") /\ RemoveBackup /\ UNCHANGED lakeVars
    PROVE  RunStep
<1>1. /\ pc = "remove" /\ pc' = "remove2" /\ UNCHANGED <<heap, glob, u_cpu, lost, lake_f>>
      /\ ~whole'
  BY DEF RemoveBackup, Goto, process, lakeVars
<1>2. CurrentState' = CurrentState /\ SavedState' = LostState
  BY <1>1, LevelsStay, StateIs DEF StateFacts
<1> QED
  BY <1>1, <1>2 DEF RunStep, Uninterrupted!Next, Uninterrupted!Discard

\* A crash goes back to the backup, from which the next process starts.
LEMMA CrashMaps ==
    ASSUME HeapFits, Inv, ~lost, Crash \/ Restart
    PROVE  RunStep
<1>1. CASE Crash
  <2>1. pc' = "down" /\ lost' = (lost \/ ~whole) /\ UNCHANGED <<whole, bakFile, lake_f>>
    BY <1>1 DEF Crash, Die, disk
  <2>2. SavedState' = SavedState
    <3>1. CASE whole
      <4>1. ~lost' /\ lost' = lost
        BY <2>1, <3>1 DEF Inv, Types
      <4> QED
        BY <2>1, <4>1, SavedStays
    <3>2. CASE ~whole
      BY <2>1, <3>2, StateIs DEF StateFacts
    <3> QED
      BY <3>1, <3>2
  <2>3. CurrentState' = SavedState'
    BY <2>1, StateIs DEF StateFacts
  <2> QED
    BY <2>1, <2>2, <2>3 DEF RunStep, Uninterrupted!Next, Uninterrupted!Fail
<1>2. CASE Restart
  <2>1. pc = "down" /\ pc' = "mopen" /\ restart' /\ UNCHANGED <<whole, lost, bakFile, lake_f>>
    BY <1>2 DEF Restart, Goto, disk, ghosts
  <2> QED
    BY <2>1, SavedStays, StateIs, Stutters DEF StateFacts, Resuming
<1> QED
  BY <1>1, <1>2

----------------------------------------------------------------------------
(* The refinement.  *)

\* The program starts as the uninterrupted run does.
LEMMA InitMaps ==
    ASSUME Init
    PROVE  Uninterrupted!Init
<1>1. pc = "mopen" /\ ~restart /\ ~lost /\ ~whole /\ lake_f = Null
  BY DEF Init, HeapInit
<1> QED
  BY <1>1, StateIs DEF StateFacts, Early, Uninterrupted!Init

\* Every step of the program is one of the uninterrupted run, or none.
LEMMA StepMaps ==
    ASSUME HeapFits, Inv, Inv', [Next]_vars
    PROVE  RunStep
<1>1. CASE UNCHANGED vars
  <2>1. CurrentState' = CurrentState /\ SavedState' = SavedState /\ lake_f' = lake_f
    BY <1>1 DEF vars, disk, process, ghosts, lakeVars, CurrentState, SavedState, Content, Levels
  <2> QED
    BY <2>1, Stutters
<1>2. CASE Next /\ lost
  BY <1>2, LostRun
<1>3. CASE Next /\ ~lost
  <2>1. CASE Backup
    <3>1. bfd \/ pc # "backup"
      BY <1>3 DEF Inv, Open
    <3>2. CASE Goto("backup", "writing") /\ BackupStart /\ UNCHANGED lakeVars
      <4>1. Still
        BY <3>2 DEF Still
      <4> QED
        BY <1>3, <4>1, StillMaps
    <3>3. CASE Goto("writing", IF next = NBlocks THEN "evolve" ELSE "writing")
               /\ BackupWrite /\ UNCHANGED lakeVars
      BY <1>3, <3>3, BackupWriteMaps
    <3> QED
      BY <2>1, <3>1, <3>2, <3>3 DEF Backup, BackupFails, Goto
  <2>2. CASE Remove
    <3>1. CASE Goto("remove", "remove2") /\ RemoveBackup /\ UNCHANGED lakeVars
      BY <1>3, <3>1, RemoveBackupMaps
    <3>2. CASE Goto("remove2", "end") /\ RemoveMap /\ UNCHANGED lakeVars
      <4>1. Still
        BY <3>2 DEF Still
      <4> QED
        BY <1>3, <4>1, StillMaps
    <3> QED
      BY <2>2, <3>1, <3>2 DEF Remove
  <2>3. CASE Mopen \/ Bopen \/ Malloc
    BY <1>3, <2>3, StartsMap
  <2>4. CASE PrintInitial \/ Mflush \/ Free \/ Mclose
    <3>1. Still
      BY <2>4 DEF Still
    <3> QED
      BY <1>3, <3>1, StillMaps
  <2>5. CASE Copy0 \/ Copy1
    BY <1>3, <2>5, CopyMaps
  <2>6. CASE Crash \/ Restart
    BY <1>3, <2>6, CrashMaps
  <2>7. CASE InitLake \/ Restore \/ Evolve \/ Tpdt \/ PrintFinal
    BY <1>3, <2>7, InitLakeMaps, RestoreMaps, EvolveMaps, TpdtMaps, PrintFinalMaps
  <2> QED
    BY <1>3, <2>1, <2>2, <2>3, <2>4, <2>5, <2>6, <2>7 DEF Next, Run
<1> QED
  BY <1>1, <1>2, <1>3

\* SameRun: a run that is killed and restarted, any number of times and at any point,
\* goes on from the state of the last complete backup and prints what the
\* uninterrupted run prints.
THEOREM RestartedRunIsSame == ASSUME HeapFits PROVE Spec => SameRun
<1>1. Init => Uninterrupted!Init
  BY InitMaps
<1>2. Inv /\ Inv' /\ [Next]_vars => [Uninterrupted!Next]_(Uninterrupted!runVars)
  BY StepMaps DEF RunStep
<1>3. Spec => []Inv
  BY PermInductive
<1> QED
  BY <1>1, <1>2, <1>3, PTL DEF Spec, SameRun, Uninterrupted!Spec
=============================================================================
