------------------------- MODULE PermThreadsProofs -------------------------
(***************************************************************************)
(* Theorems about PermThreads, for every number of threads, arenas, calls  *)
(* and runs: an arena's nthreads counts its threads, and a program that    *)
(* opened the heap works on persistent memory only, unless mopen raced.    *)
(*                                                                         *)
(* What a thread has yet to do is a sequence; the invariant says which     *)
(* call follows which, what holds when a thread is at one, and how far     *)
(* malloc is.  When mopen has raced with a thread that initialises malloc, *)
(* only what is in the files is known.                                     *)
(***************************************************************************)
EXTENDS PermThreads, SequenceTheorems, FiniteSetTheorems, WellFoundedInduction, TLAPS

Ops == {"init", "init_lock", "init_end", "spin", "mopen", "mopen_end", "restore",
        "choose", "set_arena", "lock", "unlock"}

\* What may follow what in calls[t].
Pairs == {<<"init", "choose">>, <<"choose", "lock">>, <<"choose", "set_arena">>,
          <<"lock", "unlock">>, <<"unlock", "mopen">>,
          <<"mopen", "init_lock">>, <<"mopen", "restore">>,
          <<"init_lock", "mopen_end">>, <<"init_lock", "choose">>,
          <<"init_end", "mopen_end">>, <<"init_end", "choose">>,
          <<"spin", "mopen_end">>, <<"spin", "choose">>,
          <<"mopen_end", "init_lock">>, <<"mopen_end", "restore">>}

\* cs is a sequence of calls in a possible order.
Legal(cs) ==
    /\ cs \in Seq(Ops)
    /\ \A k \in 1 .. Len(cs) - 1 : <<cs[k], cs[k + 1]>> \in Pairs

\* o is yet to be called.
Has(cs, o) == \E k \in 1 .. Len(cs) : cs[k] = o

\* What is left after the first call is a possible order.
LEMMA TailLegal ==
    ASSUME NEW cs, Legal(cs), cs # << >>
    PROVE  /\ Head(cs) \in Ops /\ Legal(Tail(cs))
           /\ Tail(cs) = << >> \/ <<Head(cs), Head(Tail(cs))>> \in Pairs
           /\ \A o : Has(Tail(cs), o) => Has(cs, o)
<1>1. /\ Head(cs) = cs[1] /\ Tail(cs) \in Seq(Ops) /\ Len(cs) \in Nat /\ Len(cs) > 0
      /\ Len(Tail(cs)) = Len(cs) - 1
      /\ \A k \in 1 .. Len(Tail(cs)) : Tail(cs)[k] = cs[k + 1] /\ k + 1 \in 1 .. Len(cs)
      /\ Head(cs) \in Ops
  BY DEF Legal
<1>2. Legal(Tail(cs))
  <2>1. ASSUME NEW k \in 1 .. Len(Tail(cs)) - 1
        PROVE  <<Tail(cs)[k], Tail(cs)[k + 1]>> \in Pairs
    <3>1. k + 1 \in 1 .. Len(cs) - 1 /\ k \in 1 .. Len(Tail(cs)) /\ k + 1 \in 1 .. Len(Tail(cs))
      BY <1>1
    <3>2. Tail(cs)[k] = cs[k + 1] /\ Tail(cs)[k + 1] = cs[(k + 1) + 1]
      BY <1>1, <3>1
    <3> QED
      BY <3>1, <3>2 DEF Legal
  <2> QED
    BY <1>1, <2>1 DEF Legal
<1>3. ASSUME Tail(cs) # << >> PROVE <<Head(cs), Head(Tail(cs))>> \in Pairs
  <2>1. Len(Tail(cs)) > 0 /\ Head(Tail(cs)) = Tail(cs)[1] /\ 1 \in 1 .. Len(Tail(cs))
    BY <1>1, <1>3
  <2>2. Tail(cs)[1] = cs[1 + 1] /\ 1 \in 1 .. Len(cs) - 1
    BY <1>1, <2>1
  <2> QED
    BY <1>1, <2>1, <2>2 DEF Legal
<1>4. ASSUME NEW o, Has(Tail(cs), o) PROVE Has(cs, o)
  BY <1>1, <1>4 DEF Has
<1> QED
  BY <1>1, <1>2, <1>3, <1>4

\* A call that may come before cs, followed by cs, is a possible order.
LEMMA ConsLegal ==
    ASSUME NEW cs, Legal(cs), NEW a \in Ops, cs = << >> \/ <<a, Head(cs)>> \in Pairs
    PROVE  /\ Legal(<<a>> \o cs) /\ Head(<<a>> \o cs) = a /\ <<a>> \o cs # << >>
           /\ \A o : Has(<<a>> \o cs, o) <=> o = a \/ Has(cs, o)
<1> DEFINE d == <<a>> \o cs
<1>1. /\ d \in Seq(Ops) /\ Len(cs) \in Nat /\ Len(d) = Len(cs) + 1 /\ d[1] = a
      /\ \A k \in 1 .. Len(cs) : d[k + 1] = cs[k]
  BY DEF Legal
<1>2. Head(d) = a /\ d # << >>
  BY <1>1
<1>3. ASSUME NEW k \in 1 .. Len(d) - 1 PROVE <<d[k], d[k + 1]>> \in Pairs
  <2>1. k \in 1 .. Len(cs) /\ d[k + 1] = cs[k]
    BY <1>1
  <2>2. CASE k = 1
    BY <1>1, <2>1, <2>2 DEF Legal
  <2>3. CASE k # 1
    <3>1. k - 1 \in 1 .. Len(cs) - 1 /\ k - 1 \in 1 .. Len(cs) /\ (k - 1) + 1 = k
      BY <1>1, <2>1, <2>3
    <3>2. d[k] = cs[k - 1]
      BY <1>1, <3>1
    <3> HIDE DEF d
    <3> QED
      BY <2>1, <3>1, <3>2 DEF Legal
  <2> QED
    BY <2>2, <2>3
<1>4. ASSUME NEW o PROVE Has(d, o) <=> o = a \/ Has(cs, o)
  <2>1. ASSUME Has(d, o) PROVE o = a \/ Has(cs, o)
    <3>1. PICK k \in 1 .. Len(d) : d[k] = o
      BY <2>1 DEF Has
    <3>2. k = 1 \/ (k - 1 \in 1 .. Len(cs) /\ (k - 1) + 1 = k)
      BY <1>1, <3>1
    <3> HIDE DEF d
    <3> QED
      BY <1>1, <3>1, <3>2 DEF Has
  <2>2. ASSUME o = a \/ Has(cs, o) PROVE Has(d, o)
    <3> HIDE DEF d
    <3>1. 1 \in 1 .. Len(d) /\ \A k \in 1 .. Len(cs) : k + 1 \in 1 .. Len(d)
      BY <1>1
    <3> QED
      BY <1>1, <2>2, <3>1 DEF Has
  <2> QED
    BY <2>1, <2>2
<1> HIDE DEF d
<1>5. Legal(d)
  BY <1>1, <1>3 DEF Legal
<1> QED
  BY <1>2, <1>4, <1>5 DEF d

\* Two calls before cs are one before one before cs.
LEMMA ConsTwo ==
    ASSUME NEW cs \in Seq(Ops), NEW a \in Ops, NEW b \in Ops
    PROVE  <<a, b>> \o cs = <<a>> \o (<<b>> \o cs)
<1> DEFINE s == <<a, b>>
           d == <<a>> \o <<b>>
<1>1. <<a>> \in Seq(Ops) /\ <<b>> \in Seq(Ops)
  OBVIOUS
<1>2. s \in Seq(Ops) /\ Len(s) = 2 /\ s[1] = a /\ s[2] = b
  OBVIOUS
<1>3. d \in Seq(Ops) /\ Len(d) = 2 /\ d[1] = a /\ d[2] = b
  OBVIOUS
<1>4. s = d
  <2> HIDE DEF s, d
  <2>1. \A k \in 1 .. Len(s) : s[k] = d[k]
    BY <1>2, <1>3
  <2> QED
    BY <1>2, <1>3, <2>1, SeqEqual
<1> QED
  BY <1>1, <1>4, ConcatAssociative

\* A set of naturals that is not empty has a least element.
LEMMA LeastExists ==
    ASSUME NEW S, S \subseteq Nat, S # {}
    PROVE  \E x \in S : \A y \in S : x <= y
<1> DEFINE R == OpToRel(<, Nat)
<1>1. IsWellFoundedOn(R, Nat)
  BY NatLessThanWellFounded
<1>2. PICK x \in S : \A y \in S : ~(<<y, x>> \in R)
  <2> HIDE DEF R
  <2> QED
    BY <1>1, WFMin, Zenon
<1>3. ASSUME NEW y \in S PROVE x <= y
  <2>1. x \in Nat /\ y \in Nat
    OBVIOUS
  <2>2. y < x => <<y, x>> \in R
    BY <2>1 DEF OpToRel
  <2> HIDE DEF R
  <2> QED
    BY <1>2, <2>1, <2>2
<1> QED
  BY <1>3

\* Min is that element.
LEMMA MinFacts ==
    ASSUME NEW S, S \subseteq Nat, S # {}
    PROVE  Min(S) \in S /\ \A y \in S : Min(S) <= y
  BY LeastExists DEF Min

----------------------------------------------------------------------------
(* The inductive invariant *)

ArenaType == [made : BOOLEAN, nthreads : 0 .. CountRange - 1,
              bin : Threads \union {NoThread, Gone}]

\* The types.
Types ==
    /\ TypeOK
    /\ image \in [narenas : 0 .. NArenas, arenas : [Arenas -> ArenaType]]
    /\ life \in [Threads -> {"none", "live", "gone"}]
    /\ malloc_initialized \in BOOLEAN /\ plib_initialized \in BOOLEAN /\ mfd \in BOOLEAN
    /\ opener \in {"mopen", "env"} /\ restored \in BOOLEAN

\* A thread's calls are in order; restore needs a backup, and the end of mopen an open
\* heap; a thread that does not run has nothing to do and no arena.
Scripted ==
    /\ calls \in [Threads -> Seq(Ops)]
    /\ \A t \in Threads :
        /\ Legal(calls[t])
        /\ Has(calls[t], "restore") => image.narenas >= 1
        /\ Has(calls[t], "mopen_end") => mfd
        /\ ~Live(t) => calls[t] = << >> /\ arena[t] = None

\* What holds where thread t is.
ServesOf(t) ==
    /\ At(t, "init_end") => malloc_initializer = t /\ ~malloc_initialized
    /\ \A o \in {"mopen_end", "choose", "lock", "unlock", "set_arena"} :
          At(t, o) => malloc_initialized
    /\ \A o \in {"lock", "unlock", "set_arena"} : At(t, o) => arena[t] # None

\* It holds where any thread is.
Serves == \A t \in Threads : ServesOf(t)

\* How far malloc is: before its initialisation no thread has an arena, and memory other
\* than the heap is untouched while the heap is not open; during it the initialiser is
\* about to end it; from its beginning there is an arena.
Starting ==
    /\ malloc_initialized => malloc_initializer # NoThread
    /\ malloc_initializer # NoThread /\ ~malloc_initialized => At(malloc_initializer, "init_end")
    /\ malloc_initializer = NoThread =>
         /\ \A t \in Threads : arena[t] = None
         /\ plib_initialized => mfd /\ file = "heap"
         /\ ~mfd => arenas["system"] = Nothing
    /\ malloc_initializer # NoThread => narenas[memory] >= 1 /\ Mine[0].made
    /\ ~mfd => memory = "system"
    /\ mfd /\ ~malloc_initialized => perm_mtx # NoThread

\* Before malloc opens the heap (PERM_FNAME) it has not begun its initialisation.
Opening ==
    opener = "env" /\ ~mfd =>
        /\ malloc_initializer = NoThread
        /\ \A t \in Threads : calls[t] # << >> => Head(calls[t]) \in {"init", "mopen"}

\* A heap in the file or in the backup has an arena.
Files ==
    /\ file = "heap" => narenas["heap"] >= 1 /\ arenas["heap"][0].made
    /\ image.narenas >= 1 => image.arenas[0].made
    /\ image = NoImage \/ image.narenas >= 1

\* A thread's arena has been made.
Assigned == ~restored => \A t \in Threads : arena[t] # None => Mine[arena[t]].made

\* The threads that have arena i.
Holders(i) == {t \in Threads : Live(t) /\ arena[t] = i}

\* The counts.
Counts ==
    ~restored /\ malloc_initializer # NoThread =>
        \A i \in Arenas : Mine[i].nthreads = Cardinality(Holders(i))

\* What holds while mopen has not raced.
Inv == /\ Types /\ Scripted /\ Serves /\ Starting /\ Opening /\ Files /\ Assigned
       /\ Counts /\ HeapOnly

\* The inductive invariant.
AllInv == Types /\ Files /\ (~raced => Inv)

----------------------------------------------------------------------------
(* Arenas and their counts *)

\* The constants.
LEMMA ConstantFacts ==
    /\ CountRange \in Nat /\ CountRange > 0 /\ NArenas \in Nat /\ NArenas > 0
    /\ 0 \in Arenas /\ None \notin Arenas /\ Arenas \subseteq Nat
    /\ Main \in Threads /\ NoThread \notin Threads /\ Gone \notin Threads
<1>1. Cardinality(Threads) \in Nat
  BY FS_CardinalityType, ThreadsAssumption
<1> QED
  BY <1>1, ThreadsAssumption DEF Arenas, None

\* A set of threads is smaller than the range of nthreads.
LEMMA HoldersBound ==
    ASSUME NEW S, S \subseteq Threads
    PROVE  IsFiniteSet(S) /\ Cardinality(S) \in Nat /\ Cardinality(S) < CountRange
<1>1. IsFiniteSet(S) /\ Cardinality(S) <= Cardinality(Threads)
  BY FS_Subset, ThreadsAssumption
<1>2. Cardinality(S) \in Nat /\ Cardinality(Threads) \in Nat
  BY <1>1, FS_CardinalityType, ThreadsAssumption
<1> QED
  BY <1>1, <1>2, ThreadsAssumption

\* The remainder modulo the range of nthreads.
LEMMA ModFacts ==
    /\ \A n \in Nat : n % CountRange \in 0 .. CountRange - 1
    /\ \A n \in Int : n % CountRange \in 0 .. CountRange - 1
    /\ \A n \in 0 .. CountRange - 1 : n % CountRange = n
  BY ConstantFacts

\* Plus changes one arena's count.
LEMMA PlusFacts ==
    ASSUME NEW a \in [Arenas -> ArenaType], NEW i \in Arenas, NEW n \in {1, -1}
    PROVE  /\ Plus(i, n, a) \in [Arenas -> ArenaType]
           /\ \A j \in Arenas : /\ Plus(i, n, a)[j].made = a[j].made
                                /\ j # i => Plus(i, n, a)[j] = a[j]
           /\ Plus(i, n, a)[i].nthreads = (a[i].nthreads + n) % CountRange
<1>1. a[i].nthreads + n \in Int
  BY ConstantFacts DEF ArenaType
<1>2. (a[i].nthreads + n) % CountRange \in 0 .. CountRange - 1
  BY <1>1, ModFacts
<1> HIDE DEF Arenas
<1> QED
  BY <1>2 DEF Plus, ArenaType

\* The arenas that are not made and made anew.
LEMMA NewArenaType == NewArena \in ArenaType /\ NoArena \in ArenaType /\ Nothing \in [Arenas -> ArenaType]
  BY ConstantFacts DEF NewArena, NoArena, ArenaType, Nothing

\* arenas_extend changes an arena only when it was not made.
LEMMA ExtendedFacts ==
    ASSUME Types, NEW i \in Arenas
    PROVE  /\ Mine \in [Arenas -> ArenaType]
           /\ Extended(i) \in [Arenas -> ArenaType]
           /\ i \in 0 .. narenas[memory] - 1 => Extended(i)[i].made
           /\ \A j \in Arenas : /\ j # i => Extended(i)[j] = Mine[j]
                                /\ Mine[j].made => Extended(i)[j].made
           /\ Extended(i)[i] = Mine[i] \/ ((Mine[i].made => ~(i < narenas[memory])) /\ Extended(i)[i] = NewArena)
<1>1. Mine \in [Arenas -> ArenaType]
  BY DEF Types, TypeOK, Mine, ArenaType
<1>2. narenas[memory] \in Nat /\ i \in Nat
  BY ConstantFacts DEF Types, TypeOK
<1> HIDE DEF Mine
<1>3. CASE i \in Made
  BY <1>1, <1>2, <1>3 DEF Extended, Made
<1>4. CASE i \notin Made
  <2>1. Extended(i) = [Mine EXCEPT ![i] = NewArena] /\ NewArena.made
    BY <1>4 DEF Extended, NewArena
  <2> QED
    BY <1>1, <1>2, <1>4, <2>1, NewArenaType DEF Made
<1> QED
  BY <1>3, <1>4

----------------------------------------------------------------------------
(* Steps of one thread *)

\* A step of t that leaves the calls and arenas of the other threads alone.
LEMMA ScriptMoves ==
    ASSUME Types, Scripted, NEW t \in Threads, NEW cs, Legal(cs),
           calls' = [calls EXCEPT ![t] = cs], life' = life, Live(t),
           Has(cs, "restore") => image'.narenas >= 1,
           Has(cs, "mopen_end") => mfd',
           mfd => mfd', image.narenas >= 1 => image'.narenas >= 1,
           \A q \in Threads \ {t} : arena'[q] = arena[q]
    PROVE  Scripted'
<1>1. cs \in Seq(Ops)
  BY DEF Legal
<1>2. calls' \in [Threads -> Seq(Ops)]
  BY <1>1 DEF Scripted
<1>3. ASSUME NEW q \in Threads
      PROVE  /\ Legal(calls'[q])
             /\ Has(calls'[q], "restore") => image'.narenas >= 1
             /\ Has(calls'[q], "mopen_end") => mfd'
             /\ ~Live(q)' => calls'[q] = << >> /\ arena'[q] = None
  <2>1. CASE q = t
    BY <2>1 DEF Scripted, Live
  <2>2. CASE q # t
    BY <2>2 DEF Scripted, Live
  <2> QED
    BY <2>1, <2>2
<1>4. \A q \in Threads : Legal(calls'[q]) = Legal(calls[q])' /\ \A o : Has(calls'[q], o) = Has(calls[q], o)'
  BY DEF Legal, Has
<1> QED
  BY <1>2, <1>3, <1>4 DEF Scripted

\* A step of t keeps what holds where the other threads are.
LEMMA ServesMoves ==
    ASSUME Scripted, Serves, NEW t \in Threads, NEW cs,
           calls' = [calls EXCEPT ![t] = cs], life' = life,
           malloc_initialized => malloc_initialized',
           \A q \in Threads \ {t} :
              /\ arena'[q] = arena[q]
              /\ At(q, "init_end") => malloc_initializer' = q /\ ~malloc_initialized',
           ServesOf(t)'
    PROVE  Serves'
<1> SUFFICES ASSUME NEW q \in Threads, q # t PROVE ServesOf(q)'
  BY DEF Serves
<1>1. \A o : At(q, o)' = At(q, o)
  BY DEF At, Live, Scripted
<1> QED
  BY <1>1 DEF Serves, ServesOf

\* What t does next when it returns from o.
LEMMA Returning ==
    ASSUME Scripted, NEW t \in Threads, NEW o, At(t, o)
    PROVE  /\ Live(t) /\ calls[t] # << >> /\ Head(calls[t]) = o
           /\ Legal(Rest(t)) /\ Rest(t) \in Seq(Ops) /\ o \in Ops
           /\ Rest(t) = << >> \/ <<o, Head(Rest(t))>> \in Pairs
           /\ Has(Rest(t), "restore") => image.narenas >= 1
           /\ Has(Rest(t), "mopen_end") => mfd
           /\ Has(calls[t], o)
<1>1. Legal(calls[t]) /\ calls[t] # << >> /\ Live(t) /\ Head(calls[t]) = o
  BY DEF Scripted, At
<1>2. Has(calls[t], Head(calls[t]))
  <2>1. Len(calls[t]) > 0 /\ Len(calls[t]) \in Nat /\ Head(calls[t]) = calls[t][1]
    BY <1>1 DEF Legal
  <2> QED
    BY <2>1 DEF Has
<1>3. Legal(Rest(t)) /\ Rest(t) \in Seq(Ops)
  BY <1>1, TailLegal DEF Rest, Legal
<1> QED
  BY <1>1, <1>2, <1>3, TailLegal DEF Rest, Scripted

\* t's next step is a, then its rest.
LEMMA Pushing ==
    ASSUME NEW cs, Legal(cs), NEW a \in Ops, cs = << >> \/ <<a, Head(cs)>> \in Pairs,
           NEW t \in Threads, calls \in [Threads -> Seq(Ops)],
           calls' = [calls EXCEPT ![t] = <<a>> \o cs]
    PROVE  /\ Legal(<<a>> \o cs)
           /\ calls'[t] # << >> /\ Head(calls'[t]) = a
           /\ \A o : Has(<<a>> \o cs, o) => o = a \/ Has(cs, o)
  BY ConsLegal

\* MallocInit keeps the invariant.
LEMMA MallocInitStep ==
    ASSUME Inv, NEW t \in Threads, MallocInit(t)
    PROVE  Inv'
<1>1. At(t, "init") /\ UNCHANGED <<heapVars, boot, disk, perm_mtx, arena, others>>
  BY DEF MallocInit
<1> DEFINE rest == Rest(t)
<1>2. /\ Live(t) /\ Legal(rest) /\ rest \in Seq(Ops)
      /\ rest # << >> => Head(rest) = "choose"
      /\ Has(rest, "restore") => image.narenas >= 1
      /\ Has(rest, "mopen_end") => mfd
  BY <1>1, Returning DEF Inv, Pairs
<1> HIDE DEF rest
<1>3. PICK cs : /\ calls' = [calls EXCEPT ![t] = cs]
                /\ Legal(cs)
                /\ Has(cs, "restore") => image.narenas >= 1
                /\ Has(cs, "mopen_end") => mfd
                /\ cs # << >> => \/ Head(cs) = "choose" /\ malloc_initialized
                                 \/ Head(cs) = "init_lock" /\ (mfd \/ opener # "env")
                                 \/ Head(cs) = "mopen"
  <2>0. "init_lock" \in Ops /\ "mopen" \in Ops /\ <<"init_lock", "choose">> \in Pairs /\ <<"mopen", "init_lock">> \in Pairs
    BY DEF Ops, Pairs
  <2>1. CASE malloc_initialized
    BY <1>2, <2>1 DEF MallocInit, Goto, rest
  <2>2. CASE ~malloc_initialized /\ ~mfd /\ opener = "env"
    <3> DEFINE one == <<"init_lock">> \o rest
               two == <<"mopen">> \o one
    <3>1. Legal(one) /\ Head(one) = "init_lock" /\ one # << >>
          /\ \A o : Has(one, o) <=> o = "init_lock" \/ Has(rest, o)
      BY <1>2, <2>0, ConsLegal
    <3>2. Legal(two) /\ Head(two) = "mopen" /\ two # << >>
          /\ \A o : Has(two, o) <=> o = "mopen" \/ Has(one, o)
      <4> HIDE DEF one
      <4> QED
        BY <3>1, <2>0, ConsLegal
    <3>3. calls' = [calls EXCEPT ![t] = two]
      <4>1. calls' = [calls EXCEPT ![t] = <<"mopen", "init_lock">> \o rest]
        BY <2>2 DEF MallocInit, Goto, rest
      <4> QED
        BY <4>1, <2>0, <1>2, ConsTwo
    <3> QED
      BY <1>2, <3>1, <3>2, <3>3
  <2>3. CASE ~malloc_initialized /\ ~(~mfd /\ opener = "env")
    <3> DEFINE one == <<"init_lock">> \o rest
    <3>1. Legal(one) /\ Head(one) = "init_lock" /\ one # << >>
          /\ \A o : Has(one, o) <=> o = "init_lock" \/ Has(rest, o)
      BY <1>2, <2>0, ConsLegal
    <3>2. calls' = [calls EXCEPT ![t] = one]
      BY <2>3 DEF MallocInit, Goto, rest
    <3> QED
      BY <1>2, <2>3, <3>1, <3>2
  <2> QED
    BY <2>1, <2>2, <2>3
<1>4. /\ UNCHANGED <<narenas, arenas, file, image, malloc_initialized, malloc_initializer,
                     plib_initialized, mfd, memory, perm_mtx, arena, life, mallocs, opener, run,
                     restored>>
      /\ Types /\ Scripted /\ Serves /\ Starting /\ Opening /\ Files /\ Assigned
      /\ Counts /\ HeapOnly
      /\ calls'[t] = cs /\ \A q \in Threads \ {t} : calls'[q] = calls[q]
  BY <1>1, <1>3 DEF heapVars, boot, disk, others, ghosts, Inv, Scripted
<1>5. Scripted'
  BY <1>2, <1>3, <1>4, ScriptMoves
<1>6. Serves'
  <2>1. ServesOf(t)'
    BY <1>3, <1>4 DEF ServesOf, At, Live
  <2>2. \A q \in Threads \ {t} : At(q, "init_end") => malloc_initializer' = q /\ ~malloc_initialized'
    BY <1>4 DEF Serves, ServesOf
  <2> QED
    BY <1>3, <1>4, <2>1, <2>2, ServesMoves
<1>7. Starting'
  <2>1. malloc_initializer # t \/ malloc_initialized
    BY <1>1, <1>4, ConstantFacts DEF Starting, At
  <2>2. malloc_initializer # NoThread => malloc_initializer \in Threads
    BY <1>4 DEF Types, TypeOK
  <2>3. malloc_initializer # NoThread /\ ~malloc_initialized => At(malloc_initializer, "init_end")'
    BY <1>4, <2>1, <2>2 DEF Starting, At, Live
  <2>4. Mine' = Mine
    BY <1>4 DEF Mine
  <2> QED
    BY <1>4, <2>3, <2>4 DEF Starting
<1>8. Opening'
  BY <1>3, <1>4 DEF Opening, Live, Starting
<1> QED
  BY <1>4, <1>5, <1>6, <1>7, <1>8
     DEF Inv, Types, TypeOK, Files, Assigned, Counts, Holders, Mine, HeapOnly, Live

\* A step that changes one memory's arenas.
LEMMA UpdateFacts ==
    ASSUME Types, NEW a \in [Arenas -> ArenaType], Update(a), UNCHANGED memory
    PROVE  /\ arenas' \in [{"system", "heap"} -> [Arenas -> ArenaType]]
           /\ Mine' = a
           /\ memory = "heap" => arenas'["system"] = arenas["system"] /\ arenas'["heap"] = a
           /\ memory = "system" => arenas'["heap"] = arenas["heap"] /\ arenas'["system"] = a
<1>1. arenas \in [{"system", "heap"} -> [Arenas -> ArenaType]] /\ memory \in {"system", "heap"}
  BY DEF Types, TypeOK, ArenaType
<1> QED
  BY <1>1 DEF Update, Mine

\* The calls of the other threads.
LEMMA OthersAt ==
    ASSUME NEW t \in Threads, NEW cs, calls' = [calls EXCEPT ![t] = cs], life' = life,
           Scripted
    PROVE  /\ calls'[t] = cs
           /\ \A q \in Threads \ {t} : calls'[q] = calls[q] /\ \A o : At(q, o)' = At(q, o)
           /\ \A q \in Threads : Live(q)' = Live(q)
  BY DEF Scripted, At, Live

\* InitLock keeps the invariant: a thread waits, or it is alone and takes the first arena.
LEMMA InitLockStep ==
    ASSUME Inv, NEW t \in Threads, InitLock(t)
    PROVE  Inv'
<1> DEFINE rest == Rest(t)
<1>1. /\ At(t, "init_lock") /\ Live(t) /\ calls[t] # << >> /\ Head(calls[t]) = "init_lock"
      /\ Legal(rest) /\ rest \in Seq(Ops)
      /\ rest # << >> => Head(rest) \in {"choose", "mopen_end"}
      /\ Has(rest, "restore") => image.narenas >= 1
      /\ Has(rest, "mopen_end") => mfd
  BY Returning DEF InitLock, Inv, Pairs
<1>2. /\ UNCHANGED <<malloc_initialized, plib_initialized, mfd, memory, file, image, perm_mtx,
                     life, mallocs, opener, run, restored>>
      /\ Types /\ Scripted /\ Serves /\ Starting /\ Opening /\ Files /\ Assigned
      /\ Counts /\ HeapOnly
  BY DEF InitLock, disk, others, ghosts, Inv
<1>3. ~(malloc_initializer = t /\ ~malloc_initialized)
  BY <1>1, <1>2, ConstantFacts DEF Starting, At
<1>4. "spin" \in Ops /\ "init_end" \in Ops
      /\ (rest # << >> => <<"spin", Head(rest)>> \in Pairs /\ <<"init_end", Head(rest)>> \in Pairs)
  BY <1>1 DEF Ops, Pairs
<1>5. malloc_initializer # NoThread => malloc_initializer \in Threads
  BY <1>2 DEF Types, TypeOK
<1> HIDE DEF rest
<1>6. CASE malloc_initialized \/ Waiting(t)
  <2>1. UNCHANGED <<narenas, arenas, malloc_initializer, arena>>
    BY <1>3, <1>6 DEF InitLock, heapVars, Waiting
  <2>2. PICK cs : /\ calls' = [calls EXCEPT ![t] = cs]
                  /\ Legal(cs)
                  /\ Has(cs, "restore") => image.narenas >= 1
                  /\ Has(cs, "mopen_end") => mfd
                  /\ cs # << >> => \/ Head(cs) \in {"choose", "mopen_end"} /\ malloc_initialized
                                   \/ Head(cs) = "spin"
    <3>1. CASE malloc_initialized
      BY <1>1, <3>1 DEF InitLock, Return, Goto, rest
    <3>2. CASE ~malloc_initialized
      <4>1. calls' = [calls EXCEPT ![t] = <<"spin">> \o rest]
        BY <1>3, <1>6, <3>2 DEF InitLock, Goto, rest
      <4> QED
        BY <1>1, <1>4, <4>1, ConsLegal
    <3> QED
      BY <3>1, <3>2
  <2>3. /\ calls'[t] = cs
        /\ \A q \in Threads \ {t} : calls'[q] = calls[q] /\ \A o : At(q, o)' = At(q, o)
        /\ \A q \in Threads : Live(q)' = Live(q)
    BY <1>2, <2>2, OthersAt
  <2>4. Scripted'
    BY <1>1, <1>2, <2>1, <2>2, ScriptMoves
  <2>5. Serves'
    <3>1. ServesOf(t)'
      BY <1>2, <2>1, <2>2, <2>3 DEF ServesOf, At
    <3>2. \A q \in Threads \ {t} : At(q, "init_end") => malloc_initializer' = q /\ ~malloc_initialized'
      BY <1>2, <2>1 DEF Serves, ServesOf
    <3> QED
      BY <1>2, <2>1, <2>2, <3>1, <3>2, ServesMoves
  <2>6. Starting'
    <3>1. malloc_initializer # NoThread /\ ~malloc_initialized => At(malloc_initializer, "init_end")'
      BY <1>2, <1>3, <1>5, <2>1, <2>3 DEF Starting
    <3> QED
      BY <1>2, <2>1, <3>1 DEF Starting, Mine
  <2>7. Opening'
    BY <1>1, <1>2, <2>1, <2>3 DEF Opening
  <2> QED
    BY <1>2, <2>1, <2>3, <2>4, <2>5, <2>6, <2>7
       DEF Inv, Types, TypeOK, Files, Assigned, Counts, Holders, Mine, HeapOnly, Live
<1>7. CASE ~malloc_initialized /\ ~Waiting(t)
  <2> DEFINE a == IF plib_initialized THEN Recount(Mine) ELSE [Nothing EXCEPT ![0] = NewArena]
             cs == <<"init_end">> \o rest
  <2>1. malloc_initializer = NoThread /\ malloc_initializer' = t /\ \A q \in Threads : arena[q] = None
    BY <1>2, <1>3, <1>7 DEF InitLock, Waiting, Starting
  <2>2. /\ arena' = [arena EXCEPT ![t] = 0]
        /\ calls' = [calls EXCEPT ![t] = cs]
        /\ Update(Plus(0, 1, a))
        /\ narenas' = IF plib_initialized THEN narenas ELSE [narenas EXCEPT ![memory] = 1]
    BY <1>3, <1>7 DEF InitLock, Goto, rest
  <2>3. Legal(cs) /\ Head(cs) = "init_end" /\ cs # << >>
        /\ \A o : Has(cs, o) <=> o = "init_end" \/ Has(rest, o)
    BY <1>1, <1>4, ConsLegal
  <2>4. /\ calls'[t] = cs
        /\ \A q \in Threads \ {t} : calls'[q] = calls[q] /\ \A o : At(q, o)' = At(q, o)
        /\ \A q \in Threads : Live(q)' = Live(q)
    BY <1>2, <2>2, OthersAt
  <2> HIDE DEF cs
  <2>5. /\ a \in [Arenas -> ArenaType] /\ a[0].made
        /\ \A k \in Arenas : a[k].nthreads = 0
    <3>1. CASE plib_initialized
      <4>1. memory = "heap" /\ Mine[0].made /\ Mine \in [Arenas -> ArenaType]
        BY <1>2, <2>1, <3>1 DEF Starting, HeapOnly, Files, Mine, Types, TypeOK, ArenaType
      <4>2. a = [k \in Arenas |-> [Mine[k] EXCEPT !.nthreads = 0]]
        BY <3>1 DEF Recount
      <4>3. \A k \in Arenas : [Mine[k] EXCEPT !.nthreads = 0] \in ArenaType
        BY <4>1, ConstantFacts DEF ArenaType
      <4> HIDE DEF a
      <4> QED
        BY <4>1, <4>2, <4>3, ConstantFacts DEF ArenaType
    <3>2. CASE ~plib_initialized
      <4>1. a = [Nothing EXCEPT ![0] = NewArena]
        BY <3>2
      <4> HIDE DEF a
      <4> QED
        BY <4>1, NewArenaType, ConstantFacts DEF Nothing, NoArena, NewArena
    <3> QED
      BY <3>1, <3>2
  <2> HIDE DEF a
  <2> DEFINE b == Plus(0, 1, a)
  <2>6. /\ b \in [Arenas -> ArenaType] /\ b[0].made
        /\ \A k \in Arenas : k # 0 => b[k].nthreads = 0
        /\ b[0].nthreads = 1
    <3>1. 1 \in 0 .. CountRange - 1
      <4>1. Cardinality({t}) = 1 /\ {t} \subseteq Threads
        BY FS_Singleton
      <4> QED
        BY <4>1, HoldersBound, ConstantFacts
    <3>2. (a[0].nthreads + 1) % CountRange = 1
      BY <2>5, <3>1, ModFacts, ConstantFacts
    <3> QED
      BY <2>5, <3>2, PlusFacts, ConstantFacts
  <2> HIDE DEF b
  <2>7. /\ arenas' \in [{"system", "heap"} -> [Arenas -> ArenaType]]
        /\ Mine' = b
        /\ memory = "heap" => arenas'["system"] = arenas["system"] /\ arenas'["heap"] = b
        /\ memory = "system" => arenas'["heap"] = arenas["heap"] /\ arenas'["system"] = b
    <3>1. Update(b)
      BY <2>2 DEF b
    <3> QED
      BY <1>2, <2>6, <3>1, UpdateFacts
  <2>8. narenas' \in [{"system", "heap"} -> 0 .. NArenas] /\ narenas'[memory] >= 1
    <3>0. memory \in {"system", "heap"} /\ narenas \in [{"system", "heap"} -> 0 .. NArenas]
      BY <1>2 DEF Types, TypeOK
    <3>1. CASE plib_initialized
      BY <1>2, <2>1, <2>2, <3>0, <3>1 DEF Starting, HeapOnly, Files
    <3>2. CASE ~plib_initialized
      BY <2>2, <3>0, <3>2, ConstantFacts
    <3> QED
      BY <3>1, <3>2
  <2>9. Types'
    <3>1. TypeOK'
      <4>1. arena' \in [Threads -> Arenas \union {None}] /\ malloc_initializer' \in Threads
        BY <1>2, <2>1, <2>2, ConstantFacts DEF Types, TypeOK
      <4> QED
        BY <1>2, <2>7, <2>8, <4>1 DEF Types, TypeOK, ArenaType
    <3> QED
      BY <1>2, <3>1 DEF Types
  <2>10. Scripted'
    <3>1. \A q \in Threads \ {t} : arena'[q] = arena[q]
      BY <1>2, <2>2 DEF Types, TypeOK
    <3> QED
      BY <1>1, <1>2, <2>2, <2>3, <3>1, ScriptMoves
  <2>11. Serves'
    <3>1. ServesOf(t)'
      BY <1>2, <1>7, <2>1, <2>3, <2>4 DEF ServesOf, At
    <3>2. \A q \in Threads \ {t} : ~At(q, "init_end")
      BY <1>2, <2>1, ConstantFacts DEF Serves, ServesOf
    <3>3. \A q \in Threads \ {t} : arena'[q] = arena[q]
      BY <1>2, <2>2 DEF Types, TypeOK
    <3> QED
      BY <1>2, <2>2, <3>1, <3>2, <3>3, ServesMoves
  <2>12. Starting'
    <3>1. At(t, "init_end")'
      BY <1>1, <1>2, <2>3, <2>4 DEF At
    <3> QED
      BY <1>2, <2>1, <2>6, <2>7, <2>8, <3>1, ConstantFacts DEF Starting
  <2>13. Opening'
    BY <1>1, <1>2, <2>4 DEF Opening
  <2>14. Files'
    <3>1. memory \in {"system", "heap"} /\ narenas \in [{"system", "heap"} -> 0 .. NArenas]
      BY <1>2 DEF Types, TypeOK
    <3>2. CASE memory = "heap"
      BY <1>2, <2>6, <2>7, <2>8, <3>2 DEF Files
    <3>3. CASE memory = "system"
      BY <1>2, <2>2, <2>7, <3>1, <3>3 DEF Files
    <3> QED
      BY <3>1, <3>2, <3>3
  <2>15. Assigned'
    BY <1>2, <2>1, <2>2, <2>6, <2>7 DEF Assigned, Types, TypeOK
  <2>16. Counts'
    <3>1. ASSUME NEW k \in Arenas PROVE Mine'[k].nthreads = Cardinality(Holders(k)')
      <4>1. Holders(k)' = IF k = 0 THEN {t} ELSE {}
        <5>1. \A q \in Threads : arena'[q] = IF q = t THEN 0 ELSE None
          BY <1>2, <2>1, <2>2 DEF Types, TypeOK
        <5>2. k # None
          BY ConstantFacts
        <5> QED
          BY <1>1, <2>4, <5>1, <5>2 DEF Holders
      <4> QED
        BY <2>6, <2>7, <4>1, FS_Singleton, FS_EmptySet
    <3> QED
      BY <3>1 DEF Counts
  <2>17. HeapOnly'
    BY <1>2, <2>7 DEF HeapOnly
  <2> QED
    BY <2>9, <2>10, <2>11, <2>12, <2>13, <2>14, <2>15, <2>16, <2>17 DEF Inv
<1> QED
  BY <1>6, <1>7

\* InitEnd keeps the invariant.
LEMMA InitEndStep ==
    ASSUME Inv, NEW t \in Threads, InitEnd(t)
    PROVE  Inv'
<1> DEFINE rest == Rest(t)
<1>1. /\ At(t, "init_end") /\ Live(t) /\ calls[t] # << >> /\ Head(calls[t]) = "init_end"
      /\ Legal(rest) /\ rest \in Seq(Ops)
      /\ rest # << >> => Head(rest) \in {"choose", "mopen_end"}
      /\ Has(rest, "restore") => image.narenas >= 1
      /\ Has(rest, "mopen_end") => mfd
  BY Returning DEF InitEnd, Inv, Pairs
<1>2. /\ UNCHANGED <<arenas, malloc_initializer, plib_initialized, mfd, memory, file, image,
                     perm_mtx, arena, life, mallocs, opener, run, restored>>
      /\ malloc_initialized' = TRUE
      /\ calls' = [calls EXCEPT ![t] = rest]
      /\ narenas' = IF plib_initialized THEN narenas ELSE [narenas EXCEPT ![memory] = NArenas]
      /\ Types /\ Scripted /\ Serves /\ Starting /\ Opening /\ Files /\ Assigned
      /\ Counts /\ HeapOnly
  BY DEF InitEnd, disk, others, ghosts, Inv, Initialized, Return, Goto
<1> HIDE DEF rest
<1>3. malloc_initializer = t
  BY <1>1, <1>2 DEF Serves, ServesOf
<1>4. /\ calls'[t] = rest
      /\ \A q \in Threads \ {t} : calls'[q] = calls[q] /\ \A o : At(q, o)' = At(q, o)
      /\ \A q \in Threads : Live(q)' = Live(q)
  BY <1>2, OthersAt
<1>5. /\ memory \in {"system", "heap"} /\ narenas' \in [{"system", "heap"} -> 0 .. NArenas]
      /\ \A m \in {"system", "heap"} : narenas[m] >= 1 => narenas'[m] >= 1
  BY <1>2, ConstantFacts DEF Types, TypeOK
<1>6. Scripted'
  BY <1>1, <1>2, ScriptMoves
<1>7. Serves'
  <2>1. ServesOf(t)'
    BY <1>1, <1>2, <1>4 DEF ServesOf, At
  <2>2. \A q \in Threads \ {t} : ~At(q, "init_end")
    BY <1>2, <1>3 DEF Serves, ServesOf
  <2> QED
    BY <1>2, <2>1, <2>2, ServesMoves
<1>8. Starting'
  BY <1>2, <1>3, <1>5, ConstantFacts DEF Starting, Mine
<1>9. Opening'
  BY <1>1, <1>2, <1>3, <1>4, ConstantFacts DEF Opening
<1> QED
  BY <1>2, <1>4, <1>5, <1>6, <1>7, <1>8, <1>9
     DEF Inv, Types, TypeOK, Files, Assigned, Counts, Holders, Mine, HeapOnly, Live

\* Spin keeps the invariant.
LEMMA SpinStep ==
    ASSUME Inv, NEW t \in Threads, Spin(t)
    PROVE  Inv'
<1> DEFINE rest == Rest(t)
<1>1. /\ At(t, "spin") /\ Live(t) /\ calls[t] # << >> /\ Head(calls[t]) = "spin"
      /\ Legal(rest) /\ rest \in Seq(Ops)
      /\ rest # << >> => Head(rest) \in {"choose", "mopen_end"}
      /\ Has(rest, "restore") => image.narenas >= 1
      /\ Has(rest, "mopen_end") => mfd
      /\ malloc_initialized
  BY Returning DEF Spin, Inv, Pairs
<1>2. /\ UNCHANGED <<narenas, arenas, malloc_initialized, malloc_initializer, plib_initialized, mfd,
                     memory, file, image, perm_mtx, arena, life, mallocs, opener, run, restored>>
      /\ calls' = [calls EXCEPT ![t] = rest]
      /\ Types /\ Scripted /\ Serves /\ Starting /\ Opening /\ Files /\ Assigned
      /\ Counts /\ HeapOnly
  BY DEF Spin, heapVars, boot, disk, others, ghosts, Inv, Return, Goto
<1> HIDE DEF rest
<1>3. /\ calls'[t] = rest
      /\ \A q \in Threads \ {t} : calls'[q] = calls[q] /\ \A o : At(q, o)' = At(q, o)
      /\ \A q \in Threads : Live(q)' = Live(q)
  BY <1>2, OthersAt
<1>4. Scripted'
  BY <1>1, <1>2, ScriptMoves
<1>5. Serves'
  <2>1. ServesOf(t)'
    BY <1>1, <1>2, <1>3 DEF ServesOf, At
  <2>2. \A q \in Threads \ {t} : At(q, "init_end") => malloc_initializer' = q /\ ~malloc_initialized'
    BY <1>2 DEF Serves, ServesOf
  <2> QED
    BY <1>2, <2>1, <2>2, ServesMoves
<1>6. Starting'
  BY <1>1, <1>2 DEF Starting, Mine
<1>7. Opening'
  BY <1>1, <1>2, <1>3 DEF Opening
<1> QED
  BY <1>2, <1>3, <1>4, <1>5, <1>6, <1>7
     DEF Inv, Types, TypeOK, Files, Assigned, Counts, Holders, Mine, HeapOnly, Live

\* Mopen that races leaves a heap with an arena in the files, or none.
LEMMA MopenRaces ==
    ASSUME Types, Files, NEW t \in Threads, Mopen(t), ~mfd, Racing
    PROVE  Types' /\ Files'
<1>1. /\ UNCHANGED <<narenas, image, malloc_initialized, malloc_initializer, arena, life, opener,
                     run, restored>>
      /\ mfd' = TRUE /\ perm_mtx' = t /\ memory' = "heap"
      /\ \/ file = "heap" /\ plib_initialized' = TRUE /\ UNCHANGED <<arenas, file>>
         \/ /\ file # "heap" /\ file' = "header" /\ UNCHANGED plib_initialized
            /\ arenas' = [arenas EXCEPT !["heap"] = Nothing]
  BY DEF Mopen, TooLate, Racing, heapVars
<1>2. arenas' \in [{"system", "heap"} -> [Arenas -> ArenaType]]
  BY <1>1, NewArenaType DEF Types, TypeOK, ArenaType
<1>3. TypeOK'
  BY <1>1, <1>2 DEF Types, TypeOK, ArenaType
<1>4. Types'
  BY <1>1, <1>3 DEF Types
<1>5. Files'
  BY <1>1 DEF Files
<1> QED
  BY <1>4, <1>5

\* Mopen that does not race keeps the invariant: it returns at once, or memory is the heap
\* from now on.
LEMMA MopenStep ==
    ASSUME Inv, NEW t \in Threads, Mopen(t), mfd \/ ~Racing
    PROVE  Inv'
<1> DEFINE rest == Rest(t)
<1>1. /\ At(t, "mopen") /\ Live(t) /\ calls[t] # << >> /\ Head(calls[t]) = "mopen"
      /\ Legal(rest) /\ rest \in Seq(Ops)
      /\ rest # << >> => Head(rest) \in {"init_lock", "restore"}
      /\ Has(rest, "restore") => image.narenas >= 1
      /\ Has(rest, "mopen_end") => mfd
  BY Returning DEF Mopen, Inv, Pairs
<1>2. /\ UNCHANGED <<image, malloc_initialized, malloc_initializer, arena, life, mallocs, opener,
                     run, restored>>
      /\ Types /\ Scripted /\ Serves /\ Starting /\ Opening /\ Files /\ Assigned
      /\ Counts /\ HeapOnly
  BY DEF Mopen, boot, disk, others, ghosts, Inv
<1>3. CASE mfd \/ malloc_initialized
  <2>1. /\ UNCHANGED <<narenas, arenas, plib_initialized, mfd, memory, file, perm_mtx>>
        /\ calls' = [calls EXCEPT ![t] = rest]
    BY <1>3 DEF Mopen, TooLate, Return, Goto, heapVars, boot, disk
  <2> HIDE DEF rest
  <2>2. /\ calls'[t] = rest
        /\ \A q \in Threads \ {t} : calls'[q] = calls[q] /\ \A o : At(q, o)' = At(q, o)
        /\ \A q \in Threads : Live(q)' = Live(q)
    BY <1>2, <2>1, OthersAt
  <2>3. Scripted'
    BY <1>1, <1>2, <2>1, ScriptMoves
  <2>4. Serves'
    <3>1. ServesOf(t)'
      BY <1>1, <1>2, <2>1, <2>2 DEF ServesOf, At
    <3>2. \A q \in Threads \ {t} : At(q, "init_end") => malloc_initializer' = q /\ ~malloc_initialized'
      BY <1>2 DEF Serves, ServesOf
    <3> QED
      BY <1>2, <2>1, <3>1, <3>2, ServesMoves
  <2>5. Starting'
    <3>1. malloc_initializer # NoThread /\ ~malloc_initialized => At(malloc_initializer, "init_end")'
      <4>1. malloc_initializer # NoThread => malloc_initializer \in Threads
        BY <1>2 DEF Types, TypeOK
      <4>2. malloc_initializer # NoThread /\ ~malloc_initialized => malloc_initializer # t
        BY <1>1, <1>2 DEF Starting, At
      <4> QED
        BY <1>2, <2>2, <4>1, <4>2 DEF Starting
    <3> QED
      BY <1>2, <2>1, <3>1 DEF Starting, Mine
  <2>6. Opening'
    BY <1>2, <1>3, <2>1, <2>2 DEF Opening, Starting
  <2> QED
    BY <1>2, <2>1, <2>2, <2>3, <2>4, <2>5, <2>6
       DEF Inv, Types, TypeOK, Files, Assigned, Counts, Holders, Mine, HeapOnly, Live
<1>4. CASE ~mfd /\ ~malloc_initialized
  <2> DEFINE one == <<"mopen_end">> \o rest
             two == <<"init_lock">> \o one
  <2>1. malloc_initializer = NoThread
    BY <1>4 DEF Racing
  <2>2. /\ mfd' = TRUE /\ perm_mtx' = t /\ memory' = "heap" /\ narenas' = narenas
        /\ calls' = [calls EXCEPT ![t] = <<"init_lock", "mopen_end">> \o rest]
        /\ \/ file = "heap" /\ plib_initialized' = TRUE /\ UNCHANGED <<arenas, file>>
           \/ /\ file # "heap" /\ file' = "header" /\ UNCHANGED plib_initialized
              /\ arenas' = [arenas EXCEPT !["heap"] = Nothing]
    BY <1>4 DEF Mopen, TooLate, Goto, heapVars
  <2> HIDE DEF rest
  <2>3. "init_lock" \in Ops /\ "mopen_end" \in Ops /\ <<"init_lock", "mopen_end">> \in Pairs
        /\ (rest # << >> => <<"mopen_end", Head(rest)>> \in Pairs)
    BY <1>1 DEF Ops, Pairs
  <2>4. Legal(one) /\ Head(one) = "mopen_end" /\ one # << >>
        /\ \A o : Has(one, o) <=> o = "mopen_end" \/ Has(rest, o)
    BY <1>1, <2>3, ConsLegal
  <2>5. Legal(two) /\ Head(two) = "init_lock" /\ two # << >>
        /\ \A o : Has(two, o) <=> o = "init_lock" \/ Has(one, o)
    <3> HIDE DEF one
    <3> QED
      BY <2>3, <2>4, ConsLegal
  <2>6. calls' = [calls EXCEPT ![t] = two]
    BY <1>1, <2>2, <2>3, ConsTwo
  <2> HIDE DEF two
  <2>7. /\ calls'[t] = two
        /\ \A q \in Threads \ {t} : calls'[q] = calls[q] /\ \A o : At(q, o)' = At(q, o)
        /\ \A q \in Threads : Live(q)' = Live(q)
    BY <1>2, <2>6, OthersAt
  <2>8. Types'
    <3>1. arenas' \in [{"system", "heap"} -> [Arenas -> ArenaType]]
      BY <1>2, <2>2, NewArenaType DEF Types, TypeOK, ArenaType
    <3>2. TypeOK'
      BY <1>2, <2>2, <3>1 DEF Types, TypeOK, ArenaType
    <3> QED
      BY <1>2, <2>2, <3>2 DEF Types
  <2>9. Scripted'
    BY <1>1, <1>2, <2>2, <2>4, <2>5, <2>6, ScriptMoves
  <2>10. Serves'
    <3>1. ServesOf(t)'
      BY <1>1, <1>2, <2>5, <2>7 DEF ServesOf, At
    <3>2. \A q \in Threads \ {t} : At(q, "init_end") => malloc_initializer' = q /\ ~malloc_initialized'
      BY <1>2 DEF Serves, ServesOf
    <3> QED
      BY <1>2, <2>6, <3>1, <3>2, ServesMoves
  <2>11. Starting'
    BY <1>2, <1>4, <2>1, <2>2, ConstantFacts DEF Starting
  <2>12. Opening'
    BY <2>2 DEF Opening
  <2>13. Files'
    BY <1>2, <2>2 DEF Files
  <2>14. Assigned' /\ Counts'
    BY <1>2, <2>1 DEF Assigned, Counts, Starting
  <2>15. HeapOnly'
    BY <1>2, <1>4, <2>1, <2>2 DEF HeapOnly, Starting, Types, TypeOK
  <2> QED
    BY <2>8, <2>9, <2>10, <2>11, <2>12, <2>13, <2>14, <2>15 DEF Inv
<1> QED
  BY <1>3, <1>4

\* MopenEnd keeps the invariant: the heap it leaves in the file has an arena.
LEMMA MopenEndStep ==
    ASSUME Inv, NEW t \in Threads, MopenEnd(t)
    PROVE  Inv'
<1> DEFINE rest == Rest(t)
<1>1. /\ At(t, "mopen_end") /\ Live(t) /\ calls[t] # << >> /\ Head(calls[t]) = "mopen_end"
      /\ Legal(rest) /\ rest \in Seq(Ops) /\ Has(calls[t], "mopen_end")
      /\ rest # << >> => Head(rest) \in {"init_lock", "restore"}
      /\ Has(rest, "restore") => image.narenas >= 1
      /\ Has(rest, "mopen_end") => mfd
  BY Returning DEF MopenEnd, Inv, Pairs
<1>2. /\ UNCHANGED <<narenas, arenas, malloc_initialized, malloc_initializer, mfd, memory, image,
                     arena, life, mallocs, opener, run, restored>>
      /\ plib_initialized' = TRUE /\ file' = "heap" /\ perm_mtx' = NoThread
      /\ calls' = [calls EXCEPT ![t] = rest]
      /\ Types /\ Scripted /\ Serves /\ Starting /\ Opening /\ Files /\ Assigned
      /\ Counts /\ HeapOnly
  BY DEF MopenEnd, heapVars, others, ghosts, Inv, Return, Goto
<1> HIDE DEF rest
<1>3. malloc_initialized /\ mfd /\ malloc_initializer # NoThread /\ memory = "heap"
  BY <1>1, <1>2 DEF Serves, ServesOf, Scripted, Starting, HeapOnly
<1>4. /\ calls'[t] = rest
      /\ \A q \in Threads \ {t} : calls'[q] = calls[q] /\ \A o : At(q, o)' = At(q, o)
      /\ \A q \in Threads : Live(q)' = Live(q)
  BY <1>2, OthersAt
<1>5. Scripted'
  BY <1>1, <1>2, ScriptMoves
<1>6. Serves'
  <2>1. ServesOf(t)'
    BY <1>1, <1>2, <1>4 DEF ServesOf, At
  <2>2. \A q \in Threads \ {t} : At(q, "init_end") => malloc_initializer' = q /\ ~malloc_initialized'
    BY <1>2 DEF Serves, ServesOf
  <2> QED
    BY <1>2, <2>1, <2>2, ServesMoves
<1>7. Starting'
  BY <1>2, <1>3 DEF Starting, Mine
<1>8. Opening'
  BY <1>2, <1>3 DEF Opening
<1>9. Files'
  BY <1>2, <1>3 DEF Files, Starting, Mine
<1> QED
  BY <1>2, <1>4, <1>5, <1>6, <1>7, <1>8, <1>9
     DEF Inv, Types, TypeOK, Assigned, Counts, Holders, Mine, HeapOnly, Live

\* Restore without an open heap keeps the invariant.
LEMMA RestoreFails ==
    ASSUME Inv, NEW t \in Threads, Restore(t), ~mfd
    PROVE  Inv'
<1> DEFINE rest == Rest(t)
<1>1. /\ At(t, "restore") /\ Live(t) /\ calls[t] # << >> /\ Head(calls[t]) = "restore"
      /\ Legal(rest) /\ rest \in Seq(Ops) /\ rest = << >>
      /\ Has(rest, "restore") => image.narenas >= 1
      /\ Has(rest, "mopen_end") => mfd
  BY Returning DEF Restore, Inv, Pairs
<1>2. /\ UNCHANGED <<narenas, arenas, malloc_initialized, malloc_initializer, plib_initialized, mfd,
                     memory, file, image, perm_mtx, arena, life, mallocs, opener, run, restored>>
      /\ calls' = [calls EXCEPT ![t] = rest]
      /\ Types /\ Scripted /\ Serves /\ Starting /\ Opening /\ Files /\ Assigned
      /\ Counts /\ HeapOnly
  BY DEF Restore, heapVars, boot, disk, Inv, Return, Goto
<1> HIDE DEF rest
<1>3. /\ calls'[t] = rest
      /\ \A q \in Threads \ {t} : calls'[q] = calls[q] /\ \A o : At(q, o)' = At(q, o)
      /\ \A q \in Threads : Live(q)' = Live(q)
  BY <1>2, OthersAt
<1>4. Scripted'
  BY <1>1, <1>2, ScriptMoves
<1>5. Serves'
  <2>1. ServesOf(t)'
    BY <1>1, <1>2, <1>3 DEF ServesOf, At
  <2>2. \A q \in Threads \ {t} : At(q, "init_end") => malloc_initializer' = q /\ ~malloc_initialized'
    BY <1>2 DEF Serves, ServesOf
  <2> QED
    BY <1>2, <2>1, <2>2, ServesMoves
<1>6. Starting'
  <2>1. malloc_initializer # NoThread => malloc_initializer \in Threads
    BY <1>2 DEF Types, TypeOK
  <2>2. malloc_initializer # NoThread /\ ~malloc_initialized => malloc_initializer # t
    BY <1>1, <1>2 DEF Starting, At
  <2>3. malloc_initializer # NoThread /\ ~malloc_initialized => At(malloc_initializer, "init_end")'
    BY <1>2, <1>3, <2>1, <2>2 DEF Starting
  <2> QED
    BY <1>2, <2>3 DEF Starting, Mine
<1>7. Opening'
  BY <1>1, <1>2, <1>3 DEF Opening
<1> QED
  BY <1>2, <1>3, <1>4, <1>5, <1>6, <1>7
     DEF Inv, Types, TypeOK, Files, Assigned, Counts, Holders, Mine, HeapOnly, Live

\* Restore keeps the invariant: the backup has an arena too.
LEMMA RestoreStep ==
    ASSUME Inv, NEW t \in Threads, Restore(t), mfd
    PROVE  Inv'
<1> DEFINE rest == Rest(t)
<1>1. /\ At(t, "restore") /\ Live(t) /\ calls[t] # << >> /\ Head(calls[t]) = "restore"
      /\ Legal(rest) /\ rest \in Seq(Ops) /\ Has(calls[t], "restore")
      /\ rest = << >>
      /\ Has(rest, "restore") => image.narenas >= 1
      /\ Has(rest, "mopen_end") => mfd
  BY Returning DEF Restore, Inv, Pairs
<1>2. /\ UNCHANGED <<malloc_initialized, malloc_initializer, plib_initialized, mfd, memory, file,
                     image, perm_mtx, arena, life, mallocs, opener, run>>
      /\ narenas' = [narenas EXCEPT !["heap"] = image.narenas]
      /\ arenas' = [arenas EXCEPT !["heap"] = image.arenas]
      /\ restored' = TRUE
      /\ calls' = [calls EXCEPT ![t] = rest]
      /\ Types /\ Scripted /\ Serves /\ Starting /\ Opening /\ Files /\ Assigned
      /\ Counts /\ HeapOnly
  BY DEF Restore, boot, disk, Inv, Return, Goto
<1> HIDE DEF rest
<1>3. /\ calls'[t] = rest
      /\ \A q \in Threads \ {t} : calls'[q] = calls[q] /\ \A o : At(q, o)' = At(q, o)
      /\ \A q \in Threads : Live(q)' = Live(q)
  BY <1>2, OthersAt
<1>4. image.narenas >= 1 /\ image.arenas[0].made
  BY <1>1, <1>2 DEF Scripted, Files
<1>5. /\ arenas' \in [{"system", "heap"} -> [Arenas -> ArenaType]]
      /\ narenas' \in [{"system", "heap"} -> 0 .. NArenas]
      /\ memory \in {"system", "heap"}
      /\ arenas'["system"] = arenas["system"] /\ narenas'["system"] = narenas["system"]
      /\ arenas'["heap"] = image.arenas /\ narenas'["heap"] = image.narenas
  BY <1>2 DEF Types, TypeOK, ArenaType
<1>6. Types'
  <2>1. TypeOK'
    BY <1>2, <1>5 DEF Types, TypeOK, ArenaType
  <2> QED
    BY <1>2, <2>1 DEF Types
<1>7. Scripted'
  BY <1>1, <1>2, ScriptMoves
<1>8. Serves'
  <2>1. ServesOf(t)'
    BY <1>1, <1>2, <1>3 DEF ServesOf, At
  <2>2. \A q \in Threads \ {t} : At(q, "init_end") => malloc_initializer' = q /\ ~malloc_initialized'
    BY <1>2 DEF Serves, ServesOf
  <2> QED
    BY <1>2, <2>1, <2>2, ServesMoves
<1>9. Starting'
  <2>1. malloc_initializer # NoThread /\ ~malloc_initialized => At(malloc_initializer, "init_end")'
    <3>1. malloc_initializer # NoThread => malloc_initializer \in Threads
      BY <1>2 DEF Types, TypeOK
    <3>2. malloc_initializer # NoThread /\ ~malloc_initialized => malloc_initializer # t
      BY <1>1, <1>2 DEF Starting, At
    <3> QED
      BY <1>2, <1>3, <3>1, <3>2 DEF Starting
  <2>2. malloc_initializer # NoThread => narenas'[memory] >= 1 /\ Mine'[0].made
    BY <1>2, <1>4, <1>5 DEF Starting, Mine
  <2> QED
    BY <1>2, <1>5, <2>1, <2>2 DEF Starting
<1>10. Opening'
  BY <1>1, <1>2, <1>3 DEF Opening
<1>11. Files'
  BY <1>2, <1>4, <1>5 DEF Files
<1> QED
  BY <1>2, <1>5, <1>6, <1>7, <1>8, <1>9, <1>10, <1>11 DEF Inv, Assigned, Counts, HeapOnly

----------------------------------------------------------------------------
(* Steps that choose, use and leave an arena *)

\* A count goes up by a thread that was not counted.
LEMMA CountUp ==
    ASSUME NEW S, S \subseteq Threads, NEW t \in Threads \ S
    PROVE  (Cardinality(S) + 1) % CountRange = Cardinality(S \union {t})
<1>1. Cardinality(S \union {t}) = Cardinality(S) + 1
  BY HoldersBound, FS_AddElement
<1>2. Cardinality(S \union {t}) \in 0 .. CountRange - 1
  BY HoldersBound, ConstantFacts
<1> QED
  BY <1>1, <1>2, ModFacts

\* A count goes down by a thread that was counted.
LEMMA CountDown ==
    ASSUME NEW S, S \subseteq Threads, NEW t \in S
    PROVE  (Cardinality(S) + (-1)) % CountRange = Cardinality(S \ {t})
<1>1. Cardinality(S \ {t}) = Cardinality(S) - 1 /\ Cardinality(S) \in Nat
  BY HoldersBound, FS_RemoveElement
<1>2. Cardinality(S \ {t}) \in 0 .. CountRange - 1
  BY HoldersBound, ConstantFacts
<1> QED
  BY <1>1, <1>2, ModFacts

\* The arena that choose_arena finds is one of those that may be made.
LEMMA ChosenArena ==
    ASSUME Inv, narenas[memory] >= 1
    PROVE  (IF Empty # {} THEN Min(Empty) ELSE LeastLoaded) \in 0 .. narenas[memory] - 1
<1> DEFINE N == narenas[memory]
<1>1. N \in Nat /\ N <= NArenas /\ Mine \in [Arenas -> ArenaType]
  BY ConstantFacts DEF Inv, Types, TypeOK, Mine, ArenaType
<1>2. CASE Empty # {}
  <2>1. Empty \subseteq Nat /\ Empty \subseteq 0 .. N - 1
    BY <1>1 DEF Empty
  <2> QED
    BY <1>2, <2>1, MinFacts
<1>3. CASE Empty = {}
  <2>1. Made \subseteq 0 .. N - 1 /\ Made # {} /\ Made \subseteq Arenas /\ Made \subseteq Nat
    BY <1>1, <1>3, ConstantFacts DEF Empty, Made, Arenas
  <2> DEFINE Loads == {Mine[j].nthreads : j \in Made}
             S == {i \in Made : \A j \in Made : Mine[i].nthreads <= Mine[j].nthreads}
  <2>2. Loads \subseteq Nat /\ Loads # {}
    <3>1. ASSUME NEW j \in Made PROVE Mine[j].nthreads \in Nat
      <4>1. Mine[j] \in ArenaType
        BY <1>1, <2>1
      <4> QED
        BY <4>1, ConstantFacts DEF ArenaType
    <3> QED
      BY <2>1, <3>1
  <2>3. PICK x \in Loads : \A y \in Loads : x <= y
    <3> HIDE DEF Loads
    <3> QED
      BY <2>2, LeastExists
  <2>4. S # {}
    BY <2>3
  <2>5. S \subseteq Nat /\ S \subseteq 0 .. N - 1
    BY <2>1
  <2>6. Min(S) \in S
    <3> HIDE DEF S
    <3> QED
      BY <2>4, <2>5, MinFacts
  <2> QED
    BY <1>3, <2>5, <2>6 DEF LeastLoaded
<1> QED
  BY <1>2, <1>3

\* What the arenas of a step of t keep.
LEMMA ArenaMoves ==
    ASSUME Inv, NEW t \in Threads, Live(t), calls[t] # << >>,
           Head(calls[t]) \notin {"init", "mopen", "init_end"},
           NEW cs, Legal(cs), Has(cs, "restore") => image.narenas >= 1,
           Has(cs, "mopen_end") => mfd, ServesOf(t)',
           calls' = [calls EXCEPT ![t] = cs],
           NEW b \in [Arenas -> ArenaType], Update(b),
           \A i \in Arenas : Mine[i].made => b[i].made,
           NEW x \in Arenas \union {None}, arena' = [arena EXCEPT ![t] = x],
           malloc_initializer # NoThread,
           UNCHANGED <<narenas, malloc_initialized, malloc_initializer, plib_initialized, mfd,
                       memory, file, image, perm_mtx, life, mallocs, opener, run, restored>>
    PROVE  /\ Types' /\ Scripted' /\ Serves' /\ Starting' /\ Opening' /\ Files' /\ HeapOnly'
           /\ Mine' = b /\ arena'[t] = x /\ \A q \in Threads \ {t} : arena'[q] = arena[q]
<1>1. /\ arenas' \in [{"system", "heap"} -> [Arenas -> ArenaType]]
      /\ Mine' = b
      /\ memory = "heap" => arenas'["system"] = arenas["system"] /\ arenas'["heap"] = b
      /\ memory = "system" => arenas'["heap"] = arenas["heap"] /\ arenas'["system"] = b
  BY UpdateFacts DEF Inv
<1>2. /\ calls'[t] = cs
      /\ \A q \in Threads \ {t} : calls'[q] = calls[q] /\ \A o : At(q, o)' = At(q, o)
      /\ \A q \in Threads : Live(q)' = Live(q)
  BY OthersAt DEF Inv
<1>3. arena'[t] = x /\ \A q \in Threads \ {t} : arena'[q] = arena[q]
  BY DEF Inv, Types, TypeOK
<1>4. Types'
  <2>1. TypeOK'
    BY <1>1 DEF Inv, Types, TypeOK, ArenaType
  <2> QED
    BY <2>1 DEF Inv, Types
<1>5. Scripted'
  BY <1>3, ScriptMoves DEF Inv
<1>6. Serves'
  <2>1. \A q \in Threads \ {t} : At(q, "init_end") => malloc_initializer' = q /\ ~malloc_initialized'
    BY DEF Inv, Serves, ServesOf
  <2> QED
    BY <1>3, <2>1, ServesMoves DEF Inv
<1>7. Starting'
  <2>1. ~malloc_initialized => At(malloc_initializer, "init_end")'
    <3>1. malloc_initializer \in Threads
      BY DEF Inv, Types, TypeOK
    <3>2. ~malloc_initialized => malloc_initializer # t
      BY DEF Inv, Starting, At
    <3> QED
      BY <1>2, <3>1, <3>2 DEF Inv, Starting
  <2>2. Mine'[0].made
    BY <1>1, ConstantFacts DEF Inv, Starting
  <2> QED
    BY <2>1, <2>2 DEF Inv, Starting
<1>8. Opening'
  BY <1>2 DEF Inv, Opening
<1>9. Files'
  <2>1. memory \in {"system", "heap"}
    BY DEF Inv, Types, TypeOK
  <2>2. CASE memory = "heap"
    BY <1>1, <2>2, ConstantFacts DEF Inv, Files, Mine
  <2>3. CASE memory = "system"
    BY <1>1, <2>3 DEF Inv, Files
  <2> QED
    BY <2>1, <2>2, <2>3
<1>10. HeapOnly'
  BY <1>1 DEF Inv, HeapOnly
<1> QED
  BY <1>1, <1>3, <1>4, <1>5, <1>6, <1>7, <1>8, <1>9, <1>10

\* Choose keeps the invariant: one thread more has the arena that is chosen.
LEMMA ChooseStep ==
    ASSUME Inv, NEW t \in Threads, Choose(t)
    PROVE  Inv'
<1> DEFINE rest == Rest(t)
<1>1. /\ At(t, "choose") /\ Live(t) /\ calls[t] # << >> /\ Head(calls[t]) = "choose"
      /\ Legal(rest) /\ rest \in Seq(Ops)
      /\ rest # << >> => Head(rest) \in {"lock", "set_arena"}
      /\ Has(rest, "restore") => image.narenas >= 1
      /\ Has(rest, "mopen_end") => mfd
  BY Returning DEF Choose, Inv, Pairs
<1>2. /\ UNCHANGED <<narenas, malloc_initialized, malloc_initializer, plib_initialized, mfd, memory,
                     file, image, perm_mtx, life, mallocs, opener, run, restored>>
      /\ calls' = [calls EXCEPT ![t] = rest]
      /\ Types /\ Scripted /\ Serves /\ Starting /\ Opening /\ Files /\ Assigned
      /\ Counts /\ HeapOnly
  BY DEF Choose, boot, disk, others, ghosts, Inv, Return, Goto
<1> HIDE DEF rest
<1>3. malloc_initialized /\ malloc_initializer # NoThread /\ narenas[memory] >= 1
  BY <1>1, <1>2 DEF Serves, ServesOf, Starting
<1>4. /\ calls'[t] = rest
      /\ \A q \in Threads \ {t} : calls'[q] = calls[q] /\ \A o : At(q, o)' = At(q, o)
      /\ \A q \in Threads : Live(q)' = Live(q)
  BY <1>2, OthersAt
<1>5. CASE arena[t] # None
  <2>1. UNCHANGED <<arenas, arena>>
    BY <1>5 DEF Choose
  <2>2. Scripted'
    BY <1>1, <1>2, <2>1, ScriptMoves
  <2>3. Serves'
    <3>1. ServesOf(t)'
      BY <1>1, <1>2, <1>3, <1>4, <1>5, <2>1 DEF ServesOf, At
    <3>2. \A q \in Threads \ {t} : At(q, "init_end") => malloc_initializer' = q /\ ~malloc_initialized'
      BY <1>2 DEF Serves, ServesOf
    <3> QED
      BY <1>2, <2>1, <3>1, <3>2, ServesMoves
  <2>4. Starting' /\ Opening'
    BY <1>2, <1>3, <2>1 DEF Starting, Opening, Mine
  <2> QED
    BY <1>2, <1>4, <2>1, <2>2, <2>3, <2>4
       DEF Inv, Types, TypeOK, Files, Assigned, Counts, Holders, Mine, HeapOnly, Live
<1>6. CASE arena[t] = None
  <2> DEFINE i == IF Empty # {} THEN Min(Empty) ELSE LeastLoaded
             b == Plus(i, 1, Extended(i))
  <2>1. i \in 0 .. narenas[memory] - 1 /\ i \in Arenas
    <3>1. i \in 0 .. narenas[memory] - 1
      BY <1>3, ChosenArena
    <3>2. narenas[memory] \in Nat /\ narenas[memory] <= NArenas
      BY <1>2, ConstantFacts DEF Types, TypeOK
    <3> HIDE DEF i
    <3> QED
      BY <3>1, <3>2, ConstantFacts DEF Arenas
  <2>2. Update(b) /\ arena' = [arena EXCEPT ![t] = i]
    BY <1>6 DEF Choose
  <2> HIDE DEF i
  <2>3. /\ Extended(i) \in [Arenas -> ArenaType] /\ Mine \in [Arenas -> ArenaType]
        /\ Extended(i)[i].made
        /\ \A j \in Arenas : /\ j # i => Extended(i)[j] = Mine[j]
                             /\ Mine[j].made => Extended(i)[j].made
        /\ Extended(i)[i] = Mine[i] \/ (~Mine[i].made /\ Extended(i)[i] = NewArena)
    BY <1>2, <2>1, ExtendedFacts DEF Types, TypeOK
  <2>4. /\ b \in [Arenas -> ArenaType]
        /\ b[i].made /\ \A j \in Arenas : Mine[j].made => b[j].made
        /\ \A j \in Arenas : j # i => b[j] = Mine[j]
        /\ b[i].nthreads = (Extended(i)[i].nthreads + 1) % CountRange
    BY <2>1, <2>3, PlusFacts
  <2> HIDE DEF b
  <2>5. ServesOf(t)'
    <3>1. arena'[t] # None
      BY <1>2, <2>1, <2>2, ConstantFacts DEF Types, TypeOK
    <3> QED
      BY <1>1, <1>2, <1>3, <1>4, <3>1 DEF ServesOf, At
  <2>6. /\ Types' /\ Scripted' /\ Serves' /\ Starting' /\ Opening' /\ Files' /\ HeapOnly'
        /\ Mine' = b /\ arena'[t] = i /\ \A q \in Threads \ {t} : arena'[q] = arena[q]
    BY <1>1, <1>2, <1>3, <2>1, <2>2, <2>4, <2>5, ArenaMoves
  <2>7. Assigned'
    BY <1>2, <2>4, <2>6 DEF Assigned, Types, TypeOK
  <2>8. Counts'
    <3> SUFFICES ASSUME ~restored, NEW j \in Arenas
                 PROVE  b[j].nthreads = Cardinality(Holders(j)')
      BY <1>2, <2>6 DEF Counts
    <3>1. Mine[j].nthreads = Cardinality(Holders(j))
      BY <1>2, <1>3 DEF Counts
    <3>2. Holders(j)' = IF j = i THEN Holders(j) \union {t} ELSE Holders(j)
      BY <1>1, <1>4, <1>6, <2>1, <2>6, ConstantFacts DEF Holders
    <3>3. CASE j # i
      BY <2>4, <3>1, <3>2, <3>3
    <3>4. CASE j = i
      <4>1. Extended(i)[i].nthreads = Cardinality(Holders(i))
        <5>1. CASE ~Mine[i].made /\ Extended(i)[i] = NewArena
          <6>1. Holders(i) = {}
            BY <1>2, <2>1, <5>1, ConstantFacts DEF Assigned, Holders
          <6> QED
            BY <5>1, <6>1, FS_EmptySet DEF NewArena
        <5> QED
          BY <2>3, <3>1, <3>4, <5>1
      <4>2. Holders(i) \subseteq Threads /\ t \notin Holders(i)
        BY <1>6, <2>1, ConstantFacts DEF Holders
      <4> QED
        BY <2>4, <3>2, <3>4, <4>1, <4>2, CountUp
    <3> QED
      BY <3>3, <3>4
  <2> QED
    BY <2>6, <2>7, <2>8 DEF Inv
<1> QED
  BY <1>5, <1>6

\* SetArena keeps the invariant: a thread moves from one count to another.
LEMMA SetArenaStep ==
    ASSUME Inv, NEW t \in Threads, SetArena(t)
    PROVE  Inv'
<1> DEFINE rest == Rest(t)
<1>1. /\ At(t, "set_arena") /\ Live(t) /\ calls[t] # << >> /\ Head(calls[t]) = "set_arena"
      /\ Legal(rest) /\ rest \in Seq(Ops) /\ rest = << >>
      /\ Has(rest, "restore") => image.narenas >= 1
      /\ Has(rest, "mopen_end") => mfd
  BY Returning DEF SetArena, Inv, Pairs
<1>2. /\ UNCHANGED <<narenas, malloc_initialized, malloc_initializer, plib_initialized, mfd, memory,
                     file, image, perm_mtx, life, mallocs, opener, run, restored>>
      /\ calls' = [calls EXCEPT ![t] = rest]
      /\ Types /\ Scripted /\ Serves /\ Starting /\ Opening /\ Files /\ Assigned
      /\ Counts /\ HeapOnly
  BY DEF SetArena, boot, disk, others, ghosts, Inv, Return, Goto
<1> HIDE DEF rest
<1>3. malloc_initialized /\ malloc_initializer # NoThread /\ narenas[memory] >= 1
  BY <1>1, <1>2 DEF Serves, ServesOf, Starting
<1>4. /\ calls'[t] = rest
      /\ \A q \in Threads \ {t} : calls'[q] = calls[q] /\ \A o : At(q, o)' = At(q, o)
      /\ \A q \in Threads : Live(q)' = Live(q)
  BY <1>2, OthersAt
<1>5. ServesOf(t)'
  BY <1>1, <1>4 DEF ServesOf, At
<1> DEFINE a == arena[t]
<1>6. a \in Arenas /\ a # None
  BY <1>1, <1>2 DEF Serves, ServesOf, Types, TypeOK
<1>7. PICK i \in 0 .. narenas[memory] - 1 :
          IF i = a THEN UNCHANGED <<arenas, arena>>
          ELSE /\ Update(Plus(i, 1, Plus(a, -1, Extended(i))))
               /\ arena' = [arena EXCEPT ![t] = i]
  BY DEF SetArena
<1>8. i \in Arenas
  BY <1>2, ConstantFacts DEF Types, TypeOK, Arenas
<1>9. CASE i = a
  <2>1. UNCHANGED <<arenas, arena>>
    BY <1>7, <1>9
  <2>2. Scripted'
    BY <1>1, <1>2, <2>1, ScriptMoves
  <2>3. Serves'
    <3>1. \A q \in Threads \ {t} : At(q, "init_end") => malloc_initializer' = q /\ ~malloc_initialized'
      BY <1>2 DEF Serves, ServesOf
    <3> QED
      BY <1>2, <1>5, <2>1, <3>1, ServesMoves
  <2>4. Starting' /\ Opening'
    BY <1>2, <1>3, <2>1 DEF Starting, Opening, Mine
  <2> QED
    BY <1>2, <1>4, <2>1, <2>2, <2>3, <2>4
       DEF Inv, Types, TypeOK, Files, Assigned, Counts, Holders, Mine, HeapOnly, Live
<1>10. CASE i # a
  <2> DEFINE c == Extended(i)
             d == Plus(a, -1, c)
             b == Plus(i, 1, d)
  <2>1. Update(b) /\ arena' = [arena EXCEPT ![t] = i]
    BY <1>7, <1>10
  <2> HIDE DEF a
  <2>2. /\ c \in [Arenas -> ArenaType] /\ Mine \in [Arenas -> ArenaType]
        /\ c[i].made
        /\ \A j \in Arenas : /\ j # i => c[j] = Mine[j]
                             /\ Mine[j].made => c[j].made
        /\ c[i] = Mine[i] \/ (~Mine[i].made /\ c[i] = NewArena)
    BY <1>2, <1>8, ExtendedFacts DEF Types, TypeOK
  <2> HIDE DEF c
  <2>3. /\ d \in [Arenas -> ArenaType]
        /\ \A j \in Arenas : d[j].made = c[j].made
        /\ \A j \in Arenas : j # a => d[j] = c[j]
        /\ d[a].nthreads = (c[a].nthreads + (-1)) % CountRange
    BY <1>6, <2>2, PlusFacts
  <2> HIDE DEF d
  <2>4. /\ b \in [Arenas -> ArenaType]
        /\ b[i].made /\ \A j \in Arenas : Mine[j].made => b[j].made
        /\ \A j \in Arenas : j # i => b[j] = d[j]
        /\ b[i].nthreads = (d[i].nthreads + 1) % CountRange
    <3>1. /\ b \in [Arenas -> ArenaType]
          /\ \A j \in Arenas : b[j].made = d[j].made /\ (j # i => b[j] = d[j])
          /\ b[i].nthreads = (d[i].nthreads + 1) % CountRange
      BY <1>8, <2>3, PlusFacts
    <3> HIDE DEF b
    <3> QED
      BY <1>8, <2>2, <2>3, <3>1
  <2> HIDE DEF b
  <2>5. /\ Types' /\ Scripted' /\ Serves' /\ Starting' /\ Opening' /\ Files' /\ HeapOnly'
        /\ Mine' = b /\ arena'[t] = i /\ \A q \in Threads \ {t} : arena'[q] = arena[q]
    BY <1>1, <1>2, <1>3, <1>5, <1>8, <2>1, <2>4, ArenaMoves
  <2>6. Assigned'
    BY <1>2, <2>4, <2>5 DEF Assigned, Types, TypeOK
  <2>7. Counts'
    <3> SUFFICES ASSUME ~restored, NEW j \in Arenas
                 PROVE  b[j].nthreads = Cardinality(Holders(j)')
      BY <1>2, <2>5 DEF Counts
    <3>1. \A k \in Arenas : Mine[k].nthreads = Cardinality(Holders(k))
      BY <1>2, <1>3 DEF Counts
    <3>2. Holders(j)' = IF j = i THEN Holders(j) \union {t}
                        ELSE IF j = a THEN Holders(j) \ {t} ELSE Holders(j)
      BY <1>1, <1>4, <1>10, <2>5 DEF Holders, a
    <3>3. CASE j # i /\ j # a
      BY <2>2, <2>3, <2>4, <3>1, <3>2, <3>3
    <3>4. CASE j = i
      <4>1. c[i].nthreads = Cardinality(Holders(i))
        <5>1. CASE ~Mine[i].made /\ c[i] = NewArena
          <6>1. Holders(i) = {}
            BY <1>2, <1>8, <5>1, ConstantFacts DEF Assigned, Holders
          <6> QED
            BY <5>1, <6>1, FS_EmptySet DEF NewArena
        <5> QED
          BY <1>8, <2>2, <3>1, <5>1
      <4>2. Holders(i) \subseteq Threads /\ t \notin Holders(i)
        BY <1>10 DEF Holders, a
      <4>3. d[i] = c[i]
        BY <1>8, <1>10, <2>3
      <4> QED
        BY <2>4, <3>2, <3>4, <4>1, <4>2, <4>3, CountUp
    <3>5. CASE j = a /\ j # i
      <4>1. Holders(j) \subseteq Threads /\ t \in Holders(j)
        BY <1>1, <3>5 DEF Holders, a
      <4>2. b[j].nthreads = (Cardinality(Holders(j)) + (-1)) % CountRange
        BY <2>2, <2>3, <2>4, <3>1, <3>5
      <4> QED
        BY <3>2, <3>5, <4>1, <4>2, CountDown
    <3> QED
      BY <3>3, <3>4, <3>5
  <2> QED
    BY <2>5, <2>6, <2>7 DEF Inv
<1> QED
  BY <1>9, <1>10

\* A bin is locked or unlocked.
LEMMA BinStep ==
    ASSUME Inv, NEW t \in Threads, NEW o \in {"lock", "unlock"}, At(t, o),
           NEW who \in Threads \union {NoThread},
           Update([Mine EXCEPT ![arena[t]].bin = who]), Return(t),
           UNCHANGED <<narenas, boot, disk, perm_mtx, arena, others>>
    PROVE  Inv'
<1> DEFINE rest == Rest(t)
           b == [Mine EXCEPT ![arena[t]].bin = who]
<1>1. /\ Live(t) /\ calls[t] # << >> /\ Head(calls[t]) = o
      /\ Legal(rest) /\ rest \in Seq(Ops)
      /\ rest # << >> => Head(rest) \in {"unlock", "mopen"}
      /\ Has(rest, "restore") => image.narenas >= 1
      /\ Has(rest, "mopen_end") => mfd
  BY Returning DEF Inv, Pairs
<1>2. /\ UNCHANGED <<narenas, malloc_initialized, malloc_initializer, plib_initialized, mfd, memory,
                     file, image, perm_mtx, life, mallocs, opener, run, restored, arena>>
      /\ calls' = [calls EXCEPT ![t] = rest]
      /\ Types /\ Scripted /\ Serves /\ Starting /\ Opening /\ Files /\ Assigned
      /\ Counts /\ HeapOnly
  BY DEF boot, disk, others, ghosts, Inv, Return, Goto
<1> HIDE DEF rest
<1>3. malloc_initialized /\ malloc_initializer # NoThread /\ arena[t] \in Arenas /\ arena[t] # None
  BY <1>2 DEF Serves, ServesOf, Starting, Types, TypeOK
<1>4. /\ calls'[t] = rest
      /\ \A q \in Threads \ {t} : calls'[q] = calls[q] /\ \A p \in Ops : At(q, p)' = At(q, p)
      /\ \A q \in Threads : Live(q)' = Live(q)
  BY <1>2, OthersAt
<1>5. ServesOf(t)'
  BY <1>1, <1>2, <1>3, <1>4 DEF ServesOf, At
<1>6. /\ Mine \in [Arenas -> ArenaType] /\ b \in [Arenas -> ArenaType]
      /\ \A j \in Arenas : b[j].made = Mine[j].made /\ b[j].nthreads = Mine[j].nthreads
  <2>1. Mine \in [Arenas -> ArenaType]
    BY <1>2 DEF Types, TypeOK, Mine, ArenaType
  <2> HIDE DEF Mine
  <2> QED
    BY <1>3, <2>1 DEF ArenaType
<1>7. arena' = [arena EXCEPT ![t] = arena[t]]
  BY <1>2 DEF Types, TypeOK
<1> HIDE DEF b
<1>8. Update(b)
  BY DEF b
<1>9. /\ Types' /\ Scripted' /\ Serves' /\ Starting' /\ Opening' /\ Files' /\ HeapOnly'
      /\ Mine' = b
  <2>1. Head(calls[t]) \notin {"init", "mopen", "init_end"}
    BY <1>1
  <2>2. \A i \in Arenas : Mine[i].made => b[i].made
    BY <1>6
  <2> DEFINE x == arena[t]
  <2>3. x \in Arenas \union {None} /\ arena' = [arena EXCEPT ![t] = x]
    BY <1>3, <1>7
  <2> HIDE DEF x
  <2> QED
    BY <1>1, <1>2, <1>3, <1>5, <1>6, <1>8, <2>1, <2>2, <2>3, ArenaMoves
<1>10. Assigned'
  BY <1>2, <1>6, <1>9 DEF Assigned, Types, TypeOK
<1>11. Counts'
  BY <1>2, <1>4, <1>6, <1>9 DEF Counts, Holders
<1> QED
  BY <1>9, <1>10, <1>11 DEF Inv

\* LockBin and UnlockBin keep the invariant.
LEMMA LockStep ==
    ASSUME Inv, NEW t \in Threads, LockBin(t) \/ UnlockBin(t)
    PROVE  Inv'
  BY BinStep DEF LockBin, UnlockBin

----------------------------------------------------------------------------
(* Steps of the program *)

\* The calls of a thread are in a possible order.
LEMMA CallScripts ==
    ASSUME NEW cs \in {AMalloc, AMallctl}
    PROVE  /\ Legal(cs) /\ Head(cs) = "init" /\ cs # << >>
           /\ ~Has(cs, "restore") /\ ~Has(cs, "mopen_end")
<1>1. CASE cs = AMalloc
  BY <1>1 DEF AMalloc, Legal, Has, Ops, Pairs
<1>2. CASE cs = AMallctl
  BY <1>2 DEF AMallctl, Legal, Has, Ops, Pairs
<1> QED
  BY <1>1, <1>2

\* What main does first, and which of it needs a backup.
LEMMA FirstScripts ==
    ASSUME NEW how \in {"mopen", "env"}, NEW backup, NEW cs \in Scripts(how, backup)
    PROVE  /\ Legal(cs) /\ cs # << >> /\ Head(cs) \in {"init", "mopen"}
           /\ ~Has(cs, "mopen_end") /\ (Has(cs, "restore") => backup # NoImage)
<1>1. CASE cs = AMalloc
  BY <1>1, CallScripts
<1>2. CASE cs = <<"mopen">>
  BY <1>2 DEF Legal, Has, Ops, Pairs
<1>3. CASE cs = <<"mopen", "restore">> /\ backup # NoImage
  BY <1>3 DEF Legal, Has, Ops, Pairs
<1>4. CASE cs = AMalloc \o <<"mopen">>
  <2> DEFINE s == <<"mopen">>
  <2>1. /\ AMalloc \in Seq(Ops) /\ Len(AMalloc) = 4 /\ AMalloc[1] = "init"
        /\ AMalloc[2] = "choose" /\ AMalloc[3] = "lock" /\ AMalloc[4] = "unlock"
    BY DEF AMalloc, Ops
  <2>2. s \in Seq(Ops) /\ Len(s) = 1 /\ s[1] = "mopen"
    BY DEF Ops
  <2> HIDE DEF s
  <2>3. cs = AMalloc \o s
    BY <1>4 DEF s
  <2> DEFINE N == Len(AMalloc) + Len(s)
  <2>4. cs \in Seq(Ops) /\ Len(cs) = 5
    <3>1. cs \in Seq(Ops) /\ Len(cs) = N
      BY <2>1, <2>2, <2>3, ConcatProperties
    <3>2. N = 5
      BY <2>1, <2>2
    <3> QED
      BY <3>1, <3>2
  <2>5. cs[1] = "init" /\ cs[2] = "choose" /\ cs[3] = "lock" /\ cs[4] = "unlock" /\ cs[5] = "mopen"
    <3>1. \A k \in 1 .. N : cs[k] = IF k <= Len(AMalloc) THEN AMalloc[k] ELSE s[k - Len(AMalloc)]
      BY <2>1, <2>2, <2>3, ConcatProperties
    <3>2. N = 5
      BY <2>1, <2>2
    <3> HIDE DEF N
    <3> QED
      BY <2>1, <2>2, <3>1, <3>2
  <2>6. ASSUME NEW k \in 1 .. Len(cs) - 1 PROVE <<cs[k], cs[k + 1]>> \in Pairs
    <3>1. k = 1 \/ k = 2 \/ k = 3 \/ k = 4
      BY <2>4
    <3> QED
      BY <2>5, <3>1 DEF Pairs
  <2>7. ASSUME NEW k \in 1 .. Len(cs) PROVE cs[k] \notin {"restore", "mopen_end"}
    <3>1. k = 1 \/ k = 2 \/ k = 3 \/ k = 4 \/ k = 5
      BY <2>4
    <3> QED
      BY <2>5, <3>1
  <2>8. Head(cs) = cs[1] /\ cs # << >>
    BY <2>4
  <2>9. ~Has(cs, "restore") /\ ~Has(cs, "mopen_end")
    BY <2>7 DEF Has
  <2>10. Legal(cs)
    BY <2>4, <2>6 DEF Legal
  <2> QED
    BY <2>5, <2>8, <2>9, <2>10
<1> QED
  BY <1>1, <1>2, <1>3, <1>4 DEF Scripts

\* Malloc keeps the invariant.
LEMMA MallocStep ==
    ASSUME Inv, NEW t \in Threads, Malloc(t)
    PROVE  Inv'
<1>1. PICK cs \in {AMalloc, AMallctl} : calls' = [calls EXCEPT ![t] = cs]
  BY DEF Malloc, Goto
<1>2. /\ Legal(cs) /\ Head(cs) = "init" /\ cs # << >>
      /\ ~Has(cs, "restore") /\ ~Has(cs, "mopen_end")
  BY CallScripts
<1>3. /\ UNCHANGED <<narenas, arenas, malloc_initialized, malloc_initializer, plib_initialized, mfd,
                     memory, file, image, perm_mtx, arena, life, opener, run, restored>>
      /\ Types /\ Scripted /\ Serves /\ Starting /\ Opening /\ Files /\ Assigned
      /\ Counts /\ HeapOnly
      /\ Live(t) /\ calls[t] = << >>
  BY DEF Malloc, Idle, heapVars, boot, disk, ghosts, Inv
<1>4. /\ calls'[t] = cs
      /\ \A q \in Threads \ {t} : calls'[q] = calls[q] /\ \A o : At(q, o)' = At(q, o)
      /\ \A q \in Threads : Live(q)' = Live(q)
  BY <1>1, <1>3, OthersAt
<1>5. Scripted'
  BY <1>1, <1>2, <1>3, ScriptMoves
<1>6. Serves'
  <2>1. ServesOf(t)'
    BY <1>2, <1>4 DEF ServesOf, At
  <2>2. \A q \in Threads \ {t} : At(q, "init_end") => malloc_initializer' = q /\ ~malloc_initialized'
    BY <1>3 DEF Serves, ServesOf
  <2> QED
    BY <1>1, <1>3, <2>1, <2>2, ServesMoves
<1>7. Starting'
  <2>1. malloc_initializer # NoThread /\ ~malloc_initialized => At(malloc_initializer, "init_end")'
    <3>1. malloc_initializer # NoThread => malloc_initializer \in Threads
      BY <1>3 DEF Types, TypeOK
    <3>2. malloc_initializer # NoThread /\ ~malloc_initialized => malloc_initializer # t
      BY <1>3 DEF Starting, At
    <3> QED
      BY <1>3, <1>4, <3>1, <3>2 DEF Starting
  <2> QED
    BY <1>3, <2>1 DEF Starting, Mine
<1>8. Opening'
  BY <1>2, <1>3, <1>4 DEF Opening
<1> QED
  BY <1>3, <1>4, <1>5, <1>6, <1>7, <1>8
     DEF Inv, Types, TypeOK, Files, Assigned, Counts, Holders, Mine, HeapOnly, Live

\* Start keeps the invariant: the new thread has no arena yet.
LEMMA StartStep ==
    ASSUME Inv, NEW t \in Threads, Start(t)
    PROVE  Inv'
<1>1. /\ UNCHANGED <<narenas, arenas, malloc_initialized, malloc_initializer, plib_initialized, mfd,
                     memory, file, image, perm_mtx, arena, calls, opener, run, restored>>
      /\ life[t] = "none" /\ life' = [life EXCEPT ![t] = "live"]
      /\ Types /\ Scripted /\ Serves /\ Starting /\ Opening /\ Files /\ Assigned
      /\ Counts /\ HeapOnly
  BY DEF Start, heapVars, boot, disk, ghosts, Inv
<1>2. /\ life'[t] = "live" /\ ~Live(t) /\ calls[t] = << >> /\ arena[t] = None
      /\ \A q \in Threads \ {t} : Live(q)' = Live(q)
      /\ life' \in [Threads -> {"none", "live", "gone"}]
  BY <1>1 DEF Types, Live, Scripted
<1>3. \A q \in Threads : \A o : At(q, o)' = At(q, o)
  BY <1>1, <1>2 DEF At, Live
<1>4. Scripted'
  BY <1>1, <1>2 DEF Scripted, Legal, Has, Live
<1>5. Serves'
  BY <1>1, <1>3 DEF Serves, ServesOf
<1>6. Starting'
  <2>1. malloc_initializer # NoThread => malloc_initializer \in Threads
    BY <1>1 DEF Types, TypeOK
  <2> QED
    BY <1>1, <1>3, <2>1 DEF Starting, Mine
<1>7. Opening'
  BY <1>1 DEF Opening
<1>8. Counts'
  <2>1. ASSUME NEW i \in Arenas PROVE Holders(i)' = Holders(i)
    <3>1. i # None
      BY ConstantFacts
    <3> QED
      BY <1>1, <1>2, <3>1 DEF Holders, Live
  <2> QED
    BY <1>1, <2>1 DEF Counts, Mine
<1> QED
  BY <1>1, <1>2, <1>4, <1>5, <1>6, <1>7, <1>8
     DEF Inv, Types, TypeOK, Files, Assigned, Mine, HeapOnly

\* Exit keeps the invariant: the thread is no longer counted.
LEMMA ExitStep ==
    ASSUME Inv, NEW t \in Threads, Exit(t)
    PROVE  Inv'
<1>1. /\ UNCHANGED <<narenas, malloc_initialized, malloc_initializer, plib_initialized, mfd,
                     memory, file, image, perm_mtx, calls, opener, run, restored>>
      /\ Live(t) /\ calls[t] = << >>
      /\ life' = [life EXCEPT ![t] = "gone"] /\ arena' = [arena EXCEPT ![t] = None]
      /\ IF arena[t] = None THEN UNCHANGED arenas ELSE Update(Plus(arena[t], -1, Mine))
      /\ Types /\ Scripted /\ Serves /\ Starting /\ Opening /\ Files /\ Assigned
      /\ Counts /\ HeapOnly
  BY DEF Exit, Idle, boot, disk, ghosts, Inv
<1>2. /\ ~Live(t)' /\ arena'[t] = None
      /\ \A q \in Threads \ {t} : Live(q)' = Live(q) /\ arena'[q] = arena[q]
      /\ life' \in [Threads -> {"none", "live", "gone"}]
      /\ arena' \in [Threads -> Arenas \union {None}]
  BY <1>1 DEF Types, TypeOK, Live
<1>3. \A q \in Threads : \A o : At(q, o)' = At(q, o)
  BY <1>1, <1>2 DEF At, Live
<1>4. PICK b \in [Arenas -> ArenaType] :
        /\ arenas' \in [{"system", "heap"} -> [Arenas -> ArenaType]]
        /\ Mine' = b /\ Mine \in [Arenas -> ArenaType]
        /\ \A j \in Arenas : b[j].made = Mine[j].made /\ (j # arena[t] => b[j] = Mine[j])
        /\ arena[t] # None => b[arena[t]].nthreads = (Mine[arena[t]].nthreads + (-1)) % CountRange
        /\ memory = "heap" => arenas'["system"] = arenas["system"] /\ arenas'["heap"] = b
        /\ memory = "system" => arenas'["heap"] = arenas["heap"]
        /\ arena[t] = None => arenas' = arenas
  <2>1. Mine \in [Arenas -> ArenaType] /\ arena[t] \in Arenas \union {None}
    BY <1>1 DEF Types, TypeOK, Mine, ArenaType
  <2>2. CASE arena[t] = None
    BY <1>1, <2>1, <2>2, ConstantFacts DEF Types, TypeOK, Mine, ArenaType
  <2>3. CASE arena[t] # None
    <3> DEFINE b == Plus(arena[t], -1, Mine)
    <3>1. /\ b \in [Arenas -> ArenaType]
          /\ \A j \in Arenas : b[j].made = Mine[j].made /\ (j # arena[t] => b[j] = Mine[j])
          /\ b[arena[t]].nthreads = (Mine[arena[t]].nthreads + (-1)) % CountRange
      BY <2>1, <2>3, PlusFacts
    <3> HIDE DEF b
    <3>2. Update(b)
      BY <1>1, <2>3 DEF b
    <3> QED
      BY <1>1, <2>1, <2>3, <3>1, <3>2, UpdateFacts
  <2> QED
    BY <2>2, <2>3
<1>5. malloc_initializer = NoThread => arena[t] = None
  BY <1>1 DEF Starting
<1>6. Types'
  <2>1. TypeOK'
    BY <1>1, <1>2, <1>4 DEF Types, TypeOK, ArenaType
  <2> QED
    BY <1>1, <1>2, <2>1 DEF Types
<1>7. Scripted'
  BY <1>1, <1>2 DEF Scripted, Legal, Has
<1>8. Serves'
  <2>1. ASSUME NEW q \in Threads PROVE ServesOf(q)'
    <3>1. CASE q = t
      BY <1>1, <1>2, <3>1 DEF ServesOf, At
    <3>2. CASE q # t
      BY <1>1, <1>2, <1>3, <3>2 DEF Serves, ServesOf
    <3> QED
      BY <3>1, <3>2
  <2> QED
    BY <2>1 DEF Serves
<1>9. Starting'
  <2>1. malloc_initializer # NoThread => malloc_initializer \in Threads
    BY <1>1 DEF Types, TypeOK
  <2>2. malloc_initializer = NoThread => \A q \in Threads : arena'[q] = None
    BY <1>1, <1>2 DEF Starting
  <2>3. malloc_initializer # NoThread => narenas'[memory] >= 1 /\ Mine'[0].made
    BY <1>1, <1>4, ConstantFacts DEF Starting
  <2> QED
    BY <1>1, <1>3, <1>4, <1>5, <2>1, <2>2, <2>3 DEF Starting
<1>10. Opening'
  BY <1>1, <1>2 DEF Opening
<1>11. Files'
  <2>1. memory \in {"system", "heap"}
    BY <1>1 DEF Types, TypeOK
  <2>2. CASE memory = "heap"
    BY <1>1, <1>4, <2>2, ConstantFacts DEF Files, Mine
  <2>3. CASE memory = "system"
    BY <1>1, <1>4, <2>3 DEF Files
  <2> QED
    BY <2>1, <2>2, <2>3
<1>12. Assigned'
  BY <1>1, <1>2, <1>4 DEF Assigned, Types, TypeOK
<1>13. Counts'
  <2> SUFFICES ASSUME ~restored, malloc_initializer # NoThread, NEW j \in Arenas
               PROVE  Mine'[j].nthreads = Cardinality(Holders(j)')
    BY <1>1 DEF Counts
  <2>1. Mine[j].nthreads = Cardinality(Holders(j))
    BY <1>1 DEF Counts
  <2>2. Holders(j)' = Holders(j) \ {t}
    BY <1>2 DEF Holders
  <2>3. CASE j = arena[t]
    <3>1. Holders(j) \subseteq Threads /\ t \in Holders(j)
      BY <1>1, <2>3 DEF Holders
    <3>2. arena[t] # None
      BY <2>3, ConstantFacts
    <3>3. Mine'[j].nthreads = (Cardinality(Holders(j)) + (-1)) % CountRange
      BY <1>4, <2>1, <2>3, <3>2
    <3> QED
      BY <2>2, <3>1, <3>3, CountDown
  <2>4. CASE j # arena[t]
    <3>1. Holders(j) \ {t} = Holders(j)
      BY <2>4 DEF Holders
    <3> QED
      BY <1>4, <2>1, <2>2, <2>4, <3>1
  <2> QED
    BY <2>3, <2>4
<1>14. HeapOnly'
  BY <1>1, <1>4 DEF HeapOnly
<1> QED
  BY <1>6, <1>7, <1>8, <1>9, <1>10, <1>11, <1>12, <1>13, <1>14 DEF Inv

\* Backup keeps the invariant: what is saved has an arena.
LEMMA BackupStep ==
    ASSUME Inv, NEW t \in Threads, Backup(t)
    PROVE  Inv'
<1>1. /\ UNCHANGED <<narenas, arenas, malloc_initialized, malloc_initializer, plib_initialized, mfd,
                     memory, file, perm_mtx, arena, calls, life, opener, run, restored>>
      /\ mfd /\ perm_mtx = NoThread
      /\ image' = [narenas |-> narenas["heap"], arenas |-> arenas["heap"]]
      /\ Types /\ Scripted /\ Serves /\ Starting /\ Opening /\ Files /\ Assigned
      /\ Counts /\ HeapOnly
  BY DEF Backup, heapVars, boot, others, ghosts, Inv
<1>2. malloc_initializer # NoThread /\ memory = "heap"
  BY <1>1 DEF Starting, HeapOnly
<1>3. image'.narenas >= 1 /\ image'.arenas[0].made
  BY <1>1, <1>2 DEF Starting, Mine
<1>4. image' \in [narenas : 0 .. NArenas, arenas : [Arenas -> ArenaType]]
  BY <1>1 DEF Types, TypeOK, ArenaType
<1> QED
  BY <1>1, <1>3, <1>4
     DEF Inv, Types, TypeOK, Scripted, Legal, Has, Live, Serves, ServesOf, At, Starting, Opening,
         Files, Assigned, Counts, Holders, Mine, HeapOnly

\* What a dead process leaves in its arenas.
LEMMA LeftFacts ==
    ASSUME NEW a \in [Arenas -> ArenaType]
    PROVE  /\ Left(a) \in [Arenas -> ArenaType]
           /\ \A i \in Arenas : Left(a)[i].made = a[i].made
           /\ a = Nothing => Left(a) = Nothing
<1>1. ASSUME NEW i \in Arenas
      PROVE  /\ [a[i] EXCEPT !.bin = IF @ = NoThread THEN NoThread ELSE Gone] \in ArenaType
             /\ [a[i] EXCEPT !.bin = IF @ = NoThread THEN NoThread ELSE Gone].made = a[i].made
             /\ a[i] = NoArena => [a[i] EXCEPT !.bin = IF @ = NoThread THEN NoThread ELSE Gone] = NoArena
  <2>1. a[i] \in ArenaType
    OBVIOUS
  <2> DEFINE r == [a[i] EXCEPT !.bin = IF @ = NoThread THEN NoThread ELSE Gone]
  <2>2. /\ r \in ArenaType /\ r.made = a[i].made /\ r.nthreads = a[i].nthreads
        /\ r.bin = IF a[i].bin = NoThread THEN NoThread ELSE Gone
    BY <2>1 DEF ArenaType
  <2> HIDE DEF r
  <2>3. r = [made |-> r.made, nthreads |-> r.nthreads, bin |-> r.bin]
    BY <2>2 DEF ArenaType
  <2>4. ASSUME a[i] = NoArena PROVE r = NoArena
    BY <2>2, <2>3, <2>4 DEF NoArena
  <2> QED
    BY <2>2, <2>4 DEF r
<1>2. Left(a) \in [Arenas -> ArenaType] /\ \A i \in Arenas : Left(a)[i].made = a[i].made
  BY <1>1 DEF Left
<1>3. ASSUME a = Nothing PROVE Left(a) = Nothing
  <2>1. \A i \in Arenas : a[i] = NoArena
    BY <1>3 DEF Nothing
  <2> QED
    BY <1>1, <2>1 DEF Left, Nothing
<1> QED
  BY <1>2, <1>3

\* After Crash the invariant holds, whether mopen has raced or not: nobody has an arena in
\* the new process.
LEMMA CrashStep ==
    ASSUME Types, Files, Crash
    PROVE  Inv'
<1>1. PICK script \in Scripts(opener, image) :
          calls' = [t \in Threads |-> IF t = Main THEN script ELSE << >>]
  BY DEF Crash
<1>2. /\ run < MaxRuns /\ run' = run + 1
      /\ arenas' = [system |-> Nothing, heap |-> Left(arenas["heap"])]
      /\ narenas' = [narenas EXCEPT !["system"] = 0]
      /\ image' = [image EXCEPT !.arenas = Left(@)]
      /\ malloc_initialized' = FALSE /\ malloc_initializer' = NoThread
      /\ plib_initialized' = FALSE /\ mfd' = FALSE /\ memory' = "system"
      /\ perm_mtx' = NoThread /\ restored' = FALSE
      /\ arena' = [t \in Threads |-> None]
      /\ life' = [t \in Threads |-> IF t = Main THEN "live" ELSE "none"]
      /\ file' \in {file, "header"} /\ opener' = opener
  BY DEF Crash
<1>3. /\ Legal(script) /\ script # << >> /\ Head(script) \in {"init", "mopen"}
      /\ ~Has(script, "mopen_end") /\ (Has(script, "restore") => image # NoImage)
  BY FirstScripts DEF Types
<1>4. /\ arenas["heap"] \in [Arenas -> ArenaType] /\ image.arenas \in [Arenas -> ArenaType]
      /\ image.narenas \in 0 .. NArenas /\ narenas \in [{"system", "heap"} -> 0 .. NArenas]
      /\ run + 1 \in 0 .. MaxRuns
  BY <1>2, ThreadsAssumption DEF Types, TypeOK, ArenaType
<1>5. /\ image'.narenas = image.narenas /\ image'.arenas = Left(image.arenas)
      /\ image' \in [narenas : 0 .. NArenas, arenas : [Arenas -> ArenaType]]
      /\ image = NoImage => image' = NoImage
  <2>1. image \in [narenas : 0 .. NArenas, arenas : [Arenas -> ArenaType]]
    BY <1>2 DEF Types
  <2>2. Left(image.arenas) \in [Arenas -> ArenaType]
    BY <1>4, LeftFacts
  <2>3. image'.narenas = image.narenas /\ image'.arenas = Left(image.arenas)
        /\ image' \in [narenas : 0 .. NArenas, arenas : [Arenas -> ArenaType]]
    BY <1>2, <2>1, <2>2
  <2>4. ASSUME image = NoImage PROVE image' = NoImage
    <3>1. image.arenas = Nothing /\ image.narenas = 0
      BY <2>4 DEF NoImage
    <3>2. Left(image.arenas) = Nothing
      BY <1>4, <3>1, LeftFacts
    <3>3. image' = [narenas |-> image'.narenas, arenas |-> image'.arenas]
      BY <2>3
    <3> QED
      BY <2>3, <3>1, <3>2, <3>3 DEF NoImage
  <2> QED
    BY <2>3, <2>4
<1>6. Types'
  <2>1. TypeOK'
    <3>1. Left(arenas["heap"]) \in [Arenas -> ArenaType] /\ Nothing \in [Arenas -> ArenaType]
      BY <1>4, LeftFacts, NewArenaType
    <3>2. arenas' \in [{"system", "heap"} -> [Arenas -> ArenaType]]
      BY <1>2, <3>1
    <3>3. narenas' \in [{"system", "heap"} -> 0 .. NArenas]
      BY <1>2, <1>4, ConstantFacts
    <3> QED
      BY <1>2, <1>4, <3>2, <3>3 DEF Types, TypeOK, ArenaType
  <2> QED
    BY <1>2, <1>5, <2>1 DEF Types
<1>7. /\ calls'[Main] = script /\ \A t \in Threads \ {Main} : calls'[t] = << >>
      /\ calls' \in [Threads -> Seq(Ops)]
  BY <1>1, <1>3, ConstantFacts DEF Legal
<1>8. Scripted'
  <2>1. Legal(<< >>) /\ \A o : ~Has(<< >>, o)
    BY DEF Legal, Has
  <2>2. ASSUME NEW t \in Threads
        PROVE  /\ Legal(calls'[t])
               /\ Has(calls'[t], "restore") => image'.narenas >= 1
               /\ Has(calls'[t], "mopen_end") => mfd'
               /\ ~Live(t)' => calls'[t] = << >> /\ arena'[t] = None
    <3>1. CASE t = Main
      BY <1>2, <1>3, <1>5, <1>7, <3>1 DEF Files, Live
    <3>2. CASE t # Main
      BY <1>2, <1>7, <2>1, <3>2 DEF Live
    <3> QED
      BY <3>1, <3>2
  <2>3. \A t \in Threads : Legal(calls'[t]) = Legal(calls[t])' /\ \A o : Has(calls'[t], o) = Has(calls[t], o)'
    BY DEF Legal, Has
  <2> QED
    BY <1>7, <2>2, <2>3 DEF Scripted
<1>9. Serves'
  <2>1. ASSUME NEW t \in Threads, NEW o \in Ops \ {"init", "mopen"} PROVE ~At(t, o)'
    BY <1>3, <1>7 DEF At
  <2> QED
    BY <2>1 DEF Serves, ServesOf, Ops
<1>10. Starting'
  BY <1>2 DEF Starting
<1>11. Opening'
  BY <1>2, <1>3, <1>7 DEF Opening, Live
<1>12. Files'
  <2>1. /\ arenas'["heap"] = Left(arenas["heap"]) /\ narenas'["heap"] = narenas["heap"]
    BY <1>2, <1>4
  <2> QED
    BY <1>2, <1>4, <1>5, <2>1, LeftFacts, ConstantFacts DEF Files
<1>13. Assigned' /\ Counts' /\ HeapOnly'
  BY <1>2 DEF Assigned, Counts, HeapOnly
<1> QED
  BY <1>6, <1>8, <1>9, <1>10, <1>11, <1>12, <1>13 DEF Inv

----------------------------------------------------------------------------
(* The theorems *)

\* The invariant holds at first.
LEMMA InvInit == Init => AllInv
<1> SUFFICES ASSUME Init PROVE Inv
  BY DEF AllInv, Inv
<1>1. PICK script \in Scripts(opener, NoImage) : Begin(script)
  BY DEF Init
<1>2. opener \in {"mopen", "env"}
  BY ThreadsAssumption DEF Init
<1>3. /\ Legal(script) /\ script # << >> /\ Head(script) \in {"init", "mopen"}
      /\ ~Has(script, "mopen_end") /\ ~Has(script, "restore")
  BY <1>2, FirstScripts
<1>4. /\ calls[Main] = script /\ (\A t \in Threads \ {Main} : calls[t] = << >>)
      /\ calls \in [Threads -> Seq(Ops)]
      /\ life = [t \in Threads |-> IF t = Main THEN "live" ELSE "none"]
  BY <1>1, <1>3, ConstantFacts DEF Begin, Legal
<1>5. Types
  <2>1. arenas \in [{"system", "heap"} -> [Arenas -> ArenaType]]
    BY NewArenaType DEF Init
  <2>2. NoImage \in [narenas : 0 .. NArenas, arenas : [Arenas -> ArenaType]]
    BY NewArenaType, ConstantFacts DEF NoImage
  <2>3. TypeOK
    BY <2>1, ConstantFacts, ThreadsAssumption DEF Init, TypeOK, ArenaType
  <2> QED
    BY <1>2, <1>4, <2>2, <2>3 DEF Init, Types
<1>6. Scripted
  <2>1. Legal(<< >>) /\ \A o : ~Has(<< >>, o)
    BY DEF Legal, Has
  <2> QED
    BY <1>3, <1>4, <2>1 DEF Init, Scripted, Live
<1>7. Serves
  <2>1. ASSUME NEW t \in Threads, NEW o \in Ops \ {"init", "mopen"} PROVE ~At(t, o)
    BY <1>3, <1>4 DEF At
  <2> QED
    BY <2>1 DEF Serves, ServesOf, Ops
<1>8. Starting /\ Files /\ Assigned /\ Counts /\ HeapOnly
  BY DEF Init, Starting, Files, Assigned, Counts, HeapOnly, NoImage
<1>9. Opening
  BY <1>3, <1>4 DEF Init, Opening, Live
<1> QED
  BY <1>5, <1>6, <1>7, <1>8, <1>9 DEF Inv

\* Every step keeps the invariant.
LEMMA InvStep == AllInv /\ [Next]_vars => AllInv'
<1> SUFFICES ASSUME AllInv, [Next]_vars PROVE AllInv'
  OBVIOUS
<1>1. Inv' => AllInv'
  BY DEF AllInv, Inv
<1>2. ASSUME NEW t \in Threads, Step(t) PROVE AllInv'
  <2>1. Inv
    BY <1>2 DEF Step, AllInv
  <2>2. CASE Mopen(t) /\ ~mfd /\ Racing
    <3>1. Types' /\ Files'
      BY <2>1, <2>2, MopenRaces DEF Inv
    <3>2. raced'
      BY <2>2 DEF Mopen, TooLate, Racing
    <3> QED
      BY <3>1, <3>2 DEF AllInv
  <2>3. CASE Mopen(t) /\ (mfd \/ ~Racing)
    BY <1>1, <2>1, <2>3, MopenStep
  <2>4. CASE Restore(t)
    BY <1>1, <2>1, <2>4, RestoreStep, RestoreFails
  <2> QED
    BY <1>1, <1>2, <2>1, <2>2, <2>3, <2>4, MallocInitStep, InitLockStep, InitEndStep, SpinStep,
       MopenEndStep, ChooseStep, SetArenaStep, LockStep DEF Step
<1>3. ASSUME NEW t \in Threads, Act(t) PROVE AllInv'
  <2>1. Inv
    BY <1>3 DEF Act, AllInv
  <2> QED
    BY <1>1, <1>3, <2>1, StartStep, MallocStep, ExitStep, BackupStep DEF Act
<1>4. CASE Crash
  BY <1>1, <1>4, CrashStep DEF AllInv
<1>5. CASE UNCHANGED vars
  BY <1>5 DEF vars, heapVars, boot, disk, others, ghosts, AllInv, Inv, Types, TypeOK, Scripted,
              Legal, Has, Live, Serves, ServesOf, At, Starting, Opening, Files, Assigned, Counts,
              Holders, Mine, HeapOnly
<1> QED
  BY <1>2, <1>3, <1>4, <1>5 DEF Next

\* The invariant holds in every reachable state of every instance.
THEOREM ThreadsInv == Spec => []AllInv
  BY InvInit, InvStep, PTL DEF Spec

\* However threads start, initialise malloc together, move and end, and however often the
\* program dies and is started again, an arena's nthreads is the number of its threads
\* until the heap is restored from a backup or mopen races (jemalloc.c, arena.c); nthreads
\* does not wrap.
THEOREM ThreadsCounted == Spec => []Counted
<1>1. AllInv => Counted
  BY DEF AllInv, Inv, Types, Counts, Holders, Counted
<1> QED
  BY <1>1, ThreadsInv, PTL

\* A program that opened the heap, by mopen or by PERM_FNAME, has all arenas in it, and
\* memory that is not persistent has none, whatever threads it had before that, unless
\* one of them was initialising malloc when mopen looked (perma.c:249).
THEOREM ThreadsPersistent == Spec => []Persistent
<1>1. AllInv => Persistent
  BY DEF AllInv, Inv, Persistent
<1> QED
  BY <1>1, ThreadsInv, PTL
=============================================================================
