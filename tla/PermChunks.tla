----------------------------- MODULE PermChunks -----------------------------
(***************************************************************************)
(* How malloc gets the chunks of the persistent heap: chunk_swap.c takes   *)
(* them from the mapped file, base.c the nodes that describe them, huge.c  *)
(* the allocations of whole chunks; and how mflush and backup stop all of  *)
(* it (jemalloc_prefork).  Addresses and sizes are in chunks, from         *)
(* swap_base.  The trees swap_chunks_szad and swap_chunks_ad hold the same *)
(* nodes and are changed together: free stands for both.                   *)
(*                                                                         *)
(* calls[t] is what thread t has yet to do.  The effects of a critical     *)
(* section on the trees are one step; the locks it takes while it is in it *)
(* are steps of their own.                                                 *)
(***************************************************************************)
EXTENDS Integers, FiniteSetsExt, Sequences

CONSTANTS
    Threads, NoThread,
    SwapMax,        \* chunks in the file
    NodesPerChunk,  \* nodes base_alloc makes out of a chunk
    Sizes, Aligns,  \* arguments of malloc and posix_memalign
    Prezeroed,      \* what chunk_swap_enable may be told of the file
    MaxOps          \* calls of the program that are considered

ASSUME ChunksAssumption ==
    /\ IsFiniteSet(Threads) /\ NoThread \notin Threads
    /\ SwapMax \in Nat \ {0} /\ NodesPerChunk \in Nat \ {0} /\ MaxOps \in Nat
    /\ Sizes \subseteq Nat \ {0} /\ Aligns \subseteq Nat \ {0, 1}
    /\ Prezeroed \subseteq BOOLEAN

VARIABLES
    swap_end, free, swap_prezeroed,
    base_nodes,     \* how many nodes are on the list of free ones
    base_left,      \* nodes there is room for between base_next_addr and base_past_addr
    base_chunks,    \* chunks base_pages has been
    huge,           \* the tree of huge allocations
    owner,          \* owner[m]: who holds swap_mtx, base_mtx and huge_mtx
    calls, local,   \* of each thread
    dirty,          \* chunks that may not be all zeros
    leaked,         \* ghost: chunks freed that could not be recorded
    nodeless,       \* ghost: there has been no node for an extent
    ops             \* calls of the program so far

swapVars == <<swap_end, free>>
baseVars == <<base_nodes, base_left, base_chunks>>
rest     == <<swap_prezeroed, leaked, nodeless, ops>>
vars     == <<swapVars, baseVars, huge, owner, calls, local, dirty, rest>>

Mutexes == {"swap", "base", "huge"}
NULL    == -1

Extent(a, s) == [addr |-> a, size |-> s]
ChunksOf(e)     == e.addr .. e.addr + e.size - 1

\* A call: what is done, for which chunks.
Call(what, a, s) == [do |-> what, addr |-> a, size |-> s]
Do(what)         == Call(what, NULL, 0)

\* chunk_alloc: recycle a free extent or extend the memory in use.
ChunkAlloc(s) == <<Call("recycle", NULL, s), Call("extend", NULL, s)>>

At(t, what)  == calls[t] # << >> /\ Head(calls[t]).do = what
Arg(t)       == Head(calls[t])
Rest(t)      == Tail(calls[t])
Goto(t, cs)  == calls' = [calls EXCEPT ![t] = cs]
Return(t)    == Goto(t, Rest(t))

Free(m)      == owner[m] = NoThread
Hold(t, m)   == Free(m) /\ owner' = [owner EXCEPT ![m] = t]
Unlock(m)    == owner' = [owner EXCEPT ![m] = NoThread]
Set(t, f, v) == local' = [local EXCEPT ![t][f] = v]

----------------------------------------------------------------------------
(* base.c *)

\* base_node_alloc takes a node from the list or has base_alloc make one.
BaseNodeAlloc(t) ==
    /\ At(t, "base_node_alloc")
    /\ Free("base")
    /\ IF base_nodes > 0
       THEN base_nodes' = base_nodes - 1 /\ Return(t) /\ Set(t, "node", TRUE)
       ELSE Goto(t, <<Do("base_alloc")>> \o Rest(t)) /\ UNCHANGED <<base_nodes, local>>
    /\ UNCHANGED <<swapVars, base_left, base_chunks, huge, owner, dirty, rest>>

\* base_alloc; if the chunk is used up it gets another with base_mtx held.
BaseAlloc(t) ==
    /\ At(t, "base_alloc")
    /\ \/ /\ base_left > 0 /\ Free("base")
          /\ base_left' = base_left - 1
          /\ Return(t) /\ Set(t, "node", TRUE)
          /\ UNCHANGED owner
       \/ /\ base_left = 0 /\ Hold(t, "base")
          /\ Goto(t, ChunkAlloc(1) \o <<Do("base_pages")>> \o Rest(t))
          /\ UNCHANGED <<base_left, local>>
    /\ UNCHANGED <<swapVars, base_nodes, base_chunks, huge, dirty, rest>>

\* Without a chunk there is no node: malloc fails, chunk_dealloc_swap goes on.
BasePages(t) ==
    /\ At(t, "base_pages")
    /\ Unlock("base")
    /\ LET got == local[t].ret
       IN  IF got = NULL
           THEN /\ Set(t, "node", FALSE)
                /\ Goto(t, IF Head(Rest(t)).do = "dealloc2" THEN Rest(t) ELSE << >>)
                /\ UNCHANGED <<base_left, base_chunks, dirty>>
           ELSE /\ Set(t, "node", TRUE) /\ Return(t)
                /\ base_left' = NodesPerChunk - 1
                /\ base_chunks' = base_chunks \union {got}
                /\ dirty' = dirty \union {got}
    /\ UNCHANGED <<swapVars, base_nodes, huge, rest>>

BaseNodeDealloc(t) ==
    /\ At(t, "base_node_dealloc")
    /\ Free("base")
    /\ base_nodes' = base_nodes + 1
    /\ Return(t)
    /\ UNCHANGED <<swapVars, base_left, base_chunks, huge, owner, local, dirty, rest>>

----------------------------------------------------------------------------
(* chunk_swap.c *)

\* swap_mtx is unlocked after so many nodes are given back.
Leave(t, nodes, cs) ==
    IF nodes = 0
    THEN Free("swap") /\ Goto(t, cs) /\ UNCHANGED owner
    ELSE /\ Hold(t, "swap")
         /\ Goto(t, [k \in 1 .. nodes |-> Do("base_node_dealloc")]
                      \o <<Do("unlock_swap")>> \o cs)

UnlockSwap(t) ==
    /\ At(t, "unlock_swap")
    /\ Unlock("swap")
    /\ Return(t)
    /\ UNCHANGED <<swapVars, baseVars, huge, local, dirty, rest>>

\* base_alloc asks for its chunk with zero = false.
WantsZero(t) == local[t].zero /\ owner["base"] # t
Zeroed(t, e) == IF WantsZero(t) THEN dirty \ ChunksOf(e) ELSE dirty

\* The smallest free extent that is large enough, the lowest of them.
BestFit(s) ==
    {e \in free : e.size >= s /\ \A o \in free :
        o.size >= s => e.size < o.size \/ (e.size = o.size /\ e.addr <= o.addr)}

Remainder(e, s) == IF e.size = s THEN {} ELSE {Extent(e.addr + s, e.size - s)}

\* chunk_recycle_swap takes it, and the call that follows, Extend, is not made.
Recycle(t) ==
    LET s == Arg(t).size
    IN  /\ At(t, "recycle")
        /\ \/ /\ Free("swap") /\ BestFit(s) = {}
              /\ Return(t)
              /\ UNCHANGED <<free, owner, local, dirty>>
           \/ \E e \in BestFit(s) :
                /\ free' = (free \ {e}) \union Remainder(e, s)
                /\ dirty' = Zeroed(t, Extent(e.addr, s))
                /\ Set(t, "ret", e.addr)
                /\ Leave(t, IF e.size = s THEN 1 ELSE 0, Tail(Rest(t)))
        /\ UNCHANGED <<swap_end, baseVars, huge, rest>>

\* What extending the memory in use does to its contents (lines 89-92).
Extended(t, e) == IF swap_prezeroed THEN dirty ELSE Zeroed(t, e)

\* The rest of chunk_alloc_swap: chunks after the last in use, or NULL.
Extend(t) ==
    LET s == Arg(t).size
    IN  /\ At(t, "extend")
        /\ Free("swap")
        /\ IF swap_end + s <= SwapMax
           THEN /\ Set(t, "ret", swap_end)
                /\ swap_end' = swap_end + s
                /\ dirty' = Extended(t, Extent(swap_end, s))
           ELSE Set(t, "ret", NULL) /\ UNCHANGED <<swap_end, dirty>>
        /\ Return(t)
        /\ UNCHANGED <<free, baseVars, huge, owner, rest>>

\* The free extents next to e.
After(e)  == {o \in free : o.addr = e.addr + e.size}
Before(e) == {o \in free : o.addr + o.size = e.addr}

\* mutant: the extent before is not looked for
Neighbours_after(e) == After(e)
Neighbours(e) == After(e) \union Before(e)

\* mutant: only the chunk that was freed last is taken off
NewEnd_chunk(e, whole) == swap_end - e.size
NewEnd(e, whole) == whole.addr

\* chunk_dealloc_swap when e is recorded: it is joined with its neighbours, and what is
\* then at the end of the memory in use is not in use any more.  nodes: how many the
\* thread has for e, beside those of the neighbours.
Recorded(t, e, nodes, cs) ==
    LET parts == Neighbours(e) \union {e}
        first == Min({o.addr : o \in parts})
        whole == Extent(first, Max({o.addr + o.size : o \in parts}) - first)
        spare == nodes + Cardinality(Neighbours(e))
    IN  IF whole.addr + whole.size = swap_end
        THEN /\ swap_end' = NewEnd(e, whole)
             /\ free' = free \ parts
             /\ Leave(t, spare, cs)
        ELSE /\ swap_end' = swap_end
             /\ free' = (free \ parts) \union {whole}
             /\ Leave(t, spare - 1, cs)

\* chunk_dealloc_swap when there is no node for e.
Unrecorded(t, e, cs) ==
    /\ IF e.addr + e.size = swap_end
       THEN swap_end' = e.addr /\ UNCHANGED leaked
       ELSE leaked' = leaked \union ChunksOf(e) /\ UNCHANGED swap_end
    /\ nodeless' = TRUE
    /\ UNCHANGED free
    /\ Leave(t, 0, cs)

\* chunk_dealloc_swap uses the node of the extent after, or unlocks swap_mtx to get one.
Dealloc(t) ==
    LET e == Extent(Arg(t).addr, Arg(t).size)
    IN  /\ At(t, "dealloc")
        /\ IF After(e) # {} THEN Recorded(t, e, 0, Rest(t))
           ELSE /\ Free("swap")
                /\ Goto(t, <<Do("base_node_alloc"), Call("dealloc2", e.addr, e.size)>> \o Rest(t))
                /\ UNCHANGED <<swapVars, owner>>
        /\ UNCHANGED <<baseVars, huge, local, dirty, rest>>

\* mutant: a node that is not needed is forgotten
DeallocWithNode_forget(t) ==
    LET e == Extent(Arg(t).addr, Arg(t).size)
    IN  /\ At(t, "dealloc2")
        /\ IF local[t].node
           THEN Recorded(t, e, IF After(e) = {} THEN 1 ELSE 0, Rest(t)) /\ UNCHANGED <<leaked, nodeless>>
           ELSE Unrecorded(t, e, Rest(t))
        /\ UNCHANGED <<baseVars, huge, local, dirty, swap_prezeroed, ops>>

\* With the node it looks again for the extent after.
DeallocWithNode(t) ==
    LET e == Extent(Arg(t).addr, Arg(t).size)
    IN  /\ At(t, "dealloc2")
        /\ IF local[t].node THEN Recorded(t, e, 1, Rest(t)) /\ UNCHANGED <<leaked, nodeless>>
           ELSE Unrecorded(t, e, Rest(t))
        /\ UNCHANGED <<baseVars, huge, local, dirty, swap_prezeroed, ops>>

----------------------------------------------------------------------------
(* huge.c, and jemalloc_prefork as mflush and backup call it *)

Begin(t, zero, cs) ==
    /\ calls[t] = << >> /\ ops < MaxOps
    /\ ops' = ops + 1
    /\ Goto(t, cs)
    /\ local' = [local EXCEPT ![t].zero = zero, ![t].ret = NULL]

\* What is asked of chunk_alloc for s chunks.
AllocSize(s, align) == IF s >= align THEN s + align - 1 ELSE 2 * align - 1

\* huge_malloc of s chunks, huge_palloc when they are to be aligned.
HugeMalloc(t, s, align, zero) ==
    /\ Begin(t, zero, <<Do("base_node_alloc")>> \o ChunkAlloc(AllocSize(s, align))
                      \o <<Call("trim", align, s)>>)
    /\ UNCHANGED <<swapVars, baseVars, huge, owner, dirty, swap_prezeroed, leaked, nodeless>>

\* What is not aligned and what is too much is given back.
Trim(t) ==
    LET s     == Arg(t).size
        align == Arg(t).addr
        ret   == local[t].ret
        lead  == (align - (ret % align)) % align
        trail == AllocSize(s, align) - lead - s
        Piece(a, k) == IF k = 0 THEN << >> ELSE <<Call("dealloc", a, k)>>
    IN  /\ At(t, "trim")
        /\ Goto(t, IF ret = NULL THEN <<Do("base_node_dealloc")>>
                   ELSE Piece(ret, lead) \o Piece(ret + lead + s, trail)
                        \o <<Call("insert", ret + lead, s)>>)
        /\ UNCHANGED <<swapVars, baseVars, huge, owner, local, dirty, rest>>

Insert(t) ==
    /\ At(t, "insert")
    /\ Free("huge")
    /\ huge' = huge \union {Extent(Arg(t).addr, Arg(t).size)}
    /\ Return(t)
    /\ UNCHANGED <<swapVars, baseVars, owner, local, dirty, rest>>

\* The program has written to what it frees.
HugeDalloc(t, e) ==
    /\ e \in huge
    /\ Free("huge")
    /\ Begin(t, FALSE, <<Call("dealloc", e.addr, e.size), Do("base_node_dealloc")>>)
    /\ huge' = huge \ {e}
    /\ dirty' = dirty \union ChunksOf(e)
    /\ UNCHANGED <<swapVars, baseVars, owner, swap_prezeroed, leaked, nodeless>>

LockCall == [base |-> "lock_base", huge |-> "lock_huge", swap |-> "lock_swap"]

\* mflush and backup hold all mutexes while they copy the heap.
Prefork(t) ==
    /\ Begin(t, FALSE, <<Do("lock_base"), Do("lock_huge"), Do("lock_swap"), Do("postfork")>>)
    /\ UNCHANGED <<swapVars, baseVars, huge, owner, dirty, swap_prezeroed, leaked, nodeless>>

Lock(t) ==
    /\ \E m \in Mutexes : At(t, LockCall[m]) /\ Hold(t, m)
    /\ Return(t)
    /\ UNCHANGED <<swapVars, baseVars, huge, local, dirty, rest>>

Postfork(t) ==
    /\ At(t, "postfork")
    /\ owner' = [m \in Mutexes |-> NoThread]
    /\ Return(t)
    /\ UNCHANGED <<swapVars, baseVars, huge, local, dirty, rest>>

----------------------------------------------------------------------------

\* mopen has enabled the file, and base_alloc has taken the first chunk for its header.
Init ==
    /\ swap_end = 1 /\ free = {}
    /\ swap_prezeroed \in Prezeroed
    /\ base_nodes = 0 /\ base_left = NodesPerChunk /\ base_chunks = {0}
    /\ huge = {}
    /\ owner = [m \in Mutexes |-> NoThread]
    /\ calls = [t \in Threads |-> << >>]
    /\ local = [t \in Threads |-> [ret |-> NULL, node |-> FALSE, zero |-> FALSE]]
    /\ dirty = {0} \union (IF swap_prezeroed THEN {} ELSE 1 .. SwapMax - 1)
    /\ leaked = {} /\ nodeless = FALSE
    /\ ops = 0

Step(t) ==
    \/ BaseNodeAlloc(t) \/ BaseAlloc(t) \/ BasePages(t) \/ BaseNodeDealloc(t)
    \/ UnlockSwap(t) \/ Recycle(t) \/ Extend(t) \/ Dealloc(t) \/ DeallocWithNode(t)
    \/ Trim(t) \/ Insert(t) \/ Lock(t) \/ Postfork(t)

Program(t) ==
    \/ \E s \in Sizes, align \in Aligns \union {1}, zero \in BOOLEAN :
          HugeMalloc(t, s, align, zero)
    \/ \E e \in huge : HugeDalloc(t, e)
    \/ Prefork(t)

Next == \E t \in Threads : Step(t) \/ Program(t)

Spec == Init /\ [][Next]_vars

(* ------------------------------ properties ---------------------------- *)

Extents == [addr : 0 .. SwapMax - 1, size : 1 .. SwapMax]

\* Types of the state of chunk_swap.c, base.c and huge.c.
TypeOK ==
    /\ swap_end \in 0 .. SwapMax
    /\ free \subseteq Extents /\ huge \subseteq Extents
    /\ base_nodes \in Nat /\ base_left \in 0 .. NodesPerChunk
    /\ owner \in [Mutexes -> Threads \union {NoThread}]
    /\ dirty \union leaked \union base_chunks \subseteq 0 .. SwapMax - 1
    /\ ops \in 0 .. MaxOps

Named(c)   == c.do \in {"dealloc", "dealloc2", "insert"}
User(c)    == c.do \in {"trim", "base_pages"}
Passive(c) == c.do \in {"base_node_dealloc", "unlock_swap"}
Taken(c)   == IF c.do = "trim" THEN AllocSize(c.size, c.addr) ELSE 1

\* What a thread has that is to make the calls s: the extents they name, and at ret those
\* that have been taken for the call that comes when the mutexes are unlocked.
Claims(s, ret) ==
    {k \in DOMAIN s : \/ Named(s[k])
                      \/ User(s[k]) /\ ret # NULL /\ \A j \in 1 .. k - 1 : Passive(s[j])}
Claim(s, ret, k) ==
    IF Named(s[k]) THEN Extent(s[k].addr, s[k].size) ELSE Extent(ret, Taken(s[k]))
HandOf(s, ret) == {Claim(s, ret, k) : k \in Claims(s, ret)}
InHand(t)      == HandOf(calls[t], local[t].ret)

\* The extents below swap_end, each with who has it.
Pieces ==
    LET Piece(what, t, e) == [in |-> what, by |-> t, extent |-> e]
    IN  {Piece("free", NoThread, e) : e \in free} \union {Piece("huge", NoThread, e) : e \in huge}
        \union {Piece("base", NoThread, Extent(c, 1)) : c \in base_chunks}
        \union {Piece("leaked", NoThread, Extent(c, 1)) : c \in leaked}
        \union UNION {{Piece("hand", t, e) : e \in InHand(t)} : t \in Threads}

\* Nodes thread t has taken or is to give back.
NodesInHand(t) ==
    LET Count(what) == Cardinality({k \in DOMAIN calls[t] : calls[t][k].do \in what})
    IN  Count({"base_node_dealloc", "trim", "insert"})
        + (IF local[t].node \/ Count({"base_node_alloc", "base_alloc", "base_pages"}) > 0
           THEN Count({"dealloc2"}) ELSE 0)
        - Count({"base_node_alloc", "base_alloc", "base_pages"})

\* Every chunk in use has one owner: it is free, allocated, a base chunk, or in the hand
\* of one thread; also while swap_mtx is unlocked to get a node (chunk_swap.c:131).
ChunksKept ==
    /\ TypeOK
    /\ UNION {ChunksOf(p.extent) : p \in Pieces} = 0 .. swap_end - 1
    /\ \A p, q \in Pieces : p # q => ChunksOf(p.extent) \intersect ChunksOf(q.extent) = {}

\* Free extents are joined, and none is left at the end of the memory in use if there has
\* always been a node for what was freed.
Joined ==
    \A e \in free : After(e) = {} /\ (e.addr + e.size = swap_end => nodeless)

\* Every node base_alloc has made is in one place: on the list, in a tree or in a
\* thread's hand.
NodesKept ==
    NodesPerChunk * Cardinality(base_chunks) - base_left =
        base_nodes + Cardinality(free) + Cardinality(huge)
        + MapThenSumSet(NodesInHand, Threads)

\* jemalloc.xml.in:175: what calloc returns "is explicitly initialized to zero", also where
\* the file is said to be zero (chunk_swap.c:89) and its end has been in use before
\* (chunk_swap.c:216).
Zeros(t) ==
    At(t, "insert") /\ local[t].zero =>
        dirty \intersect ChunksOf(Extent(Arg(t).addr, Arg(t).size)) = {}

CallocZero == \A t \in Threads : Zeros(t)

\* jemalloc.c:1876: "Acquire all mutexes in a safe order."  The mutex a call needs next:
Needs(t) ==
    LET what == Head(calls[t]).do
    IN  CASE what \in {"base_node_alloc", "base_alloc", "base_node_dealloc", "lock_base"} -> "base"
          [] what \in {"insert", "lock_huge"} -> "huge"
          [] what \in {"recycle", "extend", "dealloc", "dealloc2", "lock_swap"} -> "swap"
          [] OTHER -> "none"

NoDeadlock ==
    \A set \in SUBSET Threads \ {{}} :
        ~ \A t \in set : /\ calls[t] # << >> /\ Needs(t) # "none"
                          /\ owner[Needs(t)] \in set
=============================================================================
