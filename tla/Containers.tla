------------------------------ MODULE Containers ------------------------------
(***************************************************************************)
(* The containers of the allocator, each driven by its own operations in   *)
(* any order: trees of runs and extents (rb.h), the bitmap of a run        *)
(* (bitmap.h), the tree of chunks (rtree.h) and the table of backtraces    *)
(* (ckh.c).  A behaviour uses one of them.                                 *)
(***************************************************************************)
EXTENDS Integers, Sequences, SequencesExt, FiniteSets

CONSTANTS
    TreeElements,    \* keys of the nodes
    LgGroup, NBits,  \* the bitmap
    PointerBits, KeyBits, BitsPerLevel,          \* the tree of chunks
    LgCells, MinItems, MaxLgBuckets, Hash1, Hash2 \* the table

ASSUME ElementsAssumption == TreeElements \subseteq Nat
ASSUME BitmapAssumption   == LgGroup \in Nat \ {0} /\ NBits \in Nat \ {0}
ASSUME RadixAssumption    == KeyBits \in 1 .. PointerBits /\ BitsPerLevel \in Nat \ {0}
ASSUME CuckooAssumption   == LgCells \in Nat \ {0} /\ MinItems \in Nat \ {0}

Rb    == INSTANCE RbTree
Bmp   == INSTANCE BitmapTree

----------------------------------------------------------------------------
(* The radix tree of rtree.c and rtree.h, in which the allocator looks up whether a chunk *)
(* is its own.  An inner node is known by the subkeys that lead to it; a leaf holds        *)
(* values.                                                                                 *)

\* rtree_new: the root takes what does not fill a level.
Height == KeyBits \div BitsPerLevel + (IF KeyBits % BitsPerLevel = 0 THEN 0 ELSE 1)
level2bits ==
    [i \in 0 .. Height - 1 |->
        IF i = 0 /\ BitsPerLevel * Height > KeyBits THEN KeyBits % BitsPerLevel
                                                    ELSE BitsPerLevel]

RECURSIVE LShift(_)
LShift(i) == IF i = 0 THEN 0 ELSE LShift(i - 1) + level2bits[i - 1]

\* (key << lshift) >> (width - bits), in words of PointerBits bits.
Subkey(key, i) ==
    ((key * 2 ^ LShift(i)) % 2 ^ PointerBits) \div 2 ^ (PointerBits - level2bits[i])

\* The node at level i on the way to key.
Node(key, i) == [j \in 1 .. i |-> Subkey(key, j - 1)]

\* Nodes that exist, and the values at the leaves; 0 is NULL.
EmptyLeaf     == [s \in 0 .. 2 ^ level2bits[Height - 1] - 1 |-> 0]
Fresh(key, i) == IF i = Height - 1 THEN {Node(key, i)} ELSE {}
NoLeaves      == [n \in {} |-> EmptyLeaf]
rtree_new ==
    [nodes |-> {<< >>},
     leaf  |-> IF Height = 1 THEN [n \in {<< >>} |-> EmptyLeaf] ELSE NoLeaves]

rtree_get(rtree, key) ==
    IF Node(key, Height - 1) \in rtree.nodes
      THEN rtree.leaf[Node(key, Height - 1)][Subkey(key, Height - 1)]
      ELSE 0

\* A missing node is allocated on the way; base_alloc may fail (NULL).
WithNode(rtree, key, i) ==
    IF Node(key, i) \in rtree.nodes THEN rtree
    ELSE [nodes |-> rtree.nodes \cup {Node(key, i)},
          leaf  |-> [n \in DOMAIN rtree.leaf \cup Fresh(key, i) |->
                       IF n \in DOMAIN rtree.leaf THEN rtree.leaf[n] ELSE EmptyLeaf]]

RECURSIVE Descend(_, _, _)
Descend(rtree, key, i) ==
    IF i = Height THEN {[failed |-> FALSE, rtree |-> rtree]}
    ELSE Descend(WithNode(rtree, key, i), key, i + 1)
         \cup (IF Node(key, i) \in rtree.nodes THEN {}
               ELSE {[failed |-> TRUE, rtree |-> rtree]})

\* The outcomes of rtree_set.
rtree_set(rtree, key, val) ==
    {IF o.failed THEN o
     ELSE [o EXCEPT !.rtree.leaf[Node(key, Height - 1)][Subkey(key, Height - 1)] = val] :
       o \in Descend(rtree, key, 0)}

----------------------------------------------------------------------------
(* The cuckoo hash tables of ckh.c, in which the profiler keeps its backtraces.  The       *)
(* pseudo-random choices of the code are choices of the model: an operator gives the set   *)
(* of its outcomes.                                                                        *)

NoKey == -1
Cells == 2 ^ LgCells

\* ckh_new: room for the items at a load of three quarters.
MinCells == ((MinItems + (3 - (MinItems % 3))) \div 3) * 4
RECURSIVE LgAtLeast(_, _)
LgAtLeast(lg, n) == IF 2 ^ lg < n THEN LgAtLeast(lg + 1, n) ELSE lg
LgMinBuckets == LgAtLeast(LgCells, MinCells) - LgCells

EmptyTable(lg) ==
    [lg |-> lg, count |-> 0, tab |-> [x \in 0 .. 2 ^ (lg + LgCells) - 1 |-> NoKey]]
ckh_new == EmptyTable(LgMinBuckets)

CellsOf(bucket)   == bucket * Cells .. bucket * Cells + Cells - 1
FreeOf(c, bucket) == {x \in CellsOf(bucket) : c.tab[x] = NoKey}
Bucket1(c, k)     == Hash1[k] % 2 ^ c.lg
Bucket2(c, k)     == Hash2[k] % 2 ^ c.lg

\* ckh_isearch: the cell of a key, none when it is in neither bucket.
NoCell == -1
ckh_bucket_search(c, bucket, k) ==
    LET found == {x \in CellsOf(bucket) : c.tab[x] = k}
    IN IF found = {} THEN NoCell ELSE Min(found)
ckh_isearch(c, k) ==
    LET primary == ckh_bucket_search(c, Bucket1(c, k), k)
    IN IF primary # NoCell THEN primary ELSE ckh_bucket_search(c, Bucket2(c, k), k)

\* The search for a free cell begins anywhere, so any free cell is found.
ckh_try_bucket_insert(c, bucket, k) ==
    {[c EXCEPT !.tab[x] = k, !.count = @ + 1] : x \in FreeOf(c, bucket)}

\* An outcome of trying to insert: the table, and the key left over if any.
In(c)     == [ok |-> TRUE, table |-> c, key |-> NoKey]
Out(c, k) == [ok |-> FALSE, table |-> c, key |-> k]

\* One round of ckh_evict_reloc_insert: key moves into a cell of bucket and
\* the key of that cell looks for its other bucket.
Evicted(e) ==
    {LET k == e.table.tab[x]
         c == [e.table EXCEPT !.tab[x] = e.key]
         b == IF Bucket2(c, k) = e.bucket THEN Bucket1(c, k) ELSE Bucket2(c, k)
     IN [table |-> c, bucket |-> b, key |-> k] : x \in CellsOf(e.bucket)}

\* The rounds go on until a cell is free or the first bucket comes back.
RECURSIVE Relocations(_, _, _)
Relocations(round, seen, argbucket) ==
    LET next  == UNION {Evicted(e) : e \in round}
        cycle == {e \in next : e.bucket = argbucket}
        room  == {e \in next \ cycle : FreeOf(e.table, e.bucket) # {}}
        more  == next \ (cycle \cup room \cup seen)
    IN {Out(e.table, e.key) : e \in cycle}
       \cup UNION {{In(c) : c \in ckh_try_bucket_insert(e.table, e.bucket, e.key)} : e \in room}
       \cup (IF more = {} THEN {} ELSE Relocations(more, seen \cup more, argbucket))

ckh_try_insert(c, k) ==
    IF FreeOf(c, Bucket1(c, k)) # {}
      THEN {In(d) : d \in ckh_try_bucket_insert(c, Bucket1(c, k), k)}
    ELSE IF FreeOf(c, Bucket2(c, k)) # {}
      THEN {In(d) : d \in ckh_try_bucket_insert(c, Bucket2(c, k), k)}
    ELSE Relocations({[table |-> c, bucket |-> Bucket2(c, k), key |-> k]}, {}, Bucket2(c, k))

\* ckh_rebuild: the keys of the old table, cell by cell, into a new one.
RECURSIVE Rebuilt(_, _, _)
Rebuilt(c, old, x) ==
    IF x \notin DOMAIN old.tab THEN {In(c)}
    ELSE IF old.tab[x] = NoKey THEN Rebuilt(c, old, x + 1)
    ELSE UNION {IF o.ok THEN Rebuilt(o.table, old, x + 1) ELSE {o} :
                  o \in ckh_try_insert(c, old.tab[x])}

\* ckh_grow: twice the buckets until everything fits; a table that does not
\* fit is dropped for the old one.
NoMemory(c) == {[ok |-> FALSE, table |-> c]}
RECURSIVE GrowTo(_, _)
GrowTo(c, lg) ==
    LET rebuilt == Rebuilt(EmptyTable(lg), c, 0)
    IN NoMemory(c)
       \cup (IF lg > MaxLgBuckets THEN {}
             ELSE {[ok |-> TRUE, table |-> o.table] : o \in {r \in rebuilt : r.ok}}
                  \cup (IF \E o \in rebuilt : ~o.ok THEN GrowTo(c, lg + 1) ELSE {}))
ckh_grow(c) == GrowTo(c, c.lg + 1)

\* ckh_shrink: half the buckets, or the old table.
ckh_shrink(c) ==
    {c} \cup {o.table : o \in {r \in Rebuilt(EmptyTable(c.lg - 1), c, 0) : r.ok}}

\* ckh_insert: after a failed attempt the key that is left over is inserted
\* in the grown table.  Without memory the call fails with that key outside.
RECURSIVE ckh_insert(_, _)
ckh_insert(c, k) ==
    UNION {IF o.ok THEN {o}
           ELSE UNION {IF g.ok THEN ckh_insert(g.table, o.key) ELSE {Out(g.table, o.key)} :
                         g \in ckh_grow(o.table)} :
             o \in ckh_try_insert(c, k)}

\* ckh_remove: a table less than a quarter full is halved.
ckh_remove(c, k) ==
    LET d == [c EXCEPT !.tab[ckh_isearch(c, k)] = NoKey, !.count = @ - 1]
    IN IF d.count < 2 ^ (d.lg + LgCells - 2) /\ d.lg > LgMinBuckets
         THEN ckh_shrink(d)
         ELSE {d}

\* ckh_iter from the first cell on: the keys, in the order of the calls.
ckh_iter(c) ==
    LET cell(x) == c.tab[x - 1]
    IN SelectSeq([x \in 1 .. 2 ^ (c.lg + LgCells) |-> cell(x)], LAMBDA k : k # NoKey)

----------------------------------------------------------------------------
(* The four containers. *)

VARIABLES
    rep,      \* the container in memory, tagged with its kind
    members,  \* the elements its callers have put in and not taken out
    refused   \* ghost: keys the table has refused, for want of memory, and not taken since

containerVars == <<rep, members, refused>>

\* Every chunk the upper bits can tell apart, by its first address.
ChunkSize == 2 ^ (PointerBits - KeyBits)
Address   == 0 .. 2 ^ PointerBits - 1
Base(a)   == a - (a % ChunkSize)

Elements(kind) ==
    CASE kind = "rb"     -> TreeElements
      [] kind = "bitmap" -> 0 .. NBits - 1
      [] kind = "rtree"  -> {Base(a) : a \in Address}
      [] kind = "ckh"    -> DOMAIN Hash1

Container(kind, data) == [kind |-> kind, data |-> data]

NewContainers ==
    {Container("rb", Rb!Nil), Container("bitmap", Bmp!bitmap_init),
     Container("rtree", rtree_new), Container("ckh", ckh_new)}

ContainersInit == rep \in NewContainers /\ members = {} /\ refused = {}

Holds(data)      == rep' = [rep EXCEPT !.data = data]
Added(data, k)   == Holds(data) /\ members' = members \cup {k} /\ refused' = refused \ {k}
Removed(data, k) == Holds(data) /\ members' = members \ {k} /\ UNCHANGED refused

TreeInsert(k) == rep.kind = "rb" /\ k \notin members /\ Added(Rb!TreeInsert(rep.data, k), k)
TreeRemove(k) == rep.kind = "rb" /\ k \in members /\ Removed(Rb!TreeRemove(rep.data, k), k)

\* arena_run_reg_alloc and arena_run_reg_dalloc.
RunRegAlloc ==
    /\ rep.kind = "bitmap" /\ ~Bmp!bitmap_full(rep.data)
    /\ LET sfu == Bmp!bitmap_sfu(rep.data) IN Added(sfu.bitmap, sfu.bit)
RunRegDalloc(k) ==
    rep.kind = "bitmap" /\ k \in members /\ Removed(Bmp!bitmap_unset(rep.data, k), k)

\* chunk_alloc and chunk_dealloc note the chunk; its own address is the value.
ChunkNoted(k) ==
    /\ rep.kind = "rtree" /\ k \notin members
    /\ \E o \in rtree_set(rep.data, k, k + 1) :
         IF o.failed THEN Holds(o.rtree) /\ UNCHANGED <<members, refused>>
                     ELSE Added(o.rtree, k)
ChunkForgotten(k) ==
    /\ rep.kind = "rtree" /\ k \in members
    /\ \E o \in rtree_set(rep.data, k, 0) : Removed(o.rtree, k)

\* prof_lookup looks for the key first.  When the call fails the caller takes the key
\* for not inserted, whichever key is left outside.
TableInsert(k) ==
    /\ rep.kind = "ckh" /\ ckh_isearch(rep.data, k) = NoCell
    /\ \E o \in ckh_insert(rep.data, k) :
         IF o.ok THEN Added(o.table, k)
                 ELSE Holds(o.table) /\ refused' = refused \cup {k} /\ UNCHANGED members

\* A key that is not found (prof.c asserts that it is) is taken for gone.
TableRemove(k) ==
    /\ rep.kind = "ckh" /\ k \in members
    /\ IF ckh_isearch(rep.data, k) = NoCell THEN Removed(rep.data, k)
       ELSE \E c \in ckh_remove(rep.data, k) : Removed(c, k)

ContainersNext ==
    \/ RunRegAlloc
    \/ \E k \in Elements("rb")     : TreeInsert(k)
    \/ \E k \in Elements("rb")     : TreeRemove(k)
    \/ \E k \in Elements("bitmap") : RunRegDalloc(k)
    \/ \E k \in Elements("rtree")  : ChunkNoted(k)
    \/ \E k \in Elements("rtree")  : ChunkForgotten(k)
    \/ \E k \in Elements("ckh")    : TableInsert(k)
    \/ \E k \in Elements("ckh")    : TableRemove(k)

ContainersSpec == ContainersInit /\ [][ContainersNext]_containerVars

----------------------------------------------------------------------------
(* Properties.  *)

SetOf(s) == {s[x] : x \in DOMAIN s}
Ascending(s) == \A x, y \in DOMAIN s : x < y => s[x] < s[y]
Least(S) == IF S = {} THEN Rb!none ELSE Bmp!Min(S)
Most(S)  == IF S = {} THEN Rb!none ELSE Bmp!Max(S)

SortedTree(t) == Rb!TwoThree(t) /\ ~Rb!Red(t) /\ Rb!TreeKeys(t) = members

\* Each failed insert may leave its key in the table, in the place of one other.
WholeTable(c) ==
    LET keys == SetOf(c.tab) \ {NoKey}
    IN /\ keys \subseteq members \cup refused
       /\ Cardinality(members \ keys) <= Cardinality(keys \ members)
       /\ c.count = Cardinality(keys)
       /\ Cardinality({x \in DOMAIN c.tab : c.tab[x] # NoKey}) = c.count

\* Whatever the order of the calls, a tree, a bitmap and a table hold exactly what was
\* put in and not taken out, once; a red-black tree stays a 2-3 tree, so that paths
\* fit the path array (rb.h:459, 522); a table keeps count while it is grown,
\* shrunk and rebuilt (ckh.c:255-390), and no chunk is taken for another's.  A table
\* that was refused memory may hold the key it refused and miss another for it: no
\* more keys than were refused are missing, and none if none was.
Kept ==
    CASE rep.kind = "rb"     -> SortedTree(rep.data)
      [] rep.kind = "bitmap" -> {b \in 0 .. NBits - 1 : Bmp!bitmap_get(rep.data, b)} = members
      [] rep.kind = "rtree"  ->
           \A a \in Address :
             rtree_get(rep.data, a) = IF Base(a) \in members THEN Base(a) + 1 ELSE 0
      [] rep.kind = "ckh"    -> WholeTable(rep.data)

\* What the assertions of the profiler say of its tables (prof.c:506-508, 665-666): a
\* backtrace that was put in and not taken out is there when it is taken out.
RemoveFinds ==
    rep.kind = "ckh" => \A k \in members : ckh_isearch(rep.data, k) # NoCell

\* Every search of a tree is the search of its set (rb.h:231-307).
TreeSearches(t) ==
    /\ Rb!First(t) = Least(members)
    /\ Rb!Last(t) = Most(members)
    /\ SetOf(Rb!Iter(t)) = members /\ Ascending(Rb!Iter(t))
    /\ Rb!ReverseIter(t) = Reverse(Rb!Iter(t))
    /\ \A k \in TreeElements :
         /\ Rb!Search(t, k) = (IF k \in members THEN k ELSE Rb!none)
         /\ Rb!Nsearch(t, k, Rb!none) = Least({x \in members : x >= k})
         /\ Rb!Psearch(t, k, Rb!none) = Most({x \in members : x <= k})
    /\ \A k \in members :
         /\ Rb!NextNode(t, k) = Least({x \in members : x > k})
         /\ Rb!PrevNode(t, k) = Most({x \in members : x < k})
         /\ SetOf(Rb!IterFrom(t, k)) = {x \in members : x >= k}
         /\ SetOf(Rb!ReverseIterFrom(t, k)) = {x \in members : x <= k}

\* The levels of a bitmap agree: it is full when no region is free, and the
\* search from the root ends at the first free region (bitmap.h:85-171).
BitmapSearches(bitmap) ==
    LET free == (0 .. NBits - 1) \ members
    IN /\ Bmp!bitmap_full(bitmap) <=> free = {}
       /\ free # {} => Bmp!bitmap_sfu(bitmap).bit = Least(free)

\* A key is found wherever evictions and rebuilding have moved it, and only then.
TableSearches(c) ==
    LET keys == SetOf(c.tab) \ {NoKey}
    IN /\ \A k \in DOMAIN Hash1 : ckh_isearch(c, k) # NoCell <=> k \in keys
       /\ SetOf(ckh_iter(c)) = keys

\* A search of a tree or a bitmap gives what the set of members gives, a search of the
\* table finds the keys it holds, in every state that a sequence of calls can reach.
SearchesRight ==
    /\ rep.kind = "rb"     => TreeSearches(rep.data)
    /\ rep.kind = "bitmap" => BitmapSearches(rep.data)
    /\ rep.kind = "ckh"    => TableSearches(rep.data)

============================================================================
