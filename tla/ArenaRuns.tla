------------------------------ MODULE ArenaRuns ------------------------------
(***************************************************************************)
(* The page map of an arena and what arena.c does to it while it holds     *)
(* arena->lock: the runs of pages of a chunk, free and allocated, the two  *)
(* trees of free ones, the spare chunk and the counts of dirty pages.      *)
(* Every operator takes an arena and gives the arena after it.  Pages are  *)
(* counted from the first after the chunk's header; a run is known by its  *)
(* first page.                                                             *)
(***************************************************************************)
EXTENDS Integers, FiniteSetsExt, Sequences, SequencesExt

CONSTANTS
    Chunks, NoChunk,
    NPages,        \* pages of a chunk after its header (arena_maxclass)
    RunPages,      \* pages of a run of small regions (bin_info->run_size)
    SwapEnabled    \* purged pages keep what they held, in a mapped file

ASSUME ArenaAssumption ==
    /\ Chunks \subseteq Nat /\ NoChunk \notin Chunks
    /\ NPages \in Nat \ {0} /\ RunPages \in 1 .. NPages
    /\ SwapEnabled \in BOOLEAN

Pages == 0 .. NPages - 1
Runs  == [chunk : Chunks, page : Pages]

\* map[i].bits: a size in pages and CHUNK_MAP_DIRTY, _UNZEROED, _LARGE and _ALLOCATED.
Free(n, d, u)  == [size |-> n, dirty |-> d, unzeroed |-> u, large |-> FALSE, allocated |-> FALSE]
Large(n, d, u) == [size |-> n, dirty |-> d, unzeroed |-> u, large |-> TRUE, allocated |-> TRUE]
Small(n, d, u) == [size |-> n, dirty |-> d, unzeroed |-> u, large |-> FALSE, allocated |-> TRUE]

NewArena ==
    [map          |-> [c \in Chunks |-> [i \in Pages |-> Free(0, FALSE, FALSE)]],
     clean        |-> {},       \* runs_avail_clean
     dirty        |-> {},       \* runs_avail_dirty
     spare        |-> NoChunk,
     chunks_dirty |-> << >>,
     chunk_ndirty |-> [c \in Chunks |-> 0],
     ndirty       |-> 0,
     nactive      |-> 0,
     npurgatory   |-> 0,
     nonzero      |-> {}]       \* ghost: the pages that are not all zeros

Bits(a, r)     == a.map[r.chunk][r.page]
Shift(r, n)    == [r EXCEPT !.page = @ + n]
Length(a, r)   == IF Bits(a, r).allocated /\ ~Bits(a, r).large THEN RunPages ELSE Bits(a, r).size
PagesOf(r, n)  == {Shift(r, i) : i \in 0 .. n - 1}
Below(r, s)    == r.chunk < s.chunk \/ (r.chunk = s.chunk /\ r.page < s.page)

\* Overwrites the elements of run r's chunk that f gives, f's domain being pages of it.
Mark(a, r, f) == [a EXCEPT !.map[r.chunk] = [i \in Pages |-> IF i \in DOMAIN f THEN f[i] ELSE @[i]]]

\* arena_avail_comp: the smallest run that is large enough, the lowest of these.
BestFit(a, tree, n) ==
    {r \in tree : /\ Bits(a, r).size >= n
                  /\ \A s \in tree \ {r} : Bits(a, s).size >= n =>
                        \/ Bits(a, r).size < Bits(a, s).size
                        \/ Bits(a, r).size = Bits(a, s).size /\ Below(r, s)}

\* What arena_run_alloc takes, if there is any: a dirty run rather than a clean one.
Usable(a, n) ==
    IF BestFit(a, a.dirty, n) # {} THEN BestFit(a, a.dirty, n) ELSE BestFit(a, a.clean, n)

\* arena_run_split: allocates n pages of the free run r and keeps the rest.
Split(a, r, n, large, zero) ==
    LET m     == a.map[r.chunk]
        first == r.page
        last  == first + n - 1
        d     == m[first].dirty
        rem   == m[first].size - n
        past  == last + rem
        Rest  == IF rem = 0 THEN {} ELSE {Shift(r, n)}
        Bit(i) ==
            CASE i \in {last + 1, past} /\ rem > 0 -> Free(rem, d, ~d /\ m[i].unzeroed)
              [] large /\ i = first -> Large(n, d, FALSE)
              [] large /\ i = last -> Large(0, d, FALSE)
              [] ~large /\ i \in first .. last -> Small(i - first, d /\ i \in {first, last}, m[i].unzeroed)
              [] OTHER -> m[i]
        cleared == IF zero THEN {i \in first .. last : d \/ m[i].unzeroed} ELSE {}
    IN [a EXCEPT !.map[r.chunk] = [i \in Pages |-> Bit(i)],
                 !.clean   = IF d THEN @ ELSE (@ \ {r}) \union Rest,
                 !.dirty   = IF d THEN (@ \ {r}) \union Rest ELSE @,
                 !.nactive = @ + n,
                 !.ndirty  = IF d THEN @ - n ELSE @,
                 !.chunk_ndirty[r.chunk] = IF d THEN @ - n ELSE @,
                 !.nonzero = @ \ {[chunk |-> r.chunk, page |-> i] : i \in cleared}]

----------------------------------------------------------------------------
(* Chunks *)

\* A chunk of chunk_alloc becomes one clean run.
AddChunk(a, c, zero) ==
    [a EXCEPT !.map[c] = [i \in Pages |-> Free(IF i \in {0, NPages - 1} THEN NPages ELSE 0, FALSE, ~zero)],
              !.chunk_ndirty[c] = 0,
              !.clean = @ \union {[chunk |-> c, page |-> 0]}]

\* The spare chunk is used again.
UseSpare(a) ==
    LET r == [chunk |-> a.spare, page |-> 0]
    IN  [a EXCEPT !.spare = NoChunk,
                  !.dirty = IF Bits(a, r).dirty THEN @ \union {r} ELSE @,
                  !.clean = IF Bits(a, r).dirty THEN @ ELSE @ \union {r}]

Idle(a, c) == a.map[c][0].size = NPages /\ ~a.map[c][0].allocated

\* mutant: the dirty pages of the old spare stay in the count
Retire_counted(a, c) ==
    LET r == [chunk |-> c, page |-> 0]
    IN  [a EXCEPT !.clean = @ \ {r}, !.dirty = @ \ {r}, !.spare = c,
                  !.chunks_dirty = SelectSeq(@, LAMBDA x : x # a.spare)]

\* arena_chunk_dealloc: c, which is one free run, becomes the spare; the old spare is given
\* back by the caller.
Retire(a, c) ==
    LET r   == [chunk |-> c, page |-> 0]
        old == a.spare
    IN  [a EXCEPT !.clean = @ \ {r}, !.dirty = @ \ {r}, !.spare = c,
                  !.chunks_dirty = SelectSeq(@, LAMBDA x : x # old),
                  !.ndirty = IF old # NoChunk /\ Contains(a.chunks_dirty, old)
                             THEN @ - a.chunk_ndirty[old] ELSE @]

----------------------------------------------------------------------------
(* Deallocation *)

\* mutant: the run before is not joined
PrevPages_none(m, i, d) == 0
\* mutant: the run before is joined whether it is dirty or not
PrevPages_any(m, i, d) == IF i > 0 /\ ~m[i - 1].allocated THEN m[i - 1].size ELSE 0
\* The pages of the free run that ends before page i, if it is as dirty.
PrevPages(m, i, d) ==
    IF i > 0 /\ ~m[i - 1].allocated /\ m[i - 1].dirty = d THEN m[i - 1].size ELSE 0

\* The pages of the free run that begins at page i.
NextPages(m, i, d) ==
    IF i < NPages /\ ~m[i].allocated /\ m[i].dirty = d THEN m[i].size ELSE 0

\* arena_run_dalloc, up to where it may give a chunk back.
Dalloc(a, r, dirty) ==
    LET n     == Length(a, r)
        last  == r.page + n - 1
        d     == dirty \/ Bits(a, r).dirty
        m     == Mark(a, r, [i \in {r.page, last} |-> Free(n, d, ~d /\ a.map[r.chunk][i].unzeroed)]).map[r.chunk]
        next  == NextPages(m, last + 1, d)
        prev  == PrevPages(m, r.page, d)
        ends  == {r.page - prev, last + next}
        apart == {Shift(r, n), Shift(r, 0 - prev)}
        whole == Shift(r, 0 - prev)
        joined == [i \in Pages |-> IF i \in ends THEN [m[i] EXCEPT !.size = prev + n + next] ELSE m[i]]
    IN [a EXCEPT !.map[r.chunk] = joined,
                 !.clean   = IF d THEN @ ELSE (@ \ apart) \union {whole},
                 !.dirty   = IF d THEN (@ \ apart) \union {whole} ELSE @,
                 !.nactive = @ - n,
                 !.ndirty  = IF d THEN @ + n ELSE @,
                 !.chunk_ndirty[r.chunk] = IF d THEN @ + n ELSE @,
                 !.chunks_dirty = IF d /\ ~Contains(@, r.chunk) THEN Append(@, r.chunk) ELSE @]

\* Marks the run r of old pages as two, of n pages and the rest.
Cut(a, r, old, n) ==
    LET m    == a.map[r.chunk]
        d    == m[r.page].dirty
        size == [i \in {r.page, r.page + n - 1, r.page + n, r.page + old - 1} |->
                    CASE i = r.page -> n [] i = r.page + n -> old - n [] OTHER -> 0]
    IN  Mark(a, r, [i \in DOMAIN size |-> Large(size[i], d, m[i].unzeroed)])

----------------------------------------------------------------------------
(* Purging *)

\* Chunks of chunks_dirty without dirty pages are dropped from its head.
DropClean(a) ==
    LET k == {j \in DOMAIN a.chunks_dirty : a.chunk_ndirty[a.chunks_dirty[j]] > 0}
    IN  [a EXCEPT !.chunks_dirty = IF k = {} THEN << >> ELSE SubSeq(@, Min(k), Len(@))]

Reopen(a, c) == IF c = a.spare THEN UseSpare(a) ELSE a

DirtyRuns(a, c) == {r \in a.dirty : r.chunk = c}

\* arena_chunk_purge up to where it unlocks: the dirty runs of c are allocated.
TakeDirty(a, c) ==
    LET runs == DirtyRuns(a, c)
        u    == SwapEnabled
        Bit(i) ==
            LET mine == {r \in runs : i \in r.page .. r.page + Bits(a, r).size - 1}
                r == CHOOSE r \in mine : TRUE
            IN  CASE mine = {} -> a.map[c][i]
                  [] mine # {} /\ i = r.page -> Large(Bits(a, r).size, FALSE, u)
                  [] mine # {} /\ i # r.page /\ i = r.page + Bits(a, r).size - 1 -> Large(0, FALSE, u)
                  [] OTHER -> Free(0, FALSE, u)
    IN [a EXCEPT !.map[c] = [i \in Pages |-> Bit(i)],
                 !.dirty  = @ \ runs,
                 !.nactive = @ + MapThenSumSet(LAMBDA r : Bits(a, r).size, runs),
                 !.ndirty = @ - a.chunk_ndirty[c],
                 !.chunk_ndirty[c] = 0,
                 !.chunks_dirty = SelectSeq(@, LAMBDA x : x # c)]
=============================================================================
