-------------------------------- MODULE Arena --------------------------------
(***************************************************************************)
(* malloc, calloc, posix_memalign, realloc and free of the persistent heap *)
(* below the size of a chunk (arena.c), by threads that share an arena.    *)
(*                                                                         *)
(* calls[t] is what thread t has yet to do, a call of arena.c each; the    *)
(* calls in ArenaCalls are made with arena->lock held, and the lock is     *)
(* kept from one of them to the next.  bin->lock is never held across      *)
(* another call, so that a call under it is one step.  The arena has one   *)
(* bin of small regions.  Chunks come from and go to PermChunks.           *)
(***************************************************************************)
EXTENDS ArenaRuns

CONSTANTS
    Threads, NoThread,
    NRegs,         \* regions of a small run (bin_info->nregs)
    MapBias,       \* pages of a chunk's header
    LgDirtyMult,   \* opt_lg_dirty_mult
    SizeT,         \* values of a size_t
    Aligns,        \* alignments of posix_memalign, in pages
    Programs       \* which calls the program makes, and how many are considered

ASSUME ProgramAssumption ==
    /\ NRegs \in Nat \ {0} /\ MapBias \in Nat /\ LgDirtyMult \in Nat /\ Aligns \subseteq Nat \ {0, 1}
    /\ SizeT > 4 * NPages * Cardinality(Chunks)

Regs == 0 .. NRegs - 1

VARIABLES
    arena,
    pool,        \* chunks the arena does not have
    bin,         \* runcur and the tree runs, of runs that are not full
    header,      \* of the bin's runs: the bitmap (regions in use) and nextind
    lock,        \* who holds arena->lock
    calls, local,
    objects,     \* what the program has: runs and regions
    program, ops

arenaVars == <<arena, pool, bin, header, lock, calls, local, objects, program, ops>>

NoRun  == [chunk |-> NoChunk, page |-> 0]
Nil    == [run |-> NoRun, n |-> 0, zero |-> FALSE]
Kinds  == {"large", "calloc", "memalign", "realloc", "small", "free", "purge"}

Call(what, r, n, flag) == [do |-> what, run |-> r, n |-> n, flag |-> flag]
Do(what)               == Call(what, NoRun, 0, FALSE)

ArenaCalls ==
    {"run_alloc", "run_alloc2", "bin_run_init", "palloc", "trim_tail", "run_dalloc", "bin_run_dalloc",
     "maybe_purge", "purge_all", "purge", "grow"}

At(t, what)  == calls[t] # << >> /\ Head(calls[t]).do = what
Locked(t, what) == At(t, what) /\ lock \in {NoThread, t}
Arg(t)       == Head(calls[t])
Rest(t)      == Tail(calls[t])

\* The thread goes on with cs; it keeps the lock if the next call is made under it.
Goto(t, cs) ==
    /\ calls' = [calls EXCEPT ![t] = cs]
    /\ lock' = IF cs # << >> /\ Head(cs).do \in ArenaCalls THEN t ELSE NoThread
Release(t, cs) ==
    /\ calls' = [calls EXCEPT ![t] = cs]
    /\ lock' = IF lock = t THEN NoThread ELSE lock
Ret(t, r)       == local' = [local EXCEPT ![t].run = r]

----------------------------------------------------------------------------
(* Runs *)

\* arena_run_alloc: a free run, or the spare chunk, or a new chunk without the lock.
RunAlloc(t) ==
    LET n == Arg(t).n
        large == Arg(t).flag
        Take(a, r) == arena' = Split(a, r, n, large, local[t].zero) /\ Ret(t, r)
    IN  /\ Locked(t, "run_alloc")
        /\ \/ \E r \in Usable(arena, n) : Take(arena, r) /\ Goto(t, Rest(t))
           \/ /\ Usable(arena, n) = {} /\ arena.spare # NoChunk
              /\ Take(UseSpare(arena), [chunk |-> arena.spare, page |-> 0])
              /\ Goto(t, Rest(t))
           \/ /\ Usable(arena, n) = {} /\ arena.spare = NoChunk
              /\ Goto(t, <<Do("chunk_alloc"), Call("run_alloc2", NoRun, n, large)>> \o Rest(t))
              /\ UNCHANGED <<arena, local>>
        /\ UNCHANGED <<pool, bin, header, objects, program, ops>>

ChunkAlloc(t) ==
    /\ At(t, "chunk_alloc")
    /\ IF pool = {} THEN Ret(t, NoRun) /\ UNCHANGED pool
       ELSE \E c \in pool : Ret(t, [chunk |-> c, page |-> 0]) /\ pool' = pool \ {c}
    /\ Release(t, Rest(t))
    /\ UNCHANGED <<arena, bin, header, objects, program, ops>>

\* The rest of arena_run_alloc.  A chunk that was used before comes from the free extents of
\* PermChunks, and is not taken to be zeroed.
RunAlloc2(t) ==
    LET got == local[t].run
        a   == IF got = NoRun THEN arena
               ELSE AddChunk(arena, got.chunk, {q \in arena.nonzero : q.chunk = got.chunk} = {})
        fit == IF got = NoRun THEN Usable(a, Arg(t).n) ELSE {got}
    IN  /\ Locked(t, "run_alloc2")
        /\ IF fit = {} THEN Ret(t, NoRun) /\ UNCHANGED arena
           ELSE \E r \in fit :
                  Ret(t, r) /\ arena' = Split(a, r, Arg(t).n, Arg(t).flag, local[t].zero)
        /\ Goto(t, Rest(t))
        /\ UNCHANGED <<pool, bin, header, objects, program, ops>>

\* arena_run_dalloc.
RunDalloc(t) ==
    LET r    == Arg(t).run
        a    == Dalloc(arena, r, Arg(t).flag)
        d    == Arg(t).flag \/ Bits(arena, r).dirty
        full == Idle(a, r.chunk)
        back == IF full /\ a.spare # NoChunk
                THEN <<Call("chunk_dealloc", [chunk |-> a.spare, page |-> 0], 0, FALSE)>> ELSE << >>
    IN  /\ Locked(t, "run_dalloc")
        /\ arena' = IF full THEN Retire(a, r.chunk) ELSE a
        /\ Goto(t, back \o (IF d THEN <<Do("maybe_purge")>> ELSE << >>) \o Rest(t))
        /\ UNCHANGED <<pool, bin, header, local, objects, program, ops>>

ChunkDealloc(t) ==
    /\ At(t, "chunk_dealloc")
    /\ pool' = pool \union {Arg(t).run.chunk}
    /\ Release(t, Rest(t))
    /\ UNCHANGED <<arena, bin, header, local, objects, program, ops>>

\* arena_run_trim_tail: the run keeps its first n pages.
TrimTail(t) ==
    LET r == Arg(t).run
    IN  /\ Locked(t, "trim_tail")
        /\ arena' = Cut(arena, r, Length(arena, r), Arg(t).n)
        /\ Goto(t, <<Call("run_dalloc", Shift(r, Arg(t).n), 0, Arg(t).flag)>> \o Rest(t))
        /\ UNCHANGED <<pool, bin, header, local, objects, program, ops>>

----------------------------------------------------------------------------
(* Purging dirty pages *)

Unclaimed(a) == a.ndirty - a.npurgatory

\* arena_maybe_purge, and arena_purge up to its loop.
MaybePurge(t) ==
    LET goal == Unclaimed(arena) - arena.nactive \div 2 ^ LgDirtyMult
    IN  /\ Locked(t, "maybe_purge")
        /\ IF Unclaimed(arena) > NPages + MapBias /\ goal > 0
           THEN /\ arena' = [arena EXCEPT !.npurgatory = @ + goal]
                /\ Goto(t, <<Call("purge", NoRun, goal, FALSE)>> \o Rest(t))
           ELSE Goto(t, Rest(t)) /\ UNCHANGED arena
        /\ UNCHANGED <<pool, bin, header, local, objects, program, ops>>

\* arena_purge_all.  If others have claimed pages that are no longer dirty, the difference
\* is negative and wraps around: the loop then ends when no chunk has dirty pages.
PurgeAll(t) ==
    /\ Locked(t, "purge_all")
    /\ arena' = [arena EXCEPT !.npurgatory = arena.ndirty]
    /\ Goto(t, <<Call("purge", NoRun, Unclaimed(arena) % SizeT, FALSE)>> \o Rest(t))
    /\ UNCHANGED <<pool, bin, header, local, objects, program, ops>>

\* n pages less are claimed.
GiveUp(a, n) == [a EXCEPT !.npurgatory = (@ - n) % SizeT]

\* The runs of set in the order of their pages.
InOrder(set) == SetToSortSeq(set, LAMBDA r, s : r.page < s.page)

\* The loop of arena_purge: n pages are still to be purged.  The runs of the next chunk are
\* allocated while the lock is released for madvise, and then deallocated.
Purge(t) ==
    LET n == Arg(t).n
        a == DropClean(arena)
        c == Head(a.chunks_dirty)
        k == a.chunk_ndirty[c]
        left == IF k > n THEN 0 ELSE n - k
        open == Reopen(a, c)
        runs == InOrder(DirtyRuns(open, c))
    IN  /\ Locked(t, "purge")
        /\ \/ n = 0 /\ Goto(t, Rest(t)) /\ UNCHANGED arena
           \/ n > 0 /\ a.chunks_dirty = << >> /\ Goto(t, Rest(t)) /\ arena' = GiveUp(a, n)
           \/ /\ n > 0 /\ a.chunks_dirty # << >>
              /\ arena' = GiveUp(TakeDirty(open, c), n - left)
              /\ Goto(t, <<Do("madvise")>>
                         \o [j \in DOMAIN runs |-> Call("run_dalloc", runs[j], 0, FALSE)]
                         \o <<Call("purge", NoRun, left, FALSE)>> \o Rest(t))
        /\ UNCHANGED <<pool, bin, header, local, objects, program, ops>>

\* madvise(MADV_DONTNEED) lets go of the pages, which keep their contents in the file.
Madvise(t) ==
    /\ At(t, "madvise")
    /\ Release(t, Rest(t))
    /\ UNCHANGED <<arena, pool, bin, header, local, objects, program, ops>>

----------------------------------------------------------------------------
(* Small regions *)

NFree(h, r)     == Cardinality(Regs \ h[r].used)
Lowest(set) == {r \in set : \A s \in set \ {r} : Below(r, s)}

\* The pages of a run up to the end of its first k regions; the header is on the first.
PagesFor(k) == Max({1, (k * RunPages + NRegs - 1) \div NRegs})

\* arena_run_reg_alloc: the first region that is free.
RegAlloc(t, r) ==
    LET reg == Min(Regs \ header[r].used)
    IN  /\ header' = [header EXCEPT ![r].used = @ \union {reg},
                                    ![r].next = IF reg = @ THEN @ + 1 ELSE @]
        /\ local' = [local EXCEPT ![t].run = r, ![t].n = reg]

\* arena_bin_lower_run.
LowerRun(h, b, r) ==
    IF b.runcur = NoRun THEN [b EXCEPT !.runcur = r]
    ELSE IF Below(r, b.runcur)
    THEN [runcur |-> r, runs |-> IF NFree(h, b.runcur) > 0 THEN b.runs \union {b.runcur} ELSE b.runs]
    ELSE [b EXCEPT !.runs = @ \union {r}]

\* arena_malloc_small; without a run that is not full it unlocks the bin to allocate one.
BinMalloc(t) ==
    LET cur   == bin.runcur
        ready == cur # NoRun /\ NFree(header, cur) > 0
    IN  /\ At(t, "bin_malloc")
        /\ \/ /\ ready
              /\ RegAlloc(t, cur) /\ UNCHANGED bin
              /\ Release(t, <<Do("take_small")>> \o Rest(t))
           \/ /\ ~ready
              /\ \E r \in Lowest(bin.runs) :
                    RegAlloc(t, r) /\ bin' = [runcur |-> r, runs |-> bin.runs \ {r}]
              /\ Release(t, <<Do("take_small")>> \o Rest(t))
           \/ /\ ~ready
              /\ bin.runs = {}
              /\ bin' = [bin EXCEPT !.runcur = NoRun]
              /\ Release(t, <<Call("run_alloc", NoRun, RunPages, FALSE), Do("bin_run_init"),
                               Do("bin_malloc2")>> \o Rest(t))
              /\ UNCHANGED <<header, local>>
        /\ UNCHANGED <<arena, pool, objects, program, ops>>

BinRunInit(t) ==
    LET r == local[t].run
    IN  /\ Locked(t, "bin_run_init")
        /\ IF r = NoRun THEN UNCHANGED <<header, arena>>
           ELSE /\ header' = [q \in DOMAIN header \union {r} |->
                                 IF q = r THEN [used |-> {}, next |-> 0] ELSE header[q]]
                /\ arena' = [arena EXCEPT !.nonzero = @ \union {r}]
        /\ Goto(t, Rest(t))
        /\ UNCHANGED <<pool, bin, local, objects, program, ops>>

\* mutant: the run that is not needed is dropped
PutBack_lost(h, b, r) == b
PutBack(h, b, r) == LowerRun(h, b, r)

\* The rest of arena_bin_malloc_hard: run is from the arena or else from the tree.  If
\* another thread has set runcur by now, run is not needed.
BinMalloc2(t) ==
    LET found == IF local[t].run # NoRun THEN {local[t].run} ELSE Lowest(bin.runs)
        b     == [bin EXCEPT !.runs = @ \ found]
        cur   == bin.runcur
        ready == cur # NoRun /\ NFree(header, cur) > 0
        small == <<Do("take_small")>> \o Rest(t)
    IN  /\ At(t, "bin_malloc2")
        /\ \/ /\ ready /\ RegAlloc(t, cur)
              /\ \/ found = {} /\ bin' = b /\ Release(t, small)
                 \/ \E r \in found :
                      IF NFree(header, r) = NRegs
                      THEN bin' = b /\ Release(t, <<Call("bin_run_dalloc", r, 0, FALSE)>> \o small)
                      ELSE bin' = PutBack(header', b, r) /\ Release(t, small)
           \/ /\ ~ready
              /\ \E r \in found : RegAlloc(t, r) /\ bin' = [b EXCEPT !.runcur = r]
              /\ Release(t, small)
           \/ ~ready /\ found = {} /\ Release(t, Rest(t)) /\ UNCHANGED <<bin, header, local>>
        /\ UNCHANGED <<arena, pool, objects, program, ops>>

\* arena_dalloc_bin.
BinDalloc(t) ==
    LET r == Arg(t).run
        h == [header EXCEPT ![r].used = @ \ {Arg(t).n}]
    IN  /\ At(t, "bin_dalloc")
        /\ header' = h
        /\ \/ /\ h[r].used = {}
              /\ bin' = IF r = bin.runcur THEN [bin EXCEPT !.runcur = NoRun]
                        ELSE [bin EXCEPT !.runs = @ \ {r}]
              /\ Release(t, <<Call("bin_run_dalloc", r, 0, FALSE)>> \o Rest(t))
           \/ /\ h[r].used # {}
              /\ bin' = IF NFree(h, r) = 1 /\ r # bin.runcur THEN LowerRun(h, bin, r) ELSE bin
              /\ Release(t, Rest(t))
        /\ UNCHANGED <<arena, pool, local, objects, program, ops>>

\* arena_dalloc_bin_run: pages of a clean run that no region has reached stay clean.
BinRunDalloc(t) ==
    LET r    == Arg(t).run
        past == PagesFor(header[r].next)
        all  == Call("run_dalloc", r, 0, TRUE)
    IN  /\ Locked(t, "bin_run_dalloc")
        /\ header' = [q \in DOMAIN header \ {r} |-> header[q]]
        /\ IF ~Bits(arena, r).dirty /\ past < RunPages
           THEN /\ arena' = Cut(arena, r, RunPages, past)
                /\ Goto(t, <<Call("run_dalloc", Shift(r, past), 0, FALSE), all>> \o Rest(t))
           ELSE UNCHANGED arena /\ Goto(t, <<all>> \o Rest(t))
        /\ UNCHANGED <<pool, bin, local, objects, program, ops>>

----------------------------------------------------------------------------
(* Alignment and reallocation *)

\* arena_palloc: what is before the first aligned page and what is too much is given back.
Palloc(t) ==
    LET r    == local[t].run
        n    == Arg(t).n
        lead == (local[t].n - ((r.page + MapBias) % local[t].n)) % local[t].n
        tail == Length(arena, r) - lead - n
        rest == IF tail > 0 THEN <<Call("trim_tail", Shift(r, lead), n, FALSE)>> ELSE << >>
    IN  /\ Locked(t, "palloc")
        /\ IF r = NoRun THEN Goto(t, Rest(t)) /\ UNCHANGED <<arena, local>>
           ELSE IF lead = 0 THEN Goto(t, rest \o Rest(t)) /\ UNCHANGED <<arena, local>>
           ELSE /\ arena' = Cut(arena, r, Length(arena, r), lead)
                /\ Ret(t, Shift(r, lead))
                /\ Goto(t, <<Call("run_dalloc", r, 0, FALSE)>> \o rest \o Rest(t))
        /\ UNCHANGED <<pool, bin, header, objects, program, ops>>

\* arena_ralloc_large_grow: the run takes from the free run after it, or arena_ralloc moves it.
Grow(t) ==
    LET r    == Arg(t).run
        old  == Length(arena, r)
        more == Arg(t).n - old
        next == Shift(r, old)
        room == IF next.page = NPages \/ Bits(arena, next).allocated THEN 0 ELSE Bits(arena, next).size
        a    == Split(arena, next, more, TRUE, FALSE)
        last == r.page + Arg(t).n - 1
        d    == Bits(arena, r).dirty \/ a.map[r.chunk][last].dirty
    IN  /\ Locked(t, "grow")
        /\ IF room >= more
           THEN /\ arena' = Mark(a, r, [i \in {r.page, last} |->
                                           Large(IF i = r.page THEN Arg(t).n ELSE 0, d, FALSE)])
                /\ Goto(t, Rest(t))
           ELSE /\ Release(t, <<Call("run_alloc", NoRun, Arg(t).n, TRUE), Call("move", r, Arg(t).n, FALSE)>>)
                /\ UNCHANGED arena
        /\ UNCHANGED <<pool, bin, header, local, objects, program, ops>>

----------------------------------------------------------------------------
(* The calls of the program *)

Object(r, reg, n) == [run |-> r, reg |-> reg, n |-> n]
Whole == -1

\* The program has what it asked for, if there was memory, and writes to it.
Take(t) ==
    LET r == local[t].run
    IN  /\ At(t, "take")
        /\ IF r = NoRun THEN UNCHANGED <<objects, arena>>
           ELSE /\ objects' = objects \union {Object(r, Whole, Arg(t).n)}
                /\ arena' = [arena EXCEPT !.nonzero = @ \union PagesOf(r, Arg(t).n)]
        /\ Release(t, Rest(t))
        /\ local' = [local EXCEPT ![t] = Nil]
        /\ UNCHANGED <<pool, bin, header, program, ops>>

TakeSmall(t) ==
    LET r == local[t].run
    IN  /\ At(t, "take_small")
        /\ objects' = objects \union {Object(r, local[t].n, 0)}
        /\ arena' = [arena EXCEPT !.nonzero = @ \union PagesOf(r, PagesFor(local[t].n + 1))]
        /\ Release(t, Rest(t))
        /\ local' = [local EXCEPT ![t] = Nil]
        /\ UNCHANGED <<pool, bin, header, program, ops>>

\* realloc copies to the new run and frees the old one, or fails and leaves it.
Move(t) ==
    LET old == Arg(t).run
        r   == local[t].run
        o   == IF r = NoRun THEN Object(old, Whole, Length(arena, old)) ELSE Object(r, Whole, Arg(t).n)
    IN  /\ At(t, "move")
        /\ objects' = objects \union {o}
        /\ arena' = [arena EXCEPT !.nonzero = @ \union PagesOf(o.run, o.n)]
        /\ Release(t, IF r = NoRun THEN << >> ELSE <<Call("run_dalloc", old, 0, TRUE)>>)
        /\ local' = [local EXCEPT ![t] = Nil]
        /\ UNCHANGED <<pool, bin, header, program, ops>>

Begin(t, kind, cs) ==
    /\ calls[t] = << >> /\ kind \in program.kinds /\ ops < program.max
    /\ ops' = ops + 1
    /\ calls' = [calls EXCEPT ![t] = cs]
    /\ UNCHANGED <<arena, pool, bin, header, lock, program>>

Malloc(t, kind, n, align) ==
    /\ Begin(t, kind, <<Call("run_alloc", NoRun, n + align - 1, TRUE)>>
                      \o (IF align = 1 THEN << >> ELSE <<Call("palloc", NoRun, n, FALSE)>>)
                      \o <<Call("take", NoRun, n, FALSE)>>)
    /\ n + align - 1 <= NPages
    /\ local' = [local EXCEPT ![t] = [run |-> NoRun, n |-> align, zero |-> kind = "calloc"]]
    /\ UNCHANGED objects

MallocSmall(t) ==
    /\ Begin(t, "small", <<Do("bin_malloc")>>)
    /\ UNCHANGED <<local, objects>>

\* free.
FreeObject(t, o) ==
    /\ Begin(t, "free", IF o.reg = Whole THEN <<Call("run_dalloc", o.run, 0, TRUE)>>
                        ELSE <<Call("bin_dalloc", o.run, o.reg, FALSE)>>)
    /\ objects' = objects \ {o}
    /\ UNCHANGED local

\* arena_ralloc_large.
Ralloc(t, o, n) ==
    /\ o.reg = Whole /\ n # o.n
    /\ Begin(t, "realloc", <<IF n < o.n THEN Call("trim_tail", o.run, n, TRUE)
                             ELSE Call("grow", o.run, n, FALSE),
                             Call("take", NoRun, n, FALSE)>>)
    /\ objects' = objects \ {o}
    /\ local' = [local EXCEPT ![t].run = o.run]

PurgeArena(t) == Begin(t, "purge", <<Do("purge_all")>>) /\ UNCHANGED <<local, objects>>

----------------------------------------------------------------------------

ArenaInit ==
    /\ arena = NewArena
    /\ pool = Chunks
    /\ bin = [runcur |-> NoRun, runs |-> {}]
    /\ header = << >>
    /\ lock = NoThread
    /\ calls = [t \in Threads |-> << >>]
    /\ local = [t \in Threads |-> Nil]
    /\ objects = {}
    /\ program \in Programs
    /\ ops = 0

Step(t) ==
    \/ RunAlloc(t) \/ ChunkAlloc(t) \/ RunAlloc2(t) \/ RunDalloc(t) \/ ChunkDealloc(t) \/ TrimTail(t)
    \/ MaybePurge(t) \/ PurgeAll(t) \/ Purge(t) \/ Madvise(t)
    \/ BinMalloc(t) \/ BinRunInit(t) \/ BinMalloc2(t) \/ BinDalloc(t) \/ BinRunDalloc(t)
    \/ Palloc(t) \/ Grow(t) \/ Take(t) \/ TakeSmall(t) \/ Move(t)

Program(t) ==
    \/ \E kind \in {"large", "calloc"}, n \in program.sizes : Malloc(t, kind, n, 1)
    \/ \E align \in Aligns, n \in program.sizes : Malloc(t, "memalign", n, align)
    \/ MallocSmall(t) \/ PurgeArena(t)
    \/ \E o \in objects : FreeObject(t, o) \/ \E n \in program.sizes : Ralloc(t, o, n)

ArenaNext == \E t \in Threads : Step(t) \/ Program(t)

ArenaSpec == ArenaInit /\ [][ArenaNext]_arenaVars

(* ------------------------------ properties ---------------------------- *)

Pending(t, what) == {calls[t][k] : k \in {j \in DOMAIN calls[t] : calls[t][j].do \in what}}

\* A chunk thread t has from chunk_alloc or is to give back.
ChunksInHand(t) ==
    {c.run.chunk : c \in Pending(t, {"chunk_dealloc"})}
    \union (IF At(t, "run_alloc2") THEN {local[t].run.chunk} \ {NoChunk} ELSE {})

\* Runs thread t has allocated and not passed on, or is to deallocate.
RunsInHand(t) ==
    {c.run : c \in Pending(t, {"run_dalloc", "move"})}
    \union (IF /\ Pending(t, {"bin_run_init", "bin_malloc2", "palloc", "take", "move"}) # {}
               /\ Pending(t, {"run_alloc", "chunk_alloc", "run_alloc2"}) = {}
            THEN {local[t].run} \ ({NoRun} \union DOMAIN header) ELSE {})

Mapped    == Chunks \ (pool \union UNION {ChunksInHand(t) : t \in Threads})
SpareRuns == IF arena.spare = NoChunk THEN {} ELSE {[chunk |-> arena.spare, page |-> 0]}
FreeRuns  == arena.clean \union arena.dirty \union SpareRuns
Lengths(runs)   == MapThenSumSet(LAMBDA r : Length(arena, r), runs)
Allocated == Lengths({o.run : o \in {x \in objects : x.reg = Whole}}) + Lengths(DOMAIN header)
             + MapThenSumSet(LAMBDA t : Lengths(RunsInHand(t)), Threads)

\* Types of the arena's state.
TypeOK ==
    /\ FreeRuns \union DOMAIN header \union {o.run : o \in objects} \subseteq Runs
    /\ {arena.ndirty, arena.nactive} \subseteq 0 .. NPages * Cardinality(Chunks)
    /\ arena.npurgatory \in 0 .. SizeT - 1
    /\ lock \in Threads \union {NoThread} /\ pool \subseteq Chunks

\* Every page of the arena's chunks is in one run, and every run has one owner: a tree, the
\* spare chunk, the program, the bin, or a thread in the middle of a call.
RunsApart ==
    LET all == FreeRuns \union DOMAIN header \union {o.run : o \in objects}
               \union UNION {RunsInHand(t) : t \in Threads}
    IN  /\ TypeOK
        /\ UNION {PagesOf(r, Length(arena, r)) : r \in all} = [chunk : Mapped, page : Pages]
        /\ Lengths(arena.clean) + Lengths(arena.dirty) + Lengths(SpareRuns) + Allocated
             = NPages * Cardinality(Mapped)

\* The counts that decide when to purge are right, also while a purge has released the lock;
\* what threads have claimed to purge is npurgatory, in the arithmetic of a size_t.
Counted ==
    /\ \A c \in Mapped :
         /\ arena.chunk_ndirty[c] = Lengths({r \in FreeRuns : r.chunk = c /\ Bits(arena, r).dirty})
         /\ arena.chunk_ndirty[c] > 0 => Contains(arena.chunks_dirty, c)
    /\ arena.ndirty = MapThenSumSet(LAMBDA c : arena.chunk_ndirty[c], Mapped)
    /\ arena.nactive = Allocated
    /\ arena.npurgatory =
          MapThenSumSet(LAMBDA t : MapThenSumSet(LAMBDA c : c.n, Pending(t, {"purge"})), Threads) % SizeT

\* Free runs are joined, and a chunk without runs in use is the spare.
Joined ==
    \A r \in arena.clean \union arena.dirty :
        /\ Length(arena, r) < NPages
        /\ \A s \in FreeRuns : s = Shift(r, Length(arena, r)) => Bits(arena, r).dirty # Bits(arena, s).dirty

\* Regions of run r that have an owner.
Owned(r) ==
    {o.reg : o \in {x \in objects : x.run = r /\ x.reg # Whole}}
    \union UNION {{c.n : c \in {d \in Pending(t, {"bin_dalloc"}) : d.run = r}} : t \in Threads}
    \union {local[t].n : t \in {u \in Threads : Pending(u, {"take_small"}) # {} /\ local[u].run = r}}

\* A region in use has an owner, and a run of the bin that is not full is found again: it is
\* runcur, or in the tree, or in the hand of a thread.
BinKept ==
    \A r \in DOMAIN header :
        /\ header[r].used = Owned(r)
        /\ r \in bin.runs => r # bin.runcur /\ NFree(header, r) > 0
        /\ NFree(header, r) > 0 /\ r \notin bin.runs \union {bin.runcur} =>
             \E t \in Threads : \/ \E c \in Pending(t, {"bin_run_dalloc"}) : c.run = r
                                \/ Pending(t, {"bin_malloc2"}) # {} /\ local[t].run = r

\* doc/jemalloc.xml.in: calloc's memory "is explicitly initialized to zero bytes."
CallocZero ==
    \A t \in Threads :
        At(t, "take") /\ local[t].zero /\ local[t].run # NoRun =>
            PagesOf(local[t].run, Arg(t).n) \intersect arena.nonzero = {}
=============================================================================
