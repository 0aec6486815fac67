----------------------------- MODULE SizeClasses -----------------------------
(***************************************************************************)
(* The sizes the allocator hands out: which requests are rounded to which  *)
(* class (jemalloc_internal.h), and how the pages of a run are divided     *)
(* among the regions of a class (arena.c).  The numbers are those of the   *)
(* build, except that a size_t has 24 bits: four chunks wrap around.       *)
(***************************************************************************)
EXTENDS Integers, FiniteSets, FiniteSetsExt, TLC

CONSTANT Options  \* the values of <<lg_qspace_max, lg_cspace_max>> in malloc_conf

LgTinyMin == 3
LgPage    == 12
LgChunk   == 22
Page  == 2 ^ LgPage
Chunk == 2 ^ LgChunk
Word  == 2 ^ 24

TinyMin   == 2 ^ LgTinyMin
Quantum   == 16
CacheLine == 64
SubPage   == 256

\* PAGE_CEILING and its like, for a unit that is a power of two.
Ceiling(x, unit) == LET y == (x + unit - 1) % Word IN y - (y % unit)

\* The smallest power of two from x up.
pow2_ceil(x) == Min({2 ^ l : l \in 0 .. 24} \ (0 .. x - 1)) % Word

\* f itself, each of its values computed once.
Table(f) == f @@ <<>>

\* The number of the lowest 1 bit, from 1.
ffs(x) == IF x = 0 THEN 0 ELSE 1 + Max({l \in 0 .. 24 : x % 2 ^ l = 0})

\* malloc_conf_init restores the defaults for options that do not fit together.
Defaults == <<7, 9>>
Validated(o) == IF o[1] + 1 >= o[2] THEN Defaults ELSE o

----------------------------------------------------------------------------
(* arena_boot *)

\* The first class above max that is a multiple of the next spacing.
NextSpace(max, unit) ==
    IF Ceiling(max, unit) = max THEN max + unit ELSE Ceiling(max, unit)

ntbins == 1
Spaces(o) ==
    LET qmax == 2 ^ Validated(o)[1]
        cmin == NextSpace(qmax, CacheLine)
        cmax == 2 ^ Validated(o)[2]
        smin == NextSpace(cmax, SubPage)
        smax == Page - SubPage
    IN [qspace_max |-> qmax, cspace_min |-> cmin, cspace_max |-> cmax,
        sspace_min |-> smin, sspace_max |-> smax,
        nqbins |-> qmax \div Quantum,
        ncbins |-> (cmax - cmin) \div CacheLine + 1,
        nsbins |-> (smax - smin) \div SubPage + 1]
arena_boot == Table([o \in Options |-> Spaces(o)])

nbins(o) ==
    ntbins + arena_boot[o].nqbins + arena_boot[o].ncbins + arena_boot[o].nsbins
small_maxclass(o) == arena_boot[o].sspace_max

\* The pages of the chunk header, which maps the pages after it.
OffsetOfMap == 40
SizeOfMap   == 24
HeaderSize(bias)  == OffsetOfMap + SizeOfMap * (Chunk \div Page - bias)
HeaderPages(bias) ==
    HeaderSize(bias) \div Page + (IF HeaderSize(bias) % Page = 0 THEN 0 ELSE 1)
map_bias == HeaderPages(HeaderPages(HeaderPages(0)))
arena_maxclass == Chunk - map_bias * Page

----------------------------------------------------------------------------
(* The table from sizes to bins *)

\* const_small_size2bin: how many entries of the table the bins of the default
\* options have.
const_entries ==
    [binind \in 0 .. 27 |-> CASE binind \in 0 .. 1 -> 1 [] binind \in 2 .. 8 -> 2
                              [] binind \in 9 .. 14 -> 8 [] OTHER -> 32]
const_small_size2bin ==
    LET before == Table([binind \in 0 .. 28 |->
                     MapThenSumSet(LAMBDA b : const_entries[b], 0 .. binind - 1)])
    IN Table([k \in 0 .. before[28] - 1 |->
                CHOOSE binind \in 0 .. 27 : before[binind] <= k /\ k < before[binind + 1]])

\* The bin of size i.
BinOf(s, i) ==
    CASE i < TinyMin -> ffs(TinyMin \div 2 ^ (LgTinyMin + 1))
      [] TinyMin <= i /\ i < Quantum -> ffs(pow2_ceil(i) \div 2 ^ (LgTinyMin + 1))
      [] Quantum <= i /\ i <= s.qspace_max -> ntbins + Ceiling(i, Quantum) \div Quantum - 1
      [] s.qspace_max < i /\ i <= s.cspace_max ->
           ntbins + s.nqbins + (Ceiling(i, CacheLine) - s.cspace_min) \div CacheLine
      [] s.cspace_max < i ->
           ntbins + s.nqbins + s.ncbins + (Ceiling(i, SubPage) - s.sspace_min) \div SubPage

small_size2bin_init_hard(o) ==
    Table([k \in 0 .. small_maxclass(o) \div TinyMin - 1 |->
              BinOf(arena_boot[o], k * TinyMin + 1)])

small_size2bin_init ==
    Table([o \in Options |-> IF Validated(o) = Defaults THEN const_small_size2bin
                             ELSE small_size2bin_init_hard(o)])

SMALL_SIZE2BIN(o, size) == small_size2bin_init[o][(size - 1) \div TinyMin]

\* What the table is checked against in a debugging build.
small_size2bin_validate(o) ==
    \A i \in 1 .. small_maxclass(o) : SMALL_SIZE2BIN(o, i) = BinOf(arena_boot[o], i)

----------------------------------------------------------------------------
(* The runs of the bins *)

Bitmap(nbits) == INSTANCE BitmapTree WITH LgGroup <- 6, NBits <- nbits
SizeOfRun == 16
RunMaxRegs     == 2 ^ 11
RunMaxOverhead == 61
RunMaxRelax    == 6144

bitmap_size(nregs) == 8 * Bitmap(nregs)!GroupOffset[Bitmap(nregs)!NLevels]

\* As many regions as leave room for the header.
RECURSIVE Layout(_, _, _)
Layout(reg_size, run_size, nregs) ==
    LET reg0 == run_size - nregs * reg_size
        hdr  == SizeOfRun + bitmap_size(nregs)
    IN IF hdr > reg0 THEN Layout(reg_size, run_size, nregs - 1)
       ELSE [reg_size |-> reg_size, run_size |-> run_size, nregs |-> nregs,
             hdr_size |-> hdr, reg0_offset |-> reg0]

\* Mutant: the bitmap after the header is forgotten.
RunOf_noBitmap(reg_size, run_size) ==
    LET nregs == Min({(run_size - SizeOfRun) \div reg_size, RunMaxRegs})
    IN [reg_size |-> reg_size, run_size |-> run_size, nregs |-> nregs,
        hdr_size |-> SizeOfRun + bitmap_size(nregs),
        reg0_offset |-> run_size - nregs * reg_size]

RunOf(reg_size, run_size) ==
    Layout(reg_size, run_size, Min({(run_size - SizeOfRun) \div reg_size, RunMaxRegs}))

\* Larger runs are tried while too much of a run is header.
RECURSIVE Expand(_)
Expand(good) ==
    LET try == RunOf(good.reg_size, good.run_size + Page)
    IN IF /\ try.run_size <= arena_maxclass
          /\ RunMaxOverhead * good.reg_size * 8 > RunMaxRelax
          /\ try.reg0_offset * 4096 > RunMaxOverhead * try.run_size
          /\ try.nregs < RunMaxRegs
       THEN Expand(try) ELSE good

bin_info_run_size_calc(reg_size, min_run_size) == Expand(RunOf(reg_size, min_run_size))

RegSize(s, binind) ==
    LET q == ntbins
        c == q + s.nqbins
        r == c + s.ncbins
    IN CASE binind < q -> 2 ^ (LgTinyMin + binind)
         [] q <= binind /\ binind < c -> (binind - ntbins + 1) * Quantum
         [] c <= binind /\ binind < r -> s.cspace_min + (binind - c) * CacheLine
         [] r <= binind -> s.sspace_min + (binind - r) * SubPage

\* A run is at least as large as those of the smaller class.
RECURSIVE Infos(_, _)
Infos(s, binind) ==
    LET before == Infos(s, binind - 1)
    IN IF binind < 0 THEN <<>>
       ELSE before @@ (binind :> bin_info_run_size_calc(RegSize(s, binind),
                                   IF binind = 0 THEN Page ELSE before[binind - 1].run_size))
bin_info_init == Table([o \in Options |-> Infos(arena_boot[o], nbins(o) - 1)])

\* arena_run_regind, the number of the region diff bytes after region 0.  The
\* product of two 32-bit words is taken by halves.
arena_run_regind(reg_size, diff) ==
    LET shift == 2 ^ (ffs(reg_size) - 1)
        size  == reg_size \div shift
        x     == diff \div shift
        inv   == 2 ^ 21 \div size + 1
        low   == (x % 2 ^ 10) * inv
    IN CASE size = 1 -> x
         [] size \in 3 .. 31 ->
              (((x \div 2 ^ 10) * inv + low \div 2 ^ 10) % 2 ^ 22) \div 2 ^ 11
         [] OTHER -> x \div size

----------------------------------------------------------------------------
(* Usable sizes *)

s2u(o, size) ==
    IF size <= small_maxclass(o) THEN bin_info_init[o][SMALL_SIZE2BIN(o, size)].reg_size
    ELSE IF size <= arena_maxclass THEN Ceiling(size, Page)
    ELSE Ceiling(size, Chunk)

\* The run from which arena_palloc cuts an aligned one.
RunSize(usize, alignment) ==
    IF usize >= alignment THEN usize + alignment - Page
    ELSE (2 * alignment - Page) % Word

\* 0 when the size wraps around.
sa2u(o, size, alignment) ==
    LET usize == Ceiling(size, alignment)
        al    == Ceiling(alignment, Page)
        pages == Ceiling(size, Page)
    IN IF usize < size THEN 0
       ELSE IF usize <= arena_maxclass /\ alignment <= Page
       THEN IF usize <= small_maxclass(o)
            THEN bin_info_init[o][SMALL_SIZE2BIN(o, usize)].reg_size
            ELSE Ceiling(usize, Page)
       ELSE IF pages < size \/ (pages + al) % Word < pages THEN 0
       ELSE IF RunSize(pages, al) <= arena_maxclass THEN Ceiling(pages, Page)
       ELSE Ceiling(pages, Chunk)
============================================================================
