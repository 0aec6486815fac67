------------------------------ MODULE Requests ------------------------------
(***************************************************************************)
(* The interface of the allocator (jemalloc.c) as one block of a program   *)
(* sees it: the calls that give it, resize it and take it back, each with  *)
(* the ways through the allocator that its sizes lead to (arena.c,         *)
(* huge.c).  Memory may be used up at any allocation.                      *)
(*                                                                         *)
(* A block has the size the allocator keeps for it, the bytes that belong  *)
(* to it, and an address that is a multiple of 2^lg and no more.           *)
(***************************************************************************)
EXTENDS SizeClasses

CONSTANTS
    Sizes,      \* sizes in requests
    Pairs,      \* <<num, size>> in calls of calloc
    Extras,     \* extra in calls of rallocm
    Alignments, \* of posix_memalign and memalign: any number
    LgAligns    \* of allocm and rallocm: 0 asks for none

VARIABLES
    options,  \* lg_qspace_max and lg_cspace_max
    block,    \* the block of the program, or Null
    call      \* the call that has just returned, or NoCall

requestVars == <<options, block, call>>

Null   == [usize |-> 0, room |-> 0, lg |-> -1]
NoCall == [op |-> "none"]
BlockOf(usize, lg) == [usize |-> usize, room |-> usize, lg |-> lg]

Log(alignment) == ffs(alignment) - 1

\* The addresses that are told apart: by chance they may be multiples of more.
Places(least, most) == {least, least + 1, most} \intersect (least .. most)

----------------------------------------------------------------------------
(* New blocks: each operator gives the blocks that may come of it.  Null,   *)
(* when there is no memory, is added by the caller.                         *)

\* The places of the regions of a bin, by the first region with each alignment.
RegionLgs ==
    Table([o \in Options |-> Table([binind \in 0 .. nbins(o) - 1 |->
        LET b == bin_info_init[o][binind]
            At(k) == b.reg0_offset + k * b.reg_size
        IN {IF At(k) % Page = 0 THEN LgPage ELSE Log(At(k)) : k \in 0 .. b.nregs - 1}])])

arena_malloc_small(size) ==
    LET binind == SMALL_SIZE2BIN(options, size)
    IN {BlockOf(bin_info_init[options][binind].reg_size, lg) : lg \in RegionLgs[options][binind]}

arena_malloc_large(size) ==
    {BlockOf(Ceiling(size, Page), lg) : lg \in Places(LgPage, LgChunk - 1)}

arena_malloc(size) ==
    IF size <= small_maxclass(options) THEN arena_malloc_small(size)
                                       ELSE arena_malloc_large(size)

huge_malloc(size) ==
    LET csize == Ceiling(size, Chunk)
    IN IF csize = 0 THEN {} ELSE {BlockOf(csize, lg) : lg \in Places(LgChunk, LgChunk + 1)}

\* An aligned block of size bytes in alloc_size bytes that start at any page, or
\* at any chunk: offset is how far the start is past a multiple of alignment.
Trimmed(size, alloc_size, alignment, unit) ==
    LET lead(offset) == IF offset = 0 THEN 0 ELSE alignment - offset
    IN {[usize |-> size, room |-> Min({size, alloc_size - lead(offset)}), lg |-> Log(alignment)] :
          offset \in {0, unit, alignment - unit} \intersect (0 .. alignment - 1)}

arena_palloc(size, alloc_size, alignment) ==
    Trimmed(size, alloc_size, Ceiling(alignment, Page), Page)

huge_palloc(size, alignment) ==
    LET chunk_size == Ceiling(size, Chunk)
        alloc_size == (IF size >= alignment THEN chunk_size + alignment - Chunk
                       ELSE 2 * alignment - Chunk) % Word
    IN Trimmed(chunk_size, alloc_size, alignment, Chunk)

imalloc(size) == IF size <= arena_maxclass THEN arena_malloc(size) ELSE huge_malloc(size)

ipalloc(usize, alignment) ==
    LET run_size == RunSize(Ceiling(usize, Page), Ceiling(alignment, Page))
    IN IF usize <= arena_maxclass /\ alignment <= Page
         THEN arena_malloc(usize)
       ELSE IF run_size <= arena_maxclass THEN arena_palloc(usize, run_size, alignment)
       ELSE IF alignment <= Chunk THEN huge_malloc(usize)
       ELSE huge_palloc(usize, alignment)

----------------------------------------------------------------------------
(* Resizing.  An outcome is the block and how many bytes of the old one it  *)
(* has kept.                                                                *)

Smaller(x, y) == Min({x, y})
InPlace(old, usize) ==
    [block |-> BlockOf(usize, old.lg), kept |-> Smaller(old.usize, usize), moved |-> FALSE]
Moved(old, size, new) ==
    {[block |-> b, kept |-> Smaller(size, old.usize), moved |-> TRUE] : b \in new}
Failed == [block |-> Null, kept |-> 0, moved |-> FALSE]

\* What follows a large run may be in use, or be a free run of some size.
FollowSizes(old, size, psize) ==
    {Page, (size - old.usize) % Word, psize - old.usize, psize - old.usize + Page}
        \intersect (1 .. arena_maxclass - old.usize)

arena_ralloc_large_grow(old, size, extra) ==
    {Failed} \union
    {InPlace(old, old.usize + (IF old.usize + follow <= size + extra THEN follow
                               ELSE size + extra - old.usize)) :
       follow \in {f \in FollowSizes(old, size, size + extra) :
                     f >= (size - old.usize) % Word}}

arena_ralloc_large(old, size, extra) ==
    LET psize == Ceiling(size + extra, Page)
        pages == Ceiling(size, Page)
    IN IF psize <= old.usize THEN {InPlace(old, psize)}
       ELSE arena_ralloc_large_grow(old, pages, psize - pages)

\* Mutant: the bin of size alone is compared.
arena_ralloc_no_move_size(old, size, extra) ==
    IF old.usize > arena_maxclass THEN {Failed}
    ELSE IF old.usize <= small_maxclass(options)
    THEN IF size <= small_maxclass(options) \/ size <= old.usize
         THEN {InPlace(old, old.usize)} ELSE {Failed}
    ELSE arena_ralloc_large(old, size, extra)

arena_ralloc_no_move(old, size, extra) ==
    LET small == small_maxclass(options)
        most  == (size + extra) % Word
    IN IF old.usize > arena_maxclass THEN {Failed}
       ELSE IF old.usize <= small
       THEN IF \/ /\ most <= small
                  /\ SMALL_SIZE2BIN(options, most) = SMALL_SIZE2BIN(options, old.usize)
               \/ size <= old.usize /\ most >= old.usize
            THEN {InPlace(old, old.usize)} ELSE {Failed}
       ELSE IF most > small THEN arena_ralloc_large(old, size, extra) ELSE {Failed}

huge_ralloc_no_move(old, size, extra) ==
    IF /\ old.usize > arena_maxclass
       /\ old.usize >= Ceiling(size, Chunk)
       /\ old.usize <= Ceiling(size + extra, Chunk)
    THEN {InPlace(old, old.usize)} ELSE {Failed}

\* A larger block, or one without extra, or none.
Replaced(old, size, extra, New(_)) ==
    {Failed} \union Moved(old, size, New((size + extra) % Word))
             \union (IF extra = 0 THEN {} ELSE Moved(old, size, New(size)))

Aligned(size, alignment) ==
    LET usize == sa2u(options, size, alignment)
    IN IF usize = 0 THEN {} ELSE ipalloc(usize, alignment)

\* First in place; if that fails, elsewhere.
OrElse(first, second) ==
    IF Failed \in first THEN (first \ {Failed}) \union second ELSE first

arena_ralloc(old, size, extra, alignment) ==
    LET New(s) == IF alignment = 0 THEN arena_malloc(s) ELSE Aligned(s, alignment)
    IN OrElse(arena_ralloc_no_move(old, size, extra), Replaced(old, size, extra, New))

huge_ralloc(old, size, extra, alignment) ==
    LET New(s) == IF alignment > Chunk THEN huge_palloc(s, alignment) ELSE huge_malloc(s)
    IN OrElse(huge_ralloc_no_move(old, size, extra), Replaced(old, size, extra, New))

iralloc(old, size, extra, alignment, no_move) ==
    LET New(s) == Aligned(s, alignment)
    IN IF alignment # 0 /\ 2 ^ old.lg < alignment
       THEN IF no_move THEN {Failed}
            ELSE IF sa2u(options, (size + extra) % Word, alignment) = 0 THEN {Failed}
            ELSE Replaced(old, size, extra, New)
       ELSE IF no_move
       THEN IF size <= arena_maxclass THEN arena_ralloc_no_move(old, size, extra)
                                      ELSE huge_ralloc_no_move(old, size, extra)
       ELSE IF (size + extra) % Word <= arena_maxclass
            THEN arena_ralloc(old, size, extra, alignment)
            ELSE huge_ralloc(old, size, extra, alignment)

----------------------------------------------------------------------------
(* The calls.  asked is what the program asks for, in numbers that do not   *)
(* wrap around: the size, the most it has a use for, the alignment.  err is *)
(* how the failure is told; rsize is what the call says of the size, Untold *)
(* if it says nothing.                                                      *)

Untold == -1
Ask(size, lg) == [size |-> size, most |-> size, lg |-> lg]

Answer(op, asked, o, err, rsize) ==
    /\ call = NoCall
    /\ block' = o.block
    /\ call' = [op |-> op, asked |-> asked, before |-> block,
                kept |-> o.kept, moved |-> o.moved, err |-> err, rsize |-> rsize]
    /\ UNCHANGED options

\* A new block is one of new, or there is no memory for it.
Allocate(op, asked, new, err) ==
    /\ block = Null
    /\ \/ \E b \in new : Answer(op, asked, [Failed EXCEPT !.block = b], "none", Untold)
       \/ Answer(op, asked, Failed, err, Untold)

AtLeast1(size) == IF size = 0 THEN 1 ELSE size

malloc(size) == Allocate("malloc", Ask(size, 0), imalloc(AtLeast1(size)), "ENOMEM")

imemalign(op, alignment, size) ==
    IF alignment < 8 \/ alignment # pow2_ceil(alignment)
      THEN /\ block = Null
           /\ Answer(op, Ask(size, Log(alignment)), Failed, "EINVAL", Untold)
    ELSE Allocate(op, Ask(size, Log(alignment)),
                  Aligned(AtLeast1(size), alignment), "ENOMEM")

posix_memalign(alignment, size) == imemalign("posix_memalign", alignment, size)

\* The pointer they return when imemalign fails was never set.
memalign(alignment, size) == imemalign("memalign", alignment, size)
valloc(size) == imemalign("memalign", Page, size)

\* The product is examined only if a factor has a bit in the upper half.
calloc(num, size) ==
    LET num_size == (num * size) % Word
        overflow == /\ num_size # 0
                    /\ num >= 2 ^ 12 \/ size >= 2 ^ 12
                    /\ num_size \div size # num
    IN Allocate("calloc", Ask(num * size, 0),
                IF overflow THEN {} ELSE imalloc(AtLeast1(num_size)), "ENOMEM")

realloc(size) ==
    IF block = Null
      THEN Allocate("realloc", Ask(size, 0), imalloc(AtLeast1(size)), "ENOMEM")
    ELSE \E o \in iralloc(block, AtLeast1(size), 0, 0, FALSE) :
           IF o = Failed
             THEN Answer("realloc", Ask(size, 0),
                         [InPlace(block, block.usize) EXCEPT !.block = block], "ENOMEM", Untold)
           ELSE Answer("realloc", Ask(size, 0), o, "none", Untold)

\* free and dallocm
free == block # Null /\ Answer("free", Ask(0, 0), Failed, "none", Untold)

\* malloc_usable_size and sallocm
sallocm == /\ block # Null
           /\ Answer("sallocm", Ask(0, 0), [InPlace(block, block.usize) EXCEPT !.block = block],
                     "none", block.usize)

AlignmentOf(lg) == IF lg = 0 THEN 0 ELSE 2 ^ lg

iallocm(usize, alignment) == IF alignment = 0 THEN imalloc(usize) ELSE ipalloc(usize, alignment)

allocm(size, lg) ==
    LET alignment == AlignmentOf(lg)
        usize == IF alignment = 0 THEN s2u(options, size) ELSE sa2u(options, size, alignment)
    IN /\ block = Null
       /\ size # 0
       /\ \/ /\ usize # 0
             /\ \E b \in iallocm(usize, alignment) :
                  Answer("allocm", Ask(size, lg), [Failed EXCEPT !.block = b], "none", usize)
          \/ Answer("allocm", Ask(size, lg), Failed, "OOM", Untold)

\* The sizes it asserts, beyond which its behaviour is undefined.
rallocm(size, extra, lg, no_move) ==
    LET asked == [Ask(size, lg) EXCEPT !.most = size + extra]
    IN /\ block # Null
       /\ size # 0 /\ size + extra < Word
       /\ \E o \in iralloc(block, size, extra, AlignmentOf(lg), no_move) :
            IF o = Failed
              THEN Answer("rallocm", asked,
                          [InPlace(block, block.usize) EXCEPT !.block = block],
                          IF no_move THEN "NOT_MOVED" ELSE "OOM", Untold)
            ELSE Answer("rallocm", asked, o, "none", o.block.usize)

\* The program has read the answer.  One that has been given a block without
\* memory of its own is not followed any further: another one begins.
Return ==
    /\ call # NoCall
    /\ call' = NoCall
    /\ block' = IF block.usize \in 1 .. block.room THEN block ELSE Null
    /\ UNCHANGED options

RequestsInit == options \in Options /\ block = Null /\ call = NoCall

Resize(size) == \E extra \in Extras, lg \in LgAligns, no_move \in BOOLEAN :
                    rallocm(size, extra, lg, no_move)

RequestsNext ==
    \/ call = NoCall /\ block = Null /\ \E size \in Sizes :
         \/ malloc(size) \/ valloc(size)
         \/ \E alignment \in Alignments :
              posix_memalign(alignment, size) \/ memalign(alignment, size)
         \/ \E lg \in LgAligns : allocm(size, lg)
    \/ call = NoCall /\ block = Null /\ \E p \in Pairs : calloc(p[1], p[2])
    \/ call = NoCall /\ \E size \in Sizes : realloc(size)
    \/ call = NoCall /\ block # Null /\ \E size \in Sizes : Resize(size)
    \/ call = NoCall /\ (free \/ sallocm)
    \/ Return

RequestsSpec == RequestsInit /\ [][RequestsNext]_requestVars

----------------------------------------------------------------------------
(* Properties *)

Keeping == {"realloc", "rallocm", "sallocm"}

\* The product of calloc's factors is a multiple of the word, and taken for 0.
Vanished == call.op = "calloc" /\ call.asked.size > 0 /\ call.asked.size % Word = 0

\* What rallocm is asked for wraps around where nothing looks: when the size of
\* a large run that may not move is rounded up to pages, and when huge_palloc
\* adds the room to align the chunks.
Overrun ==
    /\ call.op = "rallocm"
    /\ \/ /\ ~ call.moved
          /\ call.before.usize \in small_maxclass(options) + 1 .. arena_maxclass
          /\ call.asked.most > Word - Page
       \/ /\ LgChunk < call.asked.lg /\ call.asked.lg <= call.before.lg
          /\ call.asked.most > Word - 2 ^ call.asked.lg

\* What a call promises (jemalloc.xml.in, DESCRIPTION and RETURN VALUES), but for
\* the two numbers above: the block has at least the bytes that were asked for,
\* counted without wrapping around, all of them its own, at a multiple of the
\* alignment; a resized block keeps what both sizes hold, and does not move when
\* told not to; the size told is the size kept; a call that fails leaves the old
\* block as it was.
Granted ==
    call # NoCall /\ ~ Vanished /\ ~ Overrun =>
      /\ (block = Null) =
            (\/ call.op = "free"
             \/ (call.before = Null /\ call.err # "none"))
      /\ block # Null => block.usize <= block.room
      /\ call.err = "none" /\ block # Null =>
           /\ block.usize >= call.asked.size /\ block.lg >= call.asked.lg
           /\ call.rsize \in {Untold, block.usize}
           /\ call.op \in Keeping /\ call.before # Null =>
                call.kept >= IF call.op = "sallocm" THEN block.usize
                             ELSE Smaller(call.asked.size, call.before.usize)
           /\ ~ call.moved /\ call.before # Null => block.lg = call.before.lg
      /\ call.err # "none" => block = call.before
      /\ call.err = "NOT_MOVED" => ~ call.moved

\* "The calloc() function allocates space for number objects, each size bytes in
\* length" (jemalloc.xml.in:170-171): it does not when the product wraps to 0.
CallocRoom ==
    call # NoCall /\ call.op = "calloc" /\ call.err = "none" =>
        block.usize >= call.asked.size

\* "The rallocm() function resizes the allocation at *ptr to be at least size
\* bytes" (jemalloc.xml.in:358-360), for every sum that fits a size_t: it does
\* not when the sum wraps around once it is rounded up or aligned.
RallocmRoom ==
    call # NoCall /\ call.op = "rallocm" /\ call.err = "none" =>
        /\ block.usize >= call.asked.size
        /\ block.usize <= block.room

LowestPower(n) == 2 ^ (ffs(n) - 1)

\* The classes of one choice of the options: s2u rounds to the least class that
\* holds the request and sa2u to one that is a multiple of the alignment, both
\* for good; the table of bins agrees with the rule it abbreviates; a run holds
\* its header, its bitmap and its regions, each as aligned as its size allows;
\* and the division by multiplication finds the region of every pointer.
ClassesFit ==
    call = NoCall /\ block = Null =>
      /\ small_size2bin_validate(options)
      /\ HeaderSize(map_bias) <= map_bias * Page
      /\ \A binind \in 0 .. nbins(options) - 1 :
           LET b == bin_info_init[options][binind]
           IN /\ b.hdr_size <= b.reg0_offset
              /\ b.nregs \in 1 .. RunMaxRegs
              /\ b.run_size <= arena_maxclass
              /\ b.reg0_offset + b.nregs * b.reg_size = b.run_size
              /\ b.reg0_offset % Smaller(LowestPower(b.reg_size), Page) = 0
              /\ s2u(options, b.reg_size) = b.reg_size
              /\ binind > 0 =>
                   LET before == bin_info_init[options][binind - 1]
                   IN /\ b.reg_size > before.reg_size
                      /\ s2u(options, before.reg_size + 1) = b.reg_size
              /\ \A k \in 0 .. b.nregs - 1 :
                   \A past \in {0, b.reg_size - 1} :
                     arena_run_regind(b.reg_size, k * b.reg_size + past) = k
      /\ \A size \in Sizes \ {0}, lg \in LgAligns \ {0} :
           LET usize == sa2u(options, size, 2 ^ lg)
           IN usize # 0 => /\ usize >= size
                           /\ lg <= LgPage => usize % 2 ^ lg = 0
                           /\ usize + 2 ^ lg < Word => sa2u(options, usize, 2 ^ lg) = usize
============================================================================
