----------------------------- MODULE MCHeapParts -----------------------------
EXTENDS HeapParts, TLC

AllParts == {"arena", "containers", "interface"}

Uses(kinds, sizes, max) == [kinds |-> kinds, sizes |-> sizes, max |-> max]

AllPrograms ==
    {Uses({"large", "free"}, {1, 2, 4}, 6),
     Uses({"large", "calloc", "free", "purge"}, {2, 4}, 5),
     Uses({"memalign", "realloc", "large", "free"}, {1, 3}, 4),
     Uses({"large", "free", "purge"}, {2, 4}, 8),
     Uses({"small", "free"}, {1}, 7),
     Uses({"large", "small", "free"}, {1, 3}, 5)}

\* Without a purge and an aligned allocation every page that is not zero is marked so.
AlignedAndPurged == {Uses({"large", "calloc", "memalign", "free", "purge"}, {1, 2}, 5)}

Symmetric == Permutations(Threads)

Nodes == 1 .. 11

\* Three keys have one bucket, the same, in every table of up to four buckets: the table
\* grows twice for them, and does not shrink under them.
FirstHash  == 0 :> 0 @@ 1 :> 4 @@ 2 :> 4 @@ 3 :> 0 @@ 4 :> 1
SecondHash == 0 :> 0 @@ 1 :> 4 @@ 2 :> 0 @@ 3 :> 2 @@ 4 :> 3

\* The first product wraps to a small number, the second to 0; the others fit.
Factors == {<<2 ^ 12, 2 ^ 12 + 1>>, <<2 ^ 12, 2 ^ 12>>, <<0, 5>>, <<300, 70>>,
            <<2 ^ 12 - 1, 2 ^ 12 - 1>>}

\* The limits of the kinds of classes, and what wraps around.
Limits == {0, 1, 100, 3840, 3841, 5000, arena_maxclass, arena_maxclass + 1,
           Chunk + 1, Word - Chunk + 1}
\* The last sums with the limits wrap around a page, a chunk, and no more.
More   == {0, 1, 5000, Chunk, Word - Chunk, Word - 5001,
           Word - 5000 - Page}
Powers == {0, 3, 4, 64, 2 ^ 13, 2 ^ 23}
Shifts == {0, 7, 12, 13, 23}

\* The defaults, fewer quanta, and two that do not fit together.
Chosen == {<<7, 9>>, <<4, 6>>, <<9, 9>>}
============================================================================
