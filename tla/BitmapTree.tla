------------------------------ MODULE BitmapTree ------------------------------
(***************************************************************************)
(* The multi-level bitmap of bitmap.c and bitmap.h, in which a run keeps   *)
(* its free regions.  A group (a machine word in the code) is the set of   *)
(* its 1 bits; a 1 bit stands for a region that is free, or for a group    *)
(* below with a free region.  Groups of all levels are in one array.       *)
(***************************************************************************)
EXTENDS Integers, Sequences, FiniteSetsExt

CONSTANTS
    LgGroup,  \* LG_BITMAP_GROUP_NBITS
    NBits     \* the regions of a run

GroupBits == 2 ^ LgGroup

bits2groups(n) == n \div GroupBits + (IF n % GroupBits = 0 THEN 0 ELSE 1)

\* levels[0..nlevels].group_offset: each level has a bit for every group of
\* the one below, up to a level of one group.
RECURSIVE OffsetsFrom(_, _)
OffsetsFrom(start, n) ==
    LET count == bits2groups(n)
    IN IF count > 1 THEN <<start>> \o OffsetsFrom(start + count, count)
                    ELSE <<start, start + count>>
GroupOffset == [l \in 0 .. Len(OffsetsFrom(0, NBits)) - 1 |-> OffsetsFrom(0, NBits)[l + 1]]
NLevels     == Len(OffsetsFrom(0, NBits)) - 1

\* The bits level l has to have: the regions, or the groups below.
LevelBits(l) == IF l = 0 THEN NBits ELSE GroupOffset[l] - GroupOffset[l - 1]

\* Every bit is 1 except the ones past the end of the last group of a level.
bitmap_init ==
    [g \in 0 .. GroupOffset[NLevels] - 1 |->
        LET l == CHOOSE i \in 0 .. NLevels - 1 : GroupOffset[i] <= g /\ g < GroupOffset[i + 1]
            first == (g - GroupOffset[l]) * GroupBits
        IN {b \in 0 .. GroupBits - 1 : first + b < LevelBits(l)}]

bitmap_full(bitmap) == bitmap[GroupOffset[NLevels] - 1] = {}

bitmap_get(bitmap, bit) == bit % GroupBits \notin bitmap[bit \div GroupBits]

\* g ^= 1LU << bit
Toggle(g, bit) == IF bit \in g THEN g \ {bit} ELSE g \cup {bit}

\* A group that becomes empty turns its bit in the level above.
RECURSIVE SetLevel(_, _, _)
SetLevel(bitmap, l, bit) ==
    LET goff == bit \div GroupBits
        at   == GroupOffset[l] + goff
        g    == Toggle(bitmap[at], bit % GroupBits)
        done == [bitmap EXCEPT ![at] = g]
    IN IF g = {} /\ l + 1 < NLevels THEN SetLevel(done, l + 1, goff) ELSE done

bitmap_set(bitmap, bit) == SetLevel(bitmap, 0, bit)

\* A group that was empty turns its bit in the level above.
RECURSIVE UnsetLevel(_, _, _)
UnsetLevel(bitmap, l, bit) ==
    LET goff == bit \div GroupBits
        at   == GroupOffset[l] + goff
        done == [bitmap EXCEPT ![at] = Toggle(@, bit % GroupBits)]
    IN IF bitmap[at] = {} /\ l + 1 < NLevels THEN UnsetLevel(done, l + 1, goff) ELSE done

\* mutant: the levels above never hear of it
bitmap_unset_flat(bitmap, bit) ==
    [bitmap EXCEPT ![bit \div GroupBits] = Toggle(@, bit % GroupBits)]
bitmap_unset(bitmap, bit) == UnsetLevel(bitmap, 0, bit)

\* sfu, set first unset: down from the root group by the lowest 1 bit.
RECURSIVE FirstUnset(_, _, _)
FirstUnset(bitmap, l, group) ==
    LET bit == group * GroupBits + Min(bitmap[GroupOffset[l] + group])
    IN IF l = 0 THEN bit ELSE FirstUnset(bitmap, l - 1, bit)

bitmap_sfu(bitmap) ==
    LET bit == FirstUnset(bitmap, NLevels - 1, 0)
    IN [bit |-> bit, bitmap |-> bitmap_set(bitmap, bit)]
============================================================================
