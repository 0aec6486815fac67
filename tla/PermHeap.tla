------------------------------ MODULE PermHeap ------------------------------
(***************************************************************************)
(* The persistent heap of perma.c: a file mapped into memory, out of which *)
(* malloc takes its blocks; PERM variables, which are copied to and from   *)
(* the heap; and a backup file the whole heap is written to and read from. *)
(* The mapping is shared, so the file holds what memory held when the      *)
(* process died.                                                           *)
(***************************************************************************)
EXTENDS Integers, FiniteSets, FiniteSetsExt

CONSTANTS
    NBlocks,   \* blocks of malloc that the heap has room for
    NoGlobals, \* PERM variables before the program sets them
    Junk       \* contents of memory nobody has written

Blocks == 1 .. NBlocks

\* The heap is written to the backup from its start: the header with the PERM
\* variables and the state of malloc first, then the blocks.
Head   == 0
Pieces == Head .. NBlocks

Missing  == [absent |-> TRUE]
NoBackup == <<>>

VARIABLES
    mapFile,  \* "none", "blank" (created, without a header), "heap", or "torn": it
              \* has a header, but malloc cannot work on it
    heap,     \* memory of the heap, which is the contents of the map file
    bakFile,  \* the backup: what each piece holds, or NoBackup
    mfd, bfd, \* whether the process has the two files open
    glob,     \* the PERM variables of the process
    next,     \* the piece backup or restore is at
    whole,    \* ghost: the backup holds one heap from the first piece to the last
    lost      \* ghost: the run was restarted without such a backup

disk    == <<mapFile, bakFile>>
process == <<mfd, bfd, glob, next>>
ghosts  == <<whole, lost>>

EmptyHeap == [globals |-> NoGlobals, used |-> {}, mem |-> [b \in Blocks |-> Junk]]
EmptyBackup == [k \in Pieces |-> Missing]

HeapInit ==
    /\ mapFile = "none" /\ bakFile = NoBackup
    /\ heap = EmptyHeap
    /\ mfd = FALSE /\ bfd = FALSE
    /\ glob = NoGlobals
    /\ next = Head
    /\ whole = FALSE /\ lost = FALSE

\* mopen("w+") empties the file ...
MopenCreate ==
    /\ mapFile' = "blank"
    /\ heap' = EmptyHeap
    /\ mfd' = TRUE
    /\ UNCHANGED <<bakFile, bfd, glob, next, ghosts>>

\* ... writes the header, sets up malloc in it and saves the PERM variables.
MopenSave ==
    /\ mapFile' = "heap"
    /\ heap' = [heap EXCEPT !.globals = glob]
    /\ UNCHANGED <<bakFile, process, ghosts>>

\* mopen("r+") maps the heap and restores the PERM variables from it.  If the file
\* is not there or has no version key it fails, and malloc takes system memory.
MopenExisting ==
    /\ mapFile # "torn"
    /\ IF mapFile = "heap"
       THEN mfd' = TRUE /\ glob' = heap.globals /\ UNCHANGED heap
       ELSE mfd' = FALSE /\ glob' = glob /\ heap' = EmptyHeap
    /\ UNCHANGED <<disk, bfd, next, ghosts>>

\* It accepts a torn file by its key; the process dies when malloc works on it, or
\* waits for a mutex in it.
MopenTorn ==
    /\ mapFile = "torn"
    /\ UNCHANGED <<heap, disk, process, ghosts>>

BopenCreate ==
    /\ mfd
    /\ bakFile' = EmptyBackup
    /\ bfd' = TRUE
    /\ UNCHANGED <<mapFile, heap, mfd, glob, next, ghosts>>

BopenExisting ==
    /\ bfd' = (mfd /\ bakFile # NoBackup)
    /\ UNCHANGED <<heap, disk, mfd, glob, next, ghosts>>

\* The lowest k blocks malloc has free, lowest first.
FreeBlocks == Blocks \ heap.used
Lowest(k) == CHOOSE b \in FreeBlocks : Cardinality({c \in FreeBlocks : c < b}) = k - 1

\* mflush
Flush ==
    /\ heap' = IF mfd THEN [heap EXCEPT !.globals = glob] ELSE heap
    /\ UNCHANGED <<disk, process, ghosts>>

PieceOf(h, k) == IF k = Head THEN [globals |-> h.globals, used |-> h.used]
                 ELSE [content |-> h.mem[k]]

BackupStart_noGlobals ==
    /\ bfd
    /\ next' = Head
    /\ UNCHANGED <<heap, disk, mfd, bfd, glob, ghosts>>

\* backup: the PERM variables are saved in the heap ...
BackupStart ==
    /\ bfd
    /\ heap' = [heap EXCEPT !.globals = glob]
    /\ next' = Head
    /\ UNCHANGED <<disk, mfd, bfd, glob, ghosts>>

\* ... and the heap is written over the previous backup, piece by piece.
BackupWrite ==
    /\ bakFile' = [bakFile EXCEPT ![next] = PieceOf(heap, next)]
    /\ whole' = (next = NBlocks)
    /\ next' = next + 1
    /\ UNCHANGED <<mapFile, heap, mfd, bfd, glob, lost>>

BackupFails ==
    /\ ~bfd
    /\ UNCHANGED <<heap, disk, process, ghosts>>

\* check_header looks at the header of the backup only.
CheckHeader == bfd /\ bakFile[Head] # Missing

RestoreStart ==
    /\ CheckHeader
    /\ next' = Head
    /\ UNCHANGED <<heap, disk, mfd, bfd, glob, ghosts>>

\* restore reads the heap piece by piece ...
RestoreRead ==
    /\ bakFile[next] # Missing
    /\ heap' = IF next = Head
               THEN [heap EXCEPT !.globals = bakFile[Head].globals,
                                 !.used = bakFile[Head].used]
               ELSE [heap EXCEPT !.mem[next] = bakFile[next].content]
    /\ next' = next + 1
    /\ UNCHANGED <<disk, mfd, bfd, glob, ghosts>>

\* ... and then the PERM variables from the heap.
RestoreGlobals ==
    /\ glob' = heap.globals
    /\ UNCHANGED <<heap, disk, mfd, bfd, next, ghosts>>

\* There is no backup, its header is wrong, or it is shorter than its header says.
RestoreFails(reading) ==
    /\ IF reading THEN bakFile[next] = Missing ELSE ~CheckHeader
    /\ UNCHANGED <<heap, disk, process, ghosts>>

\* mclose saves the PERM variables, then both files are closed.
Close ==
    /\ heap' = IF mfd THEN [heap EXCEPT !.globals = glob] ELSE heap
    /\ mfd' = FALSE /\ bfd' = FALSE
    /\ UNCHANGED <<disk, glob, next, ghosts>>

RemoveBackup ==
    /\ bakFile' = NoBackup
    /\ whole' = FALSE
    /\ UNCHANGED <<mapFile, heap, process, lost>>

RemoveMap ==
    /\ mapFile' = "none"
    /\ UNCHANGED <<heap, bakFile, process, ghosts>>

\* The process dies.  If that is inside a call that changes malloc's own state in the
\* heap, the file may be torn: the change is half made, or a mutex in it is locked.
Die(insideMalloc) ==
    /\ \/ UNCHANGED mapFile
       \/ insideMalloc /\ mfd /\ mapFile' = "torn"
    /\ mfd' = FALSE /\ bfd' = FALSE
    /\ glob' = NoGlobals
    /\ next' = Head
    /\ lost' = (lost \/ ~whole)
    /\ UNCHANGED <<heap, bakFile, whole>>
=============================================================================
