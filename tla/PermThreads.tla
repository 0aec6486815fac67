---------------------------- MODULE PermThreads ----------------------------
(***************************************************************************)
(* The threads of a program on the persistent heap: who initialises malloc *)
(* (jemalloc.c), who opens the heap (perma.c), which arena a thread gets,  *)
(* and what is left of all that in the file when the process dies and is   *)
(* started again.  The heap is a shared mapping: the file always holds     *)
(* what memory holds, the mutexes in it included.                          *)
(*                                                                         *)
(* calls[t] is what thread t has yet to do.  arenas_lock, the mutexes of   *)
(* jemalloc_prefork, and perm_mtx outside mopen, are held within one step. *)
(***************************************************************************)
EXTENDS Integers, FiniteSetsExt, Sequences

CONSTANTS
    Threads, Main,
    NoThread, Gone,  \* nobody; a thread of a process that is gone
    NArenas,         \* opt_narenas
    CountWidth,      \* the bits of arena_t.nthreads
    Openers,         \* how the heap is opened: by mopen, by PERM_FNAME
    MaxMallocs,      \* a thread's calls of malloc that are considered
    MaxRuns          \* processes that are considered, after the first

\* The values of arena_t.nthreads.
CountRange == 2 ^ CountWidth

ASSUME ThreadsAssumption ==
    /\ Main \in Threads /\ NoThread \notin Threads /\ Gone \notin Threads \union {NoThread}
    /\ {NArenas, CountWidth} \subseteq Nat \ {0} /\ {MaxMallocs, MaxRuns} \subseteq Nat
    /\ CountRange \in Nat
    /\ IsFiniteSet(Threads) /\ Cardinality(Threads) < CountRange
    /\ Openers \subseteq {"mopen", "env"}

VARIABLES
    narenas, arenas,      \* of "system" memory and of the "heap"
    file,      \* the heap's file: "none", "header" (mopen has begun) or "heap" (it returned)
    image,     \* the heap in the backup file
    malloc_initialized, malloc_initializer, plib_initialized,
    mfd,       \* the heap is open, swap_enabled
    memory,    \* where plib, and with it the arenas, are
    perm_mtx,
    life, calls, mallocs,
    arena,     \* arenas_tls
    opener, run,
    restored,  \* ghost: restore has been called in this run
    raced      \* ghost: mopen has opened the heap while a thread was initialising malloc

heapVars == <<narenas, arenas>>
boot     == <<malloc_initialized, malloc_initializer, plib_initialized, mfd, memory>>
disk     == <<file, image>>
ghosts   == <<restored, raced>>
others   == <<life, mallocs, opener, run, ghosts>>
vars     == <<heapVars, boot, disk, perm_mtx, calls, arena, others>>

Arenas  == 0 .. NArenas - 1
None    == -1
NoArena == [made |-> FALSE, nthreads |-> 0, bin |-> NoThread]
NewArena == [made |-> TRUE, nthreads |-> 0, bin |-> NoThread]
Nothing == [i \in Arenas |-> NoArena]
NoImage == [narenas |-> 0, arenas |-> Nothing]

Mine   == arenas[memory]
Update(a) == arenas' = [arenas EXCEPT ![memory] = a]
\* nthreads is unsigned.
Plus(i, n, a) == [a EXCEPT ![i].nthreads = (@ + n) % CountRange]

Live(t)    == life[t] = "live"
At(t, what) == Live(t) /\ calls[t] # << >> /\ Head(calls[t]) = what
Idle(t)    == Live(t) /\ calls[t] = << >>
Rest(t)    == Tail(calls[t])
Goto(t, cs) == calls' = [calls EXCEPT ![t] = cs]
Return(t)  == Goto(t, Rest(t))

----------------------------------------------------------------------------
(* malloc_init *)

\* malloc_init, and malloc_init_hard up to init_lock: perm_open opens the heap.
MallocInit(t) ==
    /\ At(t, "init")
    /\ Goto(t, CASE malloc_initialized -> Rest(t)
                 [] ~malloc_initialized /\ ~mfd /\ opener = "env" ->
                        <<"mopen", "init_lock">> \o Rest(t)
                 [] OTHER -> <<"init_lock">> \o Rest(t))
    /\ UNCHANGED <<heapVars, boot, disk, perm_mtx, arena, others>>

\* Another thread is initialising.
Waiting(t) == malloc_initializer \notin {NoThread, t}

\* mutant: the threads of the last process are still counted
Recount_not(a) == a
\* The arenas of a heap that is opened again have no threads; their bins are not looked at.
Recount(a) == [i \in Arenas |-> [a[i] EXCEPT !.nthreads = 0]]

\* malloc_init_hard with init_lock: it has been done, somebody is at it, or this thread
\* makes the first arena its own and unlocks for malloc_ncpus.
InitLock(t) ==
    /\ At(t, "init_lock")
    /\ IF malloc_initialized \/ malloc_initializer = t
       THEN Return(t) /\ UNCHANGED <<heapVars, malloc_initializer, arena>>
       ELSE IF Waiting(t)
       THEN Goto(t, <<"spin">> \o Rest(t)) /\ UNCHANGED <<heapVars, malloc_initializer, arena>>
       ELSE /\ IF plib_initialized
               THEN Update(Plus(0, 1, Recount(Mine))) /\ UNCHANGED narenas
               ELSE /\ Update(Plus(0, 1, [Nothing EXCEPT ![0] = NewArena]))
                    /\ narenas' = [narenas EXCEPT ![memory] = 1]
            /\ malloc_initializer' = t
            /\ arena' = [arena EXCEPT ![t] = 0]
            /\ Goto(t, <<"init_end">> \o Rest(t))
    /\ UNCHANGED <<malloc_initialized, plib_initialized, mfd, memory, disk, perm_mtx, others>>

\* mutant: only a new heap is marked as initialised
Initialized_new == ~plib_initialized
\* malloc_initialized at the end of malloc_init_hard.
Initialized == TRUE

InitEnd(t) ==
    /\ At(t, "init_end")
    /\ narenas' = IF plib_initialized THEN narenas ELSE [narenas EXCEPT ![memory] = NArenas]
    /\ malloc_initialized' = Initialized
    /\ Return(t)
    /\ UNCHANGED <<arenas, malloc_initializer, plib_initialized, mfd, memory, disk, perm_mtx, arena, others>>

Spin(t) ==
    /\ At(t, "spin") /\ malloc_initialized
    /\ Return(t)
    /\ UNCHANGED <<heapVars, boot, disk, perm_mtx, arena, others>>

----------------------------------------------------------------------------
(* mopen *)

\* mutant: mopen does not look whether malloc has been called
TooLate_not == FALSE
TooLate == malloc_initialized

\* malloc_initialized is false and somebody has begun: mopen does not look at that.
Racing == malloc_initializer # NoThread /\ ~malloc_initialized

\* The heap is open, or it is too late, or the file is made anew or opened again.  A
\* program that did not get through its first mopen is begun anew ("w+").
Mopen(t) ==
    /\ At(t, "mopen") /\ perm_mtx = NoThread
    /\ IF mfd \/ TooLate
       THEN Return(t) /\ UNCHANGED <<heapVars, boot, disk, perm_mtx, raced>>
       ELSE /\ mfd' = TRUE
            /\ raced' = Racing
            /\ perm_mtx' = t
            /\ IF file = "heap"
               THEN plib_initialized' = TRUE /\ memory' = "heap" /\ UNCHANGED <<heapVars, file>>
               ELSE /\ file' = "header"
                    /\ memory' = IF malloc_initialized THEN memory ELSE "heap"
                    /\ arenas' = [arenas EXCEPT !["heap"] = Nothing]
                    /\ UNCHANGED <<narenas, plib_initialized>>
            /\ Goto(t, <<"init_lock", "mopen_end">> \o Rest(t))
            /\ UNCHANGED <<image, malloc_initialized, malloc_initializer>>
    /\ UNCHANGED <<arena, life, mallocs, opener, run, restored>>

MopenEnd(t) ==
    /\ At(t, "mopen_end")
    /\ plib_initialized' = TRUE
    /\ file' = "heap"
    /\ perm_mtx' = NoThread
    /\ Return(t)
    /\ UNCHANGED <<heapVars, malloc_initialized, malloc_initializer, mfd, memory, image, arena, others>>

----------------------------------------------------------------------------
(* Arenas *)

Made == {i \in 0 .. narenas[memory] - 1 : Mine[i].made}
\* The first arena with the fewest threads.
LeastLoaded ==
    Min({i \in Made : \A j \in Made : Mine[i].nthreads <= Mine[j].nthreads})
Empty == (0 .. narenas[memory] - 1) \ Made

\* arenas_extend, unless the arena exists
Extended(i) == IF i \in Made THEN Mine ELSE [Mine EXCEPT ![i] = NewArena]

\* choose_arena: a thread without an arena gets a new one, or the one with fewest threads
\* once all have been made (parenas[choose] == 0 is never true).
Choose(t) ==
    /\ At(t, "choose")
    /\ IF arena[t] # None THEN UNCHANGED <<arenas, arena>>
       ELSE LET i == IF Empty # {} THEN Min(Empty) ELSE LeastLoaded
            IN  /\ Update(Plus(i, 1, Extended(i)))
                /\ arena' = [arena EXCEPT ![t] = i]
    /\ Return(t)
    /\ UNCHANGED <<narenas, boot, disk, perm_mtx, others>>

\* thread_arena_ctl
SetArena(t) ==
    /\ At(t, "set_arena")
    /\ \E i \in 0 .. narenas[memory] - 1 :
          IF i = arena[t] THEN UNCHANGED <<arenas, arena>>
          ELSE /\ Update(Plus(i, 1, Plus(arena[t], -1, Extended(i))))
               /\ arena' = [arena EXCEPT ![t] = i]
    /\ Return(t)
    /\ UNCHANGED <<narenas, boot, disk, perm_mtx, others>>

\* arena_malloc_small, in its bin.
LockBin(t) ==
    /\ At(t, "lock") /\ Mine[arena[t]].bin = NoThread
    /\ Update([Mine EXCEPT ![arena[t]].bin = t])
    /\ Return(t)
    /\ UNCHANGED <<narenas, boot, disk, perm_mtx, arena, others>>

UnlockBin(t) ==
    /\ At(t, "unlock")
    /\ Update([Mine EXCEPT ![arena[t]].bin = NoThread])
    /\ Return(t)
    /\ UNCHANGED <<narenas, boot, disk, perm_mtx, arena, others>>

----------------------------------------------------------------------------
(* The program *)

AMalloc  == <<"init", "choose", "lock", "unlock">>
AMallctl == <<"init", "choose", "set_arena">>

Malloc(t) ==
    /\ Idle(t) /\ mallocs[t] < MaxMallocs
    /\ mallocs' = [mallocs EXCEPT ![t] = @ + 1]
    /\ \E call \in {AMalloc, AMallctl} : Goto(t, call)
    /\ UNCHANGED <<heapVars, boot, disk, perm_mtx, arena, life, opener, run, ghosts>>

Start(t) ==
    /\ life[t] = "none"
    /\ life' = [life EXCEPT ![t] = "live"]
    /\ UNCHANGED <<heapVars, boot, disk, perm_mtx, calls, mallocs, arena, opener, run, ghosts>>

\* arenas_cleanup
Exit(t) ==
    /\ t # Main /\ Idle(t)
    /\ IF arena[t] = None THEN UNCHANGED arenas ELSE Update(Plus(arena[t], -1, Mine))
    /\ arena' = [arena EXCEPT ![t] = None]
    /\ life' = [life EXCEPT ![t] = "gone"]
    /\ UNCHANGED <<narenas, boot, disk, perm_mtx, calls, mallocs, opener, run, ghosts>>

\* backup takes arenas_lock and every arena's lock (jemalloc_prefork), but no bin's.
Backup(t) ==
    /\ Idle(t) /\ mfd /\ perm_mtx = NoThread
    /\ image' = [narenas |-> narenas["heap"], arenas |-> arenas["heap"]]
    /\ UNCHANGED <<heapVars, boot, file, perm_mtx, calls, arena, others>>

\* There is no backup file open when mopen has failed.
Restore(t) ==
    /\ At(t, "restore")
    /\ IF mfd
       THEN /\ narenas' = [narenas EXCEPT !["heap"] = image.narenas]
            /\ arenas' = [arenas EXCEPT !["heap"] = image.arenas]
            /\ restored' = TRUE
       ELSE UNCHANGED <<heapVars, restored>>
    /\ Return(t)
    /\ UNCHANGED <<boot, disk, perm_mtx, arena, life, mallocs, opener, run, raced>>

\* What main does first: opens the heap, perhaps goes back to the backup or has called
\* malloc before; or lets malloc open the heap.
Scripts(how, backup) ==
    IF how = "env" THEN {AMalloc}
    ELSE {<<"mopen">>, AMalloc \o <<"mopen">>}
         \union (IF backup = NoImage THEN {} ELSE {<<"mopen", "restore">>})

\* The threads of a process that is gone still hold what they held in the file.
Left(a) == [i \in Arenas |-> [a[i] EXCEPT !.bin = IF @ = NoThread THEN NoThread ELSE Gone]]

Begin(script) ==
    /\ calls = [t \in Threads |-> IF t = Main THEN script ELSE << >>]
    /\ life = [t \in Threads |-> IF t = Main THEN "live" ELSE "none"]

\* The process dies, or ends, and the program is started again, on a new file when mopen
\* has raced.
Crash ==
    /\ run < MaxRuns
    /\ run' = run + 1
    /\ arenas' = [system |-> Nothing, heap |-> Left(arenas["heap"])]
    /\ narenas' = [narenas EXCEPT !["system"] = 0]
    /\ image' = [image EXCEPT !.arenas = Left(@)]
    /\ malloc_initialized' = FALSE /\ malloc_initializer' = NoThread
    /\ plib_initialized' = FALSE /\ mfd' = FALSE /\ memory' = "system"
    /\ perm_mtx' = NoThread /\ restored' = FALSE /\ raced' = FALSE
    /\ file' = IF raced THEN "header" ELSE file
    /\ arena' = [t \in Threads |-> None] /\ mallocs' = [t \in Threads |-> 0]
    /\ \E script \in Scripts(opener, image) :
          /\ (script[Len(script)] = "restore" => file' = "heap")
          /\ calls' = [t \in Threads |-> IF t = Main THEN script ELSE << >>]
    /\ life' = [t \in Threads |-> IF t = Main THEN "live" ELSE "none"]
    /\ UNCHANGED opener

Init ==
    /\ arenas = [system |-> Nothing, heap |-> Nothing]
    /\ narenas = [system |-> 0, heap |-> 0]
    /\ file = "none" /\ image = NoImage
    /\ malloc_initialized = FALSE /\ malloc_initializer = NoThread
    /\ plib_initialized = FALSE /\ mfd = FALSE /\ memory = "system"
    /\ perm_mtx = NoThread /\ restored = FALSE /\ raced = FALSE
    /\ arena = [t \in Threads |-> None] /\ mallocs = [t \in Threads |-> 0]
    /\ opener \in Openers /\ run = 0
    /\ \E script \in Scripts(opener, NoImage) : Begin(script)

\* When mopen has raced, the initialising thread and mopen change plib and the arenas
\* without a common lock: what the process does from then on is undefined.
Step(t) ==
    /\ ~raced
    /\ \/ MallocInit(t) \/ InitLock(t) \/ InitEnd(t) \/ Spin(t)
       \/ Mopen(t) \/ MopenEnd(t) \/ Restore(t)
       \/ Choose(t) \/ SetArena(t) \/ LockBin(t) \/ UnlockBin(t)

\* What the program chooses to do.
Act(t) == ~raced /\ (Start(t) \/ Malloc(t) \/ Exit(t) \/ Backup(t))

Next ==
    \/ \E t \in Threads : Step(t) \/ Act(t)
    \/ Crash

Spec == Init /\ [][Next]_vars
FairSpec == Spec /\ \A t \in Threads : WF_vars(Step(t))

----------------------------------------------------------------------------
(* Properties *)

\* Types of the state of jemalloc.c and perma.c; it is a part of Counted.
TypeOK ==
    /\ arenas \in [{"system", "heap"} -> [Arenas -> [made : BOOLEAN, nthreads : 0 .. CountRange - 1,
                                                     bin : Threads \union {NoThread, Gone}]]]
    /\ narenas \in [{"system", "heap"} -> 0 .. NArenas]
    /\ arena \in [Threads -> Arenas \union {None}]
    /\ perm_mtx \in Threads \union {NoThread} /\ malloc_initializer \in Threads \union {NoThread}
    /\ memory \in {"system", "heap"} /\ file \in {"none", "header", "heap"}
    /\ run \in 0 .. MaxRuns

\* An arena counts the threads that have it, those of an earlier process not among them:
\* two threads that initialise malloc at the same time, a thread that moves (thread.arena)
\* or ends and a heap that is opened again leave the count right.  After restore it is the
\* count of the backup.
Counted ==
    TypeOK /\ (~restored /\ ~raced => \A i \in Arenas :
        malloc_initializer # NoThread =>
            Mine[i].nthreads = Cardinality({t \in Threads : Live(t) /\ arena[t] = i}))

\* When the heap is open, what malloc hands out is in it: the user who thinks that memory
\* is persistent is right (perma.c:246).
HeapOnly == mfd => memory = "heap" /\ arenas["system"] = Nothing

\* A program that opened the heap never works on memory that is not persistent, whatever
\* other threads it had before that, unless one was initialising malloc just then.
Persistent == ~raced => HeapOnly

\* The lock of a bin was held when the heap was left or backed up, and nobody is in the bin.
StaleLock(i) ==
    /\ Mine[i].bin # NoThread
    /\ ~ \E t \in Threads : At(t, "unlock") /\ arena[t] = i /\ Mine[i].bin = t

\* Every call returns: no thread waits for ever for malloc's initialisation or for a bin,
\* unless the heap was left or backed up with the bin of its own arena locked, or mopen
\* has raced.
Served ==
    \A t \in Threads :
        calls[t] # << >> ~> \/ calls[t] = << >> \/ raced
                            \/ arena[t] # None /\ StaleLock(arena[t])
=============================================================================
