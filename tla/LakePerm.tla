------------------------------ MODULE LakePerm ------------------------------
(***************************************************************************)
(* hw5/p3/lake-perm.c on the persistent heap: the lake is computed in      *)
(* blocks of the heap and backed up after every time step, and the program *)
(* may die between any two steps and be started again with -r.  An array   *)
(* is one value; evolve is a parameter.  Time is in units of dt.           *)
(***************************************************************************)
EXTENDS PermHeap

CONSTANTS
    EndTime,
    MaxCrashes,          \* crashes of one computation that are considered
    evolve(_, _, _, _),  \* evolve's result from uc, uo, pebbles and t
    Pebs, StartLake,     \* what init_pebbles and init leave in their arrays
    Null                 \* pointers and files that are not there yet

VARIABLES
    pc,
    restart,   \* do_restore
    u_cpu,     \* a local pointer: not in the heap
    lake_i, lake_f,
    crashes

\* What the proofs assume: the heap has room for the mallocs of every process, and
\* a PERM variable is zero when its process starts, as static data is.
HeapFits ==
    /\ {EndTime, MaxCrashes, NBlocks} \subseteq Nat
    /\ NBlocks >= 4 * (MaxCrashes + 1)
    /\ NoGlobals = [t |-> 0, u_i0 |-> Null, u_i1 |-> Null, pebs |-> Null]

lakeVars == <<restart, u_cpu, lake_i, lake_f, crashes>>
vars     == <<heap, disk, process, ghosts, pc, lakeVars>>
Goto(from, to) == pc = from /\ pc' = to

Mopen ==
    /\ \/ ~restart /\ Goto("mopen", "msave") /\ MopenCreate
       \/ Goto("msave", "bopen") /\ MopenSave
       \/ restart /\ Goto("mopen", "bopen") /\ MopenExisting
       \/ restart /\ Goto("mopen", "down") /\ MopenTorn
    /\ UNCHANGED lakeVars

Bopen ==
    /\ Goto("bopen", "malloc")
    /\ IF restart THEN BopenExisting ELSE BopenCreate
    /\ UNCHANGED lakeVars

Malloc_cpuFirst ==
    /\ Goto("malloc", IF restart THEN "restore" ELSE "init")
    /\ heap' = [heap EXCEPT !.used = @ \union {Lowest(k) : k \in 1 .. 4}]
    /\ glob' = [glob EXCEPT !.u_i0 = Lowest(2), !.u_i1 = Lowest(3), !.pebs = Lowest(4)]
    /\ u_cpu' = Lowest(1)
    /\ UNCHANGED <<disk, mfd, bfd, next, ghosts>>
    /\ UNCHANGED <<restart, lake_i, lake_f, crashes>>

\* The program's four mallocs.
Malloc ==
    /\ Goto("malloc", IF restart THEN "restore" ELSE "init")
    /\ heap' = [heap EXCEPT !.used = @ \union {Lowest(k) : k \in 1 .. 4}]
    /\ glob' = [glob EXCEPT !.u_i0 = Lowest(1), !.u_i1 = Lowest(2), !.pebs = Lowest(3)]
    /\ u_cpu' = Lowest(4)
    /\ UNCHANGED <<disk, mfd, bfd, next, ghosts>>
    /\ UNCHANGED <<restart, lake_i, lake_f, crashes>>

InitLake ==
    /\ Goto("init", "print_i")
    /\ glob' = [glob EXCEPT !.t = 0]
    /\ heap' = [heap EXCEPT !.mem[glob.pebs] = Pebs,
                            !.mem[glob.u_i0] = StartLake,
                            !.mem[glob.u_i1] = StartLake]
    /\ UNCHANGED <<disk, mfd, bfd, next, ghosts, lakeVars>>

PrintInitial ==
    /\ Goto("print_i", "mflush")
    /\ lake_i' = heap.mem[glob.u_i0]
    /\ UNCHANGED <<heap, disk, process, ghosts>>
    /\ UNCHANGED <<restart, u_cpu, lake_f, crashes>>

Mflush ==
    /\ Goto("mflush", "backup")
    /\ Flush
    /\ UNCHANGED lakeVars


Backup ==
    /\ \/ Goto("backup", "writing") /\ BackupStart
       \/ Goto("backup", "evolve") /\ BackupFails
       \/ Goto("writing", IF next = NBlocks THEN "evolve" ELSE "writing") /\ BackupWrite
    /\ UNCHANGED lakeVars

\* The result of restore is not looked at.
Restore ==
    /\ \/ Goto("restore", "reading") /\ RestoreStart
       \/ Goto("reading", IF next = NBlocks THEN "globals" ELSE "reading") /\ RestoreRead
       \/ Goto("globals", "evolve") /\ RestoreGlobals
       \/ \E at \in {"restore", "reading"} :
             Goto(at, "evolve") /\ RestoreFails(at = "reading")
    /\ UNCHANGED lakeVars

\* One turn of run_cpu: evolve reads u0 and u1, then the levels are copied on.
Evolve ==
    /\ Goto("evolve", "copy0")
    /\ heap' = [heap EXCEPT !.mem[u_cpu] =
                  evolve(heap.mem[glob.u_i0], heap.mem[glob.u_i1],
                         heap.mem[glob.pebs], glob.t)]
    /\ UNCHANGED <<disk, process, ghosts, lakeVars>>

Copy0 ==
    /\ Goto("copy0", "copy1")
    /\ heap' = [heap EXCEPT !.mem[glob.u_i0] = heap.mem[glob.u_i1]]
    /\ UNCHANGED <<disk, process, ghosts, lakeVars>>

Copy1 ==
    /\ Goto("copy1", "tpdt")
    /\ heap' = [heap EXCEPT !.mem[glob.u_i1] = heap.mem[u_cpu]]
    /\ UNCHANGED <<disk, process, ghosts, lakeVars>>

Tpdt_late ==
    /\ IF glob.t > EndTime
       THEN Goto("tpdt", "print_f") /\ UNCHANGED glob
       ELSE Goto("tpdt", "backup") /\ glob' = [glob EXCEPT !.t = @ + 1]
    /\ UNCHANGED <<heap, disk, mfd, bfd, next, ghosts, lakeVars>>

Tpdt ==
    /\ IF glob.t + 1 > EndTime
       THEN Goto("tpdt", "print_f") /\ UNCHANGED glob
       ELSE Goto("tpdt", "backup") /\ glob' = [glob EXCEPT !.t = @ + 1]
    /\ UNCHANGED <<heap, disk, mfd, bfd, next, ghosts, lakeVars>>

PrintFinal ==
    /\ Goto("print_f", "free")
    /\ lake_f' = heap.mem[u_cpu]
    /\ UNCHANGED <<heap, disk, process, ghosts>>
    /\ UNCHANGED <<restart, u_cpu, lake_i, crashes>>

\* The program's four frees.
Free ==
    LET blocks == {glob.u_i0, glob.u_i1, glob.pebs, u_cpu}
    IN  /\ Goto("free", "mclose")
        /\ heap' = [heap EXCEPT !.used = @ \ blocks]
        /\ UNCHANGED <<disk, process, ghosts>>
        /\ UNCHANGED <<restart, u_cpu, lake_i, lake_f, crashes>>

Mclose ==
    /\ Goto("mclose", "remove")
    /\ Close
    /\ UNCHANGED lakeVars

Remove ==
    /\ \/ Goto("remove", "remove2") /\ RemoveBackup
       \/ Goto("remove2", "end") /\ RemoveMap
    /\ UNCHANGED lakeVars

\* Where the program is inside mopen("w+"), malloc or free, those of stdio included.
CallsMalloc == {"msave", "bopen", "malloc", "init", "print_i", "restore", "print_f", "free"}

\* The process is killed.
Crash ==
    /\ pc \notin {"down", "end"}
    /\ crashes < MaxCrashes
    /\ pc' = "down"
    /\ crashes' = crashes + 1
    /\ u_cpu' = Null
    /\ Die(pc \in CallsMalloc)
    /\ UNCHANGED <<restart, lake_i, lake_f>>

\* The user starts the program again, with -r.
Restart ==
    /\ Goto("down", "mopen")
    /\ restart' = TRUE
    /\ UNCHANGED <<heap, disk, process, ghosts>>
    /\ UNCHANGED <<u_cpu, lake_i, lake_f, crashes>>

Init ==
    /\ HeapInit
    /\ pc = "mopen"
    /\ restart = FALSE
    /\ u_cpu = Null /\ lake_i = Null /\ lake_f = Null
    /\ crashes = 0

Run ==
    \/ Mopen \/ Bopen \/ Malloc
    \/ InitLake \/ PrintInitial \/ Mflush \/ Backup \/ Restore
    \/ Evolve \/ Copy0 \/ Copy1 \/ Tpdt
    \/ PrintFinal \/ Free \/ Mclose \/ Remove

Next == Run \/ Crash \/ Restart

Spec == Init /\ [][Next]_vars

(* ------------------------------ properties ---------------------------- *)

Computing == pc \in {"backup", "writing", "evolve", "copy0", "copy1", "tpdt", "print_f", "free"}

\* The three restored arrays and the scratch array of this process, which is not
\* restored (lake-perm.c:74), are four blocks, and malloc has them in use when they are
\* written and freed, but for the scratch array of a restarted process: restore puts
\* malloc back to a state in which it may be free.
BlocksApart ==
    Computing /\ ~lost =>
        /\ {glob.u_i0, glob.u_i1, glob.pebs} \subseteq heap.used \ {u_cpu}
        /\ Cardinality({glob.u_i0, glob.u_i1, glob.pebs}) = 3
        /\ restart \/ u_cpu \in heap.used

\* The computation's state as the backup has it and as the process has it.
Content(k) == bakFile[k].content

Apart(k) == [u0 |-> Null, u1 |-> Null, p |-> Null, t |-> k]
IdleState == Apart(-1)
LostState == Apart(-2)

SavedState ==
    IF lost \/ ~whole THEN LostState
    ELSE LET g == bakFile[Head].globals
         IN  [u0 |-> Content(g.u_i0), u1 |-> Content(g.u_i1),
              p |-> Content(g.pebs), t |-> g.t]

Levels(b0, b1, time) ==
    [u0 |-> heap.mem[b0], u1 |-> heap.mem[b1], p |-> heap.mem[glob.pebs], t |-> time]

CurrentState ==
    CASE lost -> LostState
      [] ~lost /\ pc \in {"mopen", "msave", "bopen", "malloc", "init"} /\ ~restart -> IdleState
      [] ~lost /\ pc \in {"down", "mopen", "bopen", "malloc", "restore", "reading", "globals"}
               /\ (restart \/ pc = "down") -> SavedState
      [] ~lost /\ pc = "copy0" -> Levels(glob.u_i1, u_cpu, glob.t + 1)
      [] ~lost /\ pc = "copy1" -> Levels(glob.u_i0, u_cpu, glob.t + 1)
      [] ~lost /\ pc \in {"tpdt", "print_f", "free", "mclose", "remove", "remove2", "end"}
               -> Levels(glob.u_i0, glob.u_i1, glob.t + 1)
      [] OTHER -> Levels(glob.u_i0, glob.u_i1, glob.t)

Uninterrupted ==
    INSTANCE RestartableRun
        WITH First <- [u0 |-> StartLake, u1 |-> StartLake, p |-> Pebs, t |-> 0],
             Step <- LAMBDA s : [u0 |-> s.u1, u1 |-> evolve(s.u0, s.u1, s.p, s.t),
                                 p |-> s.p, t |-> s.t + 1],
             Finished <- LAMBDA s : s.t > EndTime,
             Result <- LAMBDA s : s.u1,
             Idle <- IdleState, Lost <- LostState, None <- Null,
             state <- CurrentState, saved <- SavedState, output <- lake_f

\* A run that is killed and restarted, any number of times, continues from the state
\* of the last complete backup and prints the uninterrupted run's lake.
SameRun == Uninterrupted!Spec
=============================================================================
