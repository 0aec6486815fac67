---------------------------- MODULE LakePrograms ----------------------------
(***************************************************************************)
(* The two lakes of the homeworks: hw3/lake.c with its parallel loops      *)
(* (LakeSim), and hw5/p3/lake-perm.c, which is killed and started again    *)
(* from its backup (LakePerm).  One of them is run.                        *)
(***************************************************************************)
EXTENDS LakeSim

CONSTANTS
    PermEndTime, MaxCrashes, evolve(_, _, _, _), Pebs, PermStart, Null,
    NBlocks, NoGlobals, PermJunk

VARIABLES
    program,                                           \* "lake" or "lake-perm"
    mapFile, heap, bakFile, mfd, bfd, glob, next, whole, lost,
    pc, restart, scratch, lake_i, lake_f, crashes      \* of lake-perm.c

permVars == <<mapFile, heap, bakFile, mfd, bfd, glob, next, whole, lost,
              pc, restart, scratch, lake_i, lake_f, crashes>>
allVars  == <<program, vars, permVars>>

Perm == INSTANCE LakePerm WITH EndTime <- PermEndTime, StartLake <- PermStart,
                               Junk <- PermJunk, u_cpu <- scratch

ASSUME PermAssumption == Perm!HeapFits

ProgramsInit ==
    /\ Init
    /\ Perm!Init
    /\ program \in IF build = "serial" THEN {"lake", "lake-perm"} ELSE {"lake"}

Lake     == program = "lake" /\ Next /\ UNCHANGED <<program, permVars>>
LakePerm == program = "lake-perm" /\ Perm!Next /\ UNCHANGED <<program, vars>>

ProgramsNext == Lake \/ LakePerm

\* In lake.c main runs and a loop goes on; lake-perm.c runs and is started again,
\* crashes come or not.
ProgramsSpec ==
    /\ ProgramsInit /\ [][ProgramsNext]_allVars
    /\ WF_allVars(Main /\ Lake)
    /\ WF_allVars((\E idx \in Cells : Compute(idx)) /\ Lake)
    /\ WF_allVars((Perm!Run \/ Perm!Restart) /\ LakePerm)

(* ------------------------------ properties ---------------------------- *)

\* The blocks of lake-perm.c are apart and allocated while it computes
\* (lake-perm.c:74-93).
BlocksApart == Perm!BlocksApart

\* A run that is killed and restarted, any number of times, continues from the state
\* of the last complete backup and prints the uninterrupted run's lake.
SameRun == Perm!SameRun

\* The program ends; lake-perm.c when it is restarted after every crash, unless a
\* death inside mopen, malloc or free has left a heap malloc cannot work on.
ProgramsEnd == <>(loop = "end" \/ pc = "end" \/ mapFile = "torn")

\* Memory persists after a call to a checkpoint function (README.PERM:27): a run whose
\* state a backup holds is not lost before it has printed its lake.
CheckpointPersists == [](whole /\ ~lost => [](lake_f # Null \/ ~lost))
=============================================================================
