------------------------------ MODULE HeapParts ------------------------------
(***************************************************************************)
(* Three parts of the allocator that nothing but their calls connects: the *)
(* runs of an arena (Arena), the containers (Containers) and the interface *)
(* as one block sees it (Requests).  A behaviour is one of one part; the   *)
(* others stay as they begin.                                              *)
(***************************************************************************)
EXTENDS Arena, Containers, Requests

CONSTANT Parts   \* those that are run, of "arena", "containers" and "interface"

VARIABLE part

\* One of the initial states of each part, for when it is not run.
FirstProgram   == CHOOSE p \in Programs : TRUE
FirstContainer == CHOOSE c \in NewContainers : TRUE
FirstOptions   == CHOOSE o \in Options : TRUE

Init ==
    /\ part \in Parts
    /\ ArenaInit /\ ContainersInit /\ RequestsInit
    /\ part = "arena"      \/ program = FirstProgram
    /\ part = "containers" \/ rep = FirstContainer
    /\ part = "interface"  \/ options = FirstOptions

ArenaPart ==
    part = "arena" /\ ArenaNext /\ UNCHANGED <<part, containerVars, requestVars>>
ContainersPart ==
    part = "containers" /\ ContainersNext /\ UNCHANGED <<part, arenaVars, requestVars>>
InterfacePart ==
    part = "interface" /\ RequestsNext /\ UNCHANGED <<part, arenaVars, containerVars>>

Next == ArenaPart \/ ContainersPart \/ InterfacePart

Spec == Init /\ [][Next]_<<part, arenaVars, containerVars, requestVars>>

\* The classes, the runs of the bins and the table from sizes to bins fit together, for
\* every choice of the options (arena.c:2334-2540); looked at when the interface is run.
ClassesAgree == part = "interface" => ClassesFit
=============================================================================
