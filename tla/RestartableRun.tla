--------------------------- MODULE RestartableRun ---------------------------
(***************************************************************************)
(* What hw5/p3/lake-perm.c promises with -r: a run that fails is continued *)
(* from the state of the last complete backup, which is a state the        *)
(* uninterrupted run goes through, and so its output is the uninterrupted  *)
(* run's.  A backup replaces the previous one in place: while it is made   *)
(* there is none, and a run that fails then is lost.                       *)
(***************************************************************************)
EXTENDS Integers

CONSTANTS
    First,        \* the state the computation starts in
    Step(_),      \* the state after one time step
    Finished(_),  \* the last time step is done
    Result(_),    \* what is printed then
    Idle, Lost, None  \* not begun; nothing to continue from; nothing printed

VARIABLES
    state,   \* of the computation
    saved,   \* the state in the backup
    output   \* lake_f.dat

runVars == <<state, saved, output>>

Init == state = Idle /\ saved = Lost /\ output = None

Begin ==
    /\ state = Idle
    /\ state' = First
    /\ UNCHANGED <<saved, output>>

Advance ==
    /\ state \notin {Idle, Lost}
    /\ ~Finished(state)
    /\ state' = Step(state)
    /\ UNCHANGED <<saved, output>>

\* The backup is overwritten, or removed at the end.
Discard ==
    /\ saved' = Lost
    /\ UNCHANGED <<state, output>>

Save ==
    /\ state # Idle
    /\ saved' = state
    /\ UNCHANGED <<state, output>>

Fail ==
    /\ state' = saved
    /\ UNCHANGED <<saved, output>>

PrintResult ==
    /\ state \notin {Idle, Lost}
    /\ Finished(state)
    /\ output' = Result(state)
    /\ UNCHANGED <<state, saved>>

\* A lost run may print anything.
PrintLost ==
    /\ state = Lost
    /\ UNCHANGED <<state, saved>>

Next == Begin \/ Advance \/ Discard \/ Save \/ Fail \/ PrintResult \/ PrintLost

Spec == Init /\ [][Next]_runVars
=============================================================================
