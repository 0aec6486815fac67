----------------------------- MODULE BarrierSync -----------------------------
(***************************************************************************)
(* What MPI_Barrier of hw2/q1_submit/my_mpi.c promises, whatever messages  *)
(* implement it: a call returns after every rank has made the same call.   *)
(***************************************************************************)
EXTENDS Integers

CONSTANT Rank

VARIABLES
    entered,  \* entered[r]: barriers rank r has entered
    left      \* left[r]: barriers rank r has come out of

vars == <<entered, left>>

Init == entered = [r \in Rank |-> 0] /\ left = [r \in Rank |-> 0]

Enter(r) ==
    /\ entered[r] = left[r]
    /\ entered' = [entered EXCEPT ![r] = @ + 1]
    /\ UNCHANGED left

Leave(r) ==
    /\ entered[r] > left[r]
    /\ \A s \in Rank : entered[s] > left[r]
    /\ left' = [left EXCEPT ![r] = @ + 1]
    /\ UNCHANGED entered

Next == \E r \in Rank : Enter(r) \/ Leave(r)

Spec == Init /\ [][Next]_vars
============================================================================
