----------------------------- MODULE SerialDeriv -----------------------------
(***************************************************************************)
(* What the derivative program computes, taken from the sequential version *)
(* hw1/q2/serial.c: one file with x, fn(x) and the finite difference at    *)
(* every grid point.  A value is the set of grid points it is computed     *)
(* from; points 0 and NGRID + 1 lie outside the grid.                      *)
(***************************************************************************)
EXTENDS Integers, Sequences

CONSTANT NGRID

VARIABLES
    file,  \* the tables print_function_data has written
    late   \* cells a parallel version does not answer for, none in serial.c

Table ==
    [xc  |-> [p \in 1 .. NGRID |-> {p}],
     yc  |-> [p \in 1 .. NGRID |-> {p}],
     dyc |-> [p \in 1 .. NGRID |-> {p - 1, p + 1}]]

\* A table of the same size, with the same values in all cells but the late ones.
Agrees(full) ==
    /\ DOMAIN full = DOMAIN Table
    /\ \A b \in DOMAIN Table :
         /\ DOMAIN full[b] = 1 .. NGRID
         /\ \A p \in 1 .. NGRID : <<b, p>> \notin late => full[b][p] = Table[b][p]

Init  == file = << >>
PrintFile == file = << >> /\ Len(file') = 1 /\ Agrees(file'[1])
Spec  == Init /\ [][PrintFile]_file
============================================================================
