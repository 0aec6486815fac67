------------------------------ MODULE LakeSim ------------------------------
(***************************************************************************)
(* hw3/lake.c and hw3/lake_opti.c: the wave equation on a lake, in three   *)
(* builds (serial, OpenMP, OpenACC).  A parallel loop hands out rows; a    *)
(* step computes one cell, so the rows of one loop interleave cell by      *)
(* cell.  The three time levels lie in one memory, at the offsets the      *)
(* program's malloc calls give them, because lake_opti.c cuts them out of  *)
(* a single block.  Time is counted in units of dt.                        *)
(***************************************************************************)
EXTENDS Integers, FiniteSets, Sequences

CONSTANTS
    n,                \* cells in a row
    Pebbles,          \* size of the pebble in each cell; 0 for none
    Scheme(_, _, _),  \* new value from the stencil of uc, the cell of uo, the source
    f(_, _),          \* source term of a pebble at a time
    EndTime,
    Optimised,  \* TRUE for lake_opti.c, FALSE for lake.c
    Builds,     \* builds of the program that are considered
    Threads,    \* values of nthreads on the command line
    Gangs,      \* rows an OpenACC loop computes at a time
    Junk        \* what malloc leaves in memory

ASSUME SimAssumption ==
    /\ EndTime \in Nat
    /\ Optimised \in BOOLEAN
    /\ Builds \subseteq {"serial", "omp", "acc"}
    /\ Threads \subseteq Nat \ {0}
    /\ Gangs \in Nat \ {0}

(* The grid: n x n cells numbered row by row, two rows and two columns of boundary on    *)
(* every side, and the 13-point scheme for the cells inside.                             *)

NN    == n * n
Cells == 0 .. NN - 1
Row(idx) == idx \div n

ASSUME GridAssumption == n \in Nat /\ n > 4

\* init_pebbles drops every pebble at least two cells away from the edge.
ASSUME PebblesAssumption ==
    /\ Pebbles \in [Cells -> Nat]
    /\ \A idx \in Cells : Pebbles[idx] # 0 =>
          Row(idx) \in 2 .. n - 3 /\ idx % n \in 2 .. n - 3

\* Mutant: one row of boundary, enough for a 9-point scheme.
Boundary_oneRow(idx) ==
    idx < n \/ idx > NN - 2 * n \/ idx % n <= 1 \/ idx % n >= n - 2

Boundary(idx) ==
    \/ idx < 2 * n
    \/ idx > NN - 2 * n
    \/ idx % n <= 1
    \/ idx % n >= n - 2

Stencil == {0, -1, 1, n, -n, n - 1, n + 1, -n - 1, -n + 1,
            -2, 2, 2 * n, -2 * n}

\* The new value of a cell: near gives uc around it, before is its value in uo.
NewValue(near, before, idx, t) ==
    IF Boundary(idx) THEN 0 ELSE Scheme(near, before, f(Pebbles[idx], t))

\* A whole step, and the configuration that both time levels start with.
Evolve(uc, uo, t) ==
    [idx \in Cells |->
        NewValue([d \in Stencil |-> uc[idx + d]], uo[idx], idx, t)]

StartLake == [idx \in Cells |-> f(Pebbles[idx], 0)]

VARIABLES
    build, nthreads,
    u_i0, u_i1, u_cpu,
    mem,          \* the memory run_sim allocates
    un, uc, uo,   \* where the three time levels start in it
    t,
    loop,         \* the loop or the statement main is at
    done,         \* iterations of the loop that are finished
    files         \* lakes written by print_heatmap

mainVars == <<build, nthreads, files>>
levels   == <<un, uc, uo, t>>
arrays   == <<u_i0, u_i1, u_cpu, mem>>
vars     == <<mainVars, levels, arrays, loop, done>>

\* Iterations of a loop that run at the same time.
Workers ==
    CASE loop \in {"init0", "init1", "copy", "omp"} /\ build = "omp" -> nthreads
      [] loop \in {"acc", "shift"} /\ build = "acc" -> Gangs
      [] OTHER -> 1

Busy == {i \in 0 .. n - 1 : i * n \in done /\ i * n + n - 1 \notin done}

\* A row is computed from left to right; one worker takes the rows in order.
Ready(idx) ==
    /\ idx \notin done
    /\ IF Workers = 1 THEN done = 0 .. idx - 1
       ELSE IF idx % n = 0 THEN Cardinality(Busy) < Workers
       ELSE idx - 1 \in done

Iteration(name, idx) ==
    /\ loop = name
    /\ Ready(idx)
    /\ done' = done \union {idx}
    /\ UNCHANGED <<mainVars, levels, loop>>

GoTo(next) == loop' = next /\ done' = {}

EndOf(name) == loop = name /\ done = Cells

InitCell0(idx) ==
    /\ Iteration("init0", idx)
    /\ u_i0' = [u_i0 EXCEPT ![idx] = f(Pebbles[idx], 0)]
    /\ UNCHANGED <<u_i1, u_cpu, mem>>

InitCell1(idx) ==
    /\ Iteration("init1", idx)
    /\ u_i1' = [u_i1 EXCEPT ![idx] = f(Pebbles[idx], 0)]
    /\ UNCHANGED <<u_i0, u_cpu, mem>>

EndInit ==
    /\ \/ EndOf("init0") /\ GoTo("init1")
       \/ EndOf("init1") /\ GoTo("print")
    /\ UNCHANGED <<mainVars, levels, arrays>>

PrintInitial ==
    /\ loop = "print"
    /\ files' = <<u_i0>>
    /\ GoTo("copy")
    /\ UNCHANGED <<build, nthreads, levels, arrays>>

CopyCell(idx) ==
    /\ Iteration("copy", idx)
    /\ mem' = [mem EXCEPT ![uo + idx] = u_i0[idx], ![uc + idx] = u_i1[idx]]
    /\ UNCHANGED <<u_i0, u_i1, u_cpu>>

\* lake_opti.c defines _OPENACC itself, so every build of it has that loop.
EndCopy ==
    /\ EndOf("copy")
    /\ t' = 0
    /\ GoTo(IF Optimised \/ build = "acc" THEN "acc" ELSE "omp")
    /\ UNCHANGED <<mainVars, arrays, un, uc, uo>>

\* What the scheme gives for a cell with the contents of uc and uo.
Stepped(idx) ==
    NewValue([d \in Stencil |-> mem[uc + idx + d]], mem[uo + idx], idx, t)

EvolveCell(idx) ==
    /\ \E name \in {"acc", "omp"} : Iteration(name, idx)
    /\ mem' = [mem EXCEPT ![un + idx] = Stepped(idx)]
    /\ UNCHANGED <<u_i0, u_i1, u_cpu>>

\* Mutant: the time is advanced past the end.
Tpdt_late(again, after) ==
    IF t > EndTime THEN t' = t /\ GoTo(after) ELSE t' = t + 1 /\ GoTo(again)

\* tpdt, and where the program goes on.
Tpdt(again, after) ==
    IF t + 1 > EndTime THEN t' = t /\ GoTo(after)
    ELSE t' = t + 1 /\ GoTo(again)

\* Mutants: the levels rotate in the wrong order; un is forgotten.
EndOmp_order ==
    /\ EndOf("omp")
    /\ uc' = un /\ uo' = un /\ un' = uo
    /\ Tpdt("omp", "output")
    /\ UNCHANGED <<mainVars, arrays>>

EndOmp_noTemp ==
    /\ EndOf("omp")
    /\ uo' = uc /\ uc' = un /\ un' = un
    /\ Tpdt("omp", "output")
    /\ UNCHANGED <<mainVars, arrays>>

EndOmp ==
    /\ EndOf("omp")
    /\ uo' = uc
    /\ uc' = un
    /\ un' = uo
    /\ Tpdt("omp", "output")
    /\ UNCHANGED <<mainVars, arrays>>

EndAcc ==
    /\ EndOf("acc")
    /\ GoTo("shift")
    /\ UNCHANGED <<mainVars, levels, arrays>>

ShiftCell(idx) ==
    /\ Iteration("shift", idx)
    /\ LET m == [mem EXCEPT ![uo + idx] = mem[uc + idx]]
       IN  mem' = [m EXCEPT ![uc + idx] = m[un + idx]]
    /\ UNCHANGED <<u_i0, u_i1, u_cpu>>

\* The OpenMP loop of lake_opti.c follows its OpenACC loop.
EndShift ==
    /\ EndOf("shift")
    /\ Tpdt("acc", IF Optimised /\ build = "omp" THEN "omp" ELSE "output")
    /\ UNCHANGED <<mainVars, arrays, un, uc, uo>>

Output ==
    /\ loop = "output"
    /\ u_cpu' = [idx \in Cells |-> mem[uc + idx]]
    /\ GoTo("final")
    /\ UNCHANGED <<mainVars, levels, u_i0, u_i1, mem>>

PrintFinal ==
    /\ loop = "final"
    /\ files' = Append(files, u_cpu)
    /\ GoTo("end")
    /\ UNCHANGED <<build, nthreads, levels, arrays>>

Init ==
    /\ build \in Builds
    /\ nthreads \in Threads /\ n % nthreads = 0
    /\ u_i0 = [idx \in Cells |-> Junk]
    /\ u_i1 = [idx \in Cells |-> Junk]
    /\ u_cpu = [idx \in Cells |-> Junk]
    /\ mem = [a \in 0 .. 3 * NN - 1 |-> Junk]
    /\ un = 0
    /\ IF Optimised THEN uc = n /\ uo = 2 * n ELSE uc = NN /\ uo = 2 * NN
    /\ t = 0
    /\ loop = "init0"
    /\ done = {}
    /\ files = << >>

Compute(idx) ==
    InitCell0(idx) \/ InitCell1(idx) \/ CopyCell(idx) \/ EvolveCell(idx) \/ ShiftCell(idx)

Main ==
    \/ EndInit \/ PrintInitial \/ EndCopy
    \/ EndOmp \/ EndAcc \/ EndShift
    \/ Output \/ PrintFinal

Next == Main \/ \E idx \in Cells : Compute(idx)

Spec == Init /\ [][Next]_vars

(* ------------------------------ properties ---------------------------- *)

\* Types of the state of lake.c.
TypeOK ==
    /\ build \in {"serial", "omp", "acc"}
    /\ {un, uc, uo} \subseteq 0 .. 2 * NN
    /\ DOMAIN mem = 0 .. 3 * NN - 1
    /\ t \in 0 .. EndTime
    /\ done \subseteq Cells
    /\ loop \in {"init0", "init1", "print", "copy", "acc", "shift", "omp",
                 "output", "final", "end"}

\* The addresses an iteration of the current loop writes, and those it reads.
Writes(idx) ==
    CASE loop \in {"acc", "omp"} -> {un + idx}
      [] loop \in {"copy", "shift"} -> {uo + idx, uc + idx}
      [] OTHER -> {}

Reads(idx) ==
    CASE loop \in {"acc", "omp"} ->
            IF Boundary(idx) THEN {}
            ELSE {uo + idx} \union {uc + idx + d : d \in Stencil}
      [] loop = "shift" -> {uc + idx, un + idx}
      [] OTHER -> {}

\* Two iterations that may run at the same time never conflict: neither writes
\* what the other reads or writes (lake.c:288 and 270, the arrays all threads share).
NoRace ==
    LET ready == {idx \in Cells : Ready(idx)}
    IN  \A a, b \in ready : a # b =>
            Writes(a) \intersect (Writes(b) \union Reads(b)) = {}

\* The boundary condition of lake.c:297 keeps every read of the stencil in uc.
ReadsInside ==
    loop \in {"acc", "omp"} =>
        \A idx \in Cells : Ready(idx) /\ ~Boundary(idx) =>
            \A d \in Stencil : idx + d \in Cells

\* The value of the sequential program's variables in a state of this one.
Level(base) == [idx \in Cells |-> mem[base + idx]]
Started == loop \notin {"init0", "init1", "print", "copy"}

CurLevel ==
    IF ~Started THEN StartLake
    ELSE IF loop = "shift" THEN Level(un)
    ELSE Level(uc)

OldLevel ==
    IF ~Started THEN StartLake
    ELSE IF loop = "shift"
         THEN [idx \in Cells |-> mem[(IF idx \in done THEN uo ELSE uc) + idx]]
    ELSE Level(uo)

StepsTaken == IF loop \in {"shift", "output", "final", "end"} THEN t + 1 ELSE t

Serial == INSTANCE SerialLake
            WITH Start <- StartLake, Step <- Evolve, EndTime <- EndTime,
                 cur <- CurLevel, old <- OldLevel, steps <- StepsTaken,
                 files <- files

\* Whatever the build and the number of threads, the program prints the lakes of
\* the sequential program: each parallel loop is one of its steps.
SameLake == Serial!Spec
=============================================================================
