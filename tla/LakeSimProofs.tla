---------------------------- MODULE LakeSimProofs ----------------------------
(***************************************************************************)
(* hw3/lake.c implements the sequential program, for every grid size, end  *)
(* time, arithmetic, build and number of threads.                          *)
(***************************************************************************)
EXTENDS LakePrograms, TLAPS

LEMMA DivMod ==
    ASSUME NEW a \in Int, NEW b \in Nat \ {0}
    PROVE  /\ a = b * (a \div b) + (a % b)
           /\ a % b >= 0 /\ a % b < b
           /\ a \div b \in Int /\ a % b \in Int
<1>1. a = b * (a \div b) + (a % b)
  OBVIOUS
<1>2. a % b >= 0 /\ a % b < b /\ a % b \in Int
  OBVIOUS
<1>3. a \div b \in Int
  OBVIOUS
<1> QED
  BY <1>1, <1>2, <1>3

LEMMA Remainder ==
    ASSUME NEW b \in Nat \ {0}, NEW p \in Int, NEW q \in Int, NEW r \in Int,
           r >= 0, r < b, b * p = b * q + r
    PROVE  r = 0
<1> DEFINE k == p - q
<1>1. k \in Int /\ b * k = r
  OBVIOUS
<1>2. k >= 1 => b * k >= b
  OBVIOUS
<1>3. k <= -1 => b * k < 0
  OBVIOUS
<1>4. k = 0 => b * k = 0
  OBVIOUS
<1> QED
  BY <1>1, <1>2, <1>3, <1>4

\* The largest number the boundary condition lets through starts a row.
LEMMA LastRows ==
    (NN - 2 * n) % n = 0
<1>1. n \in Nat \ {0} /\ n - 2 \in Int
  BY GridAssumption
<1> DEFINE c == n * (n - 2)
<1>2. c \in Int /\ NN - 2 * n = c
  BY <1>1 DEF NN
<1> HIDE DEF c
<1>3. /\ c = n * (c \div n) + (c % n)
       /\ c % n >= 0 /\ c % n < n
       /\ c \div n \in Int /\ c % n \in Int
  BY <1>1, <1>2, DivMod
<1>4. n * (n - 2) = n * (c \div n) + (c % n)
  BY <1>3 DEF c
<1>5. c % n = 0
  BY <1>1, <1>3, <1>4, Remainder
<1> QED
  BY <1>2, <1>5

\* The stencil of a cell inside reads cells of the grid only (lake.c:297 and 305).
LEMMA StencilInside ==
    ASSUME NEW c \in Cells, ~Boundary(c), NEW d \in Stencil
    PROVE  c + d \in Cells
<1>1. n \in Int /\ n > 4 /\ NN \in Int
  BY GridAssumption DEF NN
<1>2. c # NN - 2 * n
  BY <1>1, LastRows DEF Boundary, Cells
<1>3. c >= 2 * n /\ c < NN - 2 * n
  BY <1>1, <1>2 DEF Boundary, Cells
<1> HIDE DEF NN
<1> QED
  BY <1>1, <1>3 DEF Stencil, Cells

(* -------------------------- inductive invariant ----------------------- *)

IsArray(a, S) == a = [x \in S |-> a[x]]

Shape ==
    /\ IsArray(u_i0, Cells) /\ IsArray(u_i1, Cells)
    /\ IsArray(mem, 0 .. 3 * NN - 1)
    /\ t \in 0 .. EndTime
    /\ done \subseteq Cells
    /\ loop \in {"init0", "init1", "print", "copy", "acc", "shift", "omp",
                 "output", "final", "end"}

\* The three time levels are apart, before and after any number of rotations.
Layout ==
    /\ un \in {0, NN, 2 * NN} /\ uc \in {0, NN, 2 * NN} /\ uo \in {0, NN, 2 * NN}
    /\ un # uc /\ uc # uo /\ uo # un

\* What the finished iterations of a loop have left behind.
Made ==
    /\ loop \in {"init0", "init1", "print", "copy"} => t = 0
    /\ loop = "init0" => \A c \in done : u_i0[c] = StartLake[c]
    /\ loop \in {"init1", "print", "copy"} => u_i0 = StartLake
    /\ loop = "init1" => \A c \in done : u_i1[c] = StartLake[c]
    /\ loop \in {"print", "copy"} => u_i1 = StartLake
    /\ loop = "copy" => \A c \in done : /\ mem[uo + c] = StartLake[c]
                                        /\ mem[uc + c] = StartLake[c]
    /\ loop \in {"acc", "omp"} => \A c \in done : mem[un + c] = Stepped(c)
    /\ loop = "shift" => \A c \in done : mem[uc + c] = mem[un + c]
    /\ loop \in {"output", "final", "end"} => t + 1 > EndTime
    /\ loop = "final" => u_cpu = Level(uc)

Printed ==
    /\ loop \in {"init0", "init1", "print"} => files = << >>
    /\ loop \in {"copy", "acc", "shift", "omp", "output", "final"} =>
           files = <<StartLake>>

SimInv == Shape /\ Layout /\ Made /\ Printed

LEMMA Sizes ==
    NN \in Nat /\ NN > 0 /\ n \in Nat /\ EndTime \in Nat /\ Stencil \subseteq Int
  BY GridAssumption, SimAssumption DEF NN, Stencil

LEMMA InitInv == ASSUME ~Optimised PROVE Init => SimInv
  BY Sizes DEF Init, SimInv, Shape, Layout, Made, Printed, IsArray

\* Where iteration c reads and writes, whatever the rotation.
LEMMA Addresses ==
    ASSUME Layout, NEW c \in Cells, NEW a \in Cells
    PROVE  /\ un + c \in 0 .. 3 * NN - 1 /\ uc + c \in 0 .. 3 * NN - 1
           /\ uo + c \in 0 .. 3 * NN - 1
           /\ un + c # uc + a /\ un + c # uo + a /\ uc + c # uo + a
           /\ a # c => un + c # un + a /\ uc + c # uc + a /\ uo + c # uo + a
<1>1. NN \in Nat /\ c \in Int /\ a \in Int /\ c >= 0 /\ a >= 0 /\ c < NN /\ a < NN
  BY Sizes DEF Cells
<1> QED
  BY <1>1 DEF Layout

\* The cells of the stencil, as addresses.
LEMMA Near ==
    ASSUME Layout, NEW c \in Cells, ~Boundary(c), NEW d \in Stencil
    PROVE  uc + c + d = uc + (c + d) /\ c + d \in Cells
<1>1. c \in Int /\ d \in Int /\ uc \in Int
  BY Sizes DEF Layout, Cells
<1> QED
  BY <1>1, StencilInside

\* A cell that is computed does not change what another one is computed from.
LEMMA SteppedKept ==
    ASSUME SimInv, NEW idx \in Cells, NEW v,
           mem' = [mem EXCEPT ![un + idx] = v],
           UNCHANGED <<un, uc, uo, t>>,
           NEW c \in Cells
    PROVE  Stepped(c)' = Stepped(c)
<1>1. mem[uo + c] = mem'[uo + c]
  BY Addresses DEF SimInv, Shape, IsArray
<1>2. CASE Boundary(c)
  BY <1>2 DEF Stepped, NewValue
<1>3. CASE ~Boundary(c)
  <2>1. ASSUME NEW d \in Stencil
        PROVE  mem'[uc + c + d] = mem[uc + c + d]
    <3>1. uc + c + d = uc + (c + d) /\ c + d \in Cells
      BY <1>3, Near DEF SimInv
    <3>2. uc + (c + d) \in 0 .. 3 * NN - 1 /\ un + idx # uc + (c + d)
      BY <3>1, Addresses DEF SimInv
    <3> QED
      BY <3>1, <3>2 DEF SimInv, Shape, IsArray
  <2> QED
    BY <1>1, <2>1 DEF Stepped
<1> QED
  BY <1>2, <1>3

LEMMA EvolveCellInv ==
    ASSUME SimInv, NEW idx \in Cells, EvolveCell(idx)
    PROVE  SimInv'
<1>1. /\ loop \in {"acc", "omp"} /\ loop' = loop
      /\ done' = done \union {idx}
      /\ mem' = [mem EXCEPT ![un + idx] = Stepped(idx)]
      /\ UNCHANGED <<un, uc, uo, t, u_i0, u_i1, u_cpu, files>>
  BY DEF EvolveCell, Iteration, levels, mainVars
<1>2. ASSUME NEW c \in done \union {idx}
      PROVE  mem'[un + c] = Stepped(c)'
  <2>1. c \in Cells
    BY DEF SimInv, Shape
  <2>2. Stepped(c)' = Stepped(c)
    BY <1>1, <2>1, SteppedKept
  <2> QED
    BY <1>1, <2>1, <2>2, Addresses DEF SimInv, Shape, Made, IsArray
<1>3. Shape'
  BY <1>1 DEF SimInv, Shape, IsArray
<1>4. Layout' /\ Printed'
  BY <1>1 DEF SimInv, Layout, Printed
<1>5. Made'
  BY <1>1, <1>2 DEF SimInv, Made
<1> QED
  BY <1>3, <1>4, <1>5 DEF SimInv

LEMMA CopyCellInv ==
    ASSUME SimInv, NEW idx \in Cells, CopyCell(idx)
    PROVE  SimInv'
<1>1. /\ loop = "copy" /\ loop' = loop
      /\ done' = done \union {idx}
      /\ mem' = [mem EXCEPT ![uo + idx] = u_i0[idx], ![uc + idx] = u_i1[idx]]
      /\ UNCHANGED <<un, uc, uo, t, u_i0, u_i1, u_cpu, files>>
  BY DEF CopyCell, Iteration, levels, mainVars
<1>2. ASSUME NEW c \in done \union {idx}
      PROVE  mem'[uo + c] = StartLake[c] /\ mem'[uc + c] = StartLake[c]
  <2>1. c \in Cells /\ u_i0 = StartLake /\ u_i1 = StartLake
    BY <1>1 DEF SimInv, Shape, Made
  <2>2. c # idx => c \in done
    OBVIOUS
  <2> QED
    BY <1>1, <2>1, <2>2, Addresses DEF SimInv, Shape, Made, IsArray
<1>3. Shape'
  BY <1>1 DEF SimInv, Shape, IsArray
<1>4. Layout' /\ Printed'
  BY <1>1 DEF SimInv, Layout, Printed
<1>5. Made'
  BY <1>1, <1>2 DEF SimInv, Made
<1> QED
  BY <1>3, <1>4, <1>5 DEF SimInv

LEMMA ShiftCellInv ==
    ASSUME SimInv, NEW idx \in Cells, ShiftCell(idx)
    PROVE  SimInv'
<1> DEFINE m == [mem EXCEPT ![uo + idx] = mem[uc + idx]]
<1>1. /\ loop = "shift" /\ loop' = loop
      /\ done' = done \union {idx}
      /\ mem' = [m EXCEPT ![uc + idx] = m[un + idx]]
      /\ UNCHANGED <<un, uc, uo, t, u_i0, u_i1, u_cpu, files>>
  BY DEF ShiftCell, Iteration, levels, mainVars
<1>2. ASSUME NEW c \in done \union {idx}
      PROVE  mem'[uc + c] = mem'[un + c]
  <2>1. c \in Cells /\ (c # idx => c \in done)
    BY DEF SimInv, Shape
  <2> QED
    BY <1>1, <2>1, Addresses DEF SimInv, Shape, Made, IsArray
<1>3. Shape'
  <2>1. IsArray(m, 0 .. 3 * NN - 1)
    BY DEF SimInv, Shape, IsArray
  <2> HIDE DEF m
  <2>2. IsArray(mem, 0 .. 3 * NN - 1)'
    BY <1>1, <2>1 DEF IsArray
  <2> QED
    BY <1>1, <2>2 DEF SimInv, Shape, IsArray
<1>4. Layout' /\ Printed'
  BY <1>1 DEF SimInv, Layout, Printed
<1>5. Made'
  BY <1>1, <1>2 DEF SimInv, Made
<1> QED
  BY <1>3, <1>4, <1>5 DEF SimInv

LEMMA InitCellInv ==
    ASSUME SimInv, NEW idx \in Cells, InitCell0(idx) \/ InitCell1(idx)
    PROVE  SimInv'
<1>1. CASE InitCell0(idx)
  <2>1. /\ loop = "init0" /\ loop' = loop
        /\ done' = done \union {idx}
        /\ u_i0' = [u_i0 EXCEPT ![idx] = f(Pebbles[idx], 0)]
        /\ UNCHANGED <<un, uc, uo, t, mem, u_i1, u_cpu, files>>
    BY <1>1 DEF InitCell0, Iteration, levels, mainVars
  <2>2. Shape' /\ Layout' /\ Printed'
    BY <2>1 DEF SimInv, Shape, Layout, Printed, IsArray
  <2>3. Made'
    BY <2>1 DEF SimInv, Shape, Made, StartLake, IsArray
  <2> QED
    BY <2>2, <2>3 DEF SimInv
<1>2. CASE InitCell1(idx)
  <2>1. /\ loop = "init1" /\ loop' = loop
        /\ done' = done \union {idx}
        /\ u_i1' = [u_i1 EXCEPT ![idx] = f(Pebbles[idx], 0)]
        /\ UNCHANGED <<un, uc, uo, t, mem, u_i0, u_cpu, files>>
    BY <1>2 DEF InitCell1, Iteration, levels, mainVars
  <2>2. Shape' /\ Layout' /\ Printed'
    BY <2>1 DEF SimInv, Shape, Layout, Printed, IsArray
  <2>3. Made'
    BY <2>1 DEF SimInv, Shape, Made, StartLake, IsArray
  <2> QED
    BY <2>2, <2>3 DEF SimInv
<1> QED
  BY <1>1, <1>2

LEMMA MainInv ==
    ASSUME SimInv, ~Optimised, Main
    PROVE  SimInv'
<1>1. CASE EndInit
  <2>1. loop = "init0" => u_i0 = StartLake
    BY <1>1 DEF EndInit, EndOf, SimInv, Shape, Made, StartLake, IsArray
  <2>2. loop = "init1" => u_i1 = StartLake
    BY <1>1 DEF EndInit, EndOf, SimInv, Shape, Made, StartLake, IsArray
  <2> QED
    BY <1>1, <2>1, <2>2 DEF EndInit, EndOf, GoTo, SimInv, Shape, Layout, Made,
       Printed, levels, arrays, mainVars, IsArray
<1>2. CASE PrintInitial
  BY <1>2 DEF PrintInitial, GoTo, SimInv, Shape, Layout, Made, Printed,
     levels, arrays, IsArray
<1>3. CASE EndCopy
  BY <1>3, Sizes DEF EndCopy, EndOf, GoTo, SimInv, Shape, Layout, Made, Printed,
     levels, arrays, mainVars, IsArray
<1>4. CASE EndOmp
  BY <1>4, Sizes DEF EndOmp, EndOf, Tpdt, GoTo, SimInv, Shape, Layout, Made,
     Printed, arrays, mainVars, IsArray
<1>5. CASE EndAcc
  BY <1>5 DEF EndAcc, EndOf, GoTo, SimInv, Shape, Layout, Made, Printed,
     levels, arrays, mainVars, IsArray
<1>6. CASE EndShift
  BY <1>6, Sizes DEF EndShift, EndOf, Tpdt, GoTo, SimInv, Shape, Layout, Made,
     Printed, arrays, mainVars, IsArray
<1>7. CASE Output
  BY <1>7 DEF Output, GoTo, SimInv, Shape, Layout, Made, Printed, Level,
     levels, mainVars, IsArray
<1>8. CASE PrintFinal
  BY <1>8 DEF PrintFinal, GoTo, SimInv, Shape, Layout, Made, Printed,
     levels, arrays, IsArray
<1> QED
  BY <1>1, <1>2, <1>3, <1>4, <1>5, <1>6, <1>7, <1>8 DEF Main

LEMMA NextInv ==
    ASSUME ~Optimised PROVE SimInv /\ [Next]_vars => SimInv'
<1> SUFFICES ASSUME SimInv, [Next]_vars PROVE SimInv'
  OBVIOUS
<1>1. CASE Main
  BY <1>1, MainInv
<1>2. ASSUME NEW idx \in Cells, Compute(idx)
      PROVE  SimInv'
  BY <1>2, InitCellInv, CopyCellInv, EvolveCellInv, ShiftCellInv DEF Compute
<1>3. CASE UNCHANGED vars
  <2>1. /\ UNCHANGED <<u_i0, u_i1, u_cpu, mem>>
        /\ UNCHANGED <<un, uc, uo, t>>
        /\ UNCHANGED <<loop, done, files>>
    BY <1>3 DEF vars, mainVars, levels, arrays
  <2>2. \A c : Stepped(c)' = Stepped(c)
    BY <2>1 DEF Stepped
  <2>3. Made'
    BY <2>1, <2>2 DEF SimInv, Made, Level
  <2>4. Shape' /\ Layout' /\ Printed'
    BY <2>1 DEF SimInv, Shape, Layout, Printed, IsArray
  <2> QED
    BY <2>3, <2>4 DEF SimInv
<1> QED
  BY <1>1, <1>2, <1>3 DEF Next

(* ------------------------------ refinement ---------------------------- *)

LEMMA InitSerial == ASSUME ~Optimised PROVE Init => Serial!Init
  BY DEF Init, Serial!Init, CurLevel, OldLevel, StepsTaken, Started

\* A whole parallel loop has computed what the sequential step computes.
LEMMA WholeStep ==
    ASSUME SimInv, loop \in {"acc", "omp"}, done = Cells
    PROVE  Level(un) = Evolve(CurLevel, OldLevel, t)
<1>1. CurLevel = Level(uc) /\ OldLevel = Level(uo)
  BY DEF CurLevel, OldLevel, Started
<1>2. ASSUME NEW c \in Cells
      PROVE  Level(un)[c] = Evolve(Level(uc), Level(uo), t)[c]
  <2>1. Level(un)[c] = Stepped(c) /\ Level(uo)[c] = mem[uo + c]
    BY DEF SimInv, Made, Level
  <2>2. CASE Boundary(c)
    BY <2>1, <2>2 DEF Stepped, NewValue, Evolve
  <2>3. CASE ~Boundary(c)
    <3>1. ASSUME NEW d \in Stencil
          PROVE  mem[uc + c + d] = Level(uc)[c + d]
      BY <2>3, Near DEF SimInv, Level
    <3>2. [d \in Stencil |-> mem[uc + c + d]] = [d \in Stencil |-> Level(uc)[c + d]]
      BY <3>1
    <3> QED
      BY <2>1, <3>2 DEF Stepped, Evolve
  <2> QED
    BY <2>2, <2>3
<1>3. Level(un) = [c \in Cells |-> Level(un)[c]]
  BY DEF Level
<1>4. Evolve(Level(uc), Level(uo), t)
        = [c \in Cells |-> Evolve(Level(uc), Level(uo), t)[c]]
  BY DEF Evolve
<1> QED
  BY <1>1, <1>2, <1>3, <1>4

LEMMA NextSerial ==
    ASSUME ~Optimised, SimInv, SimInv', [Next]_vars
    PROVE  [Serial!Next]_Serial!lakeVars
<1>1. ASSUME NEW idx \in Cells, InitCell0(idx) \/ InitCell1(idx) \/ CopyCell(idx)
      PROVE  UNCHANGED Serial!lakeVars
  BY <1>1 DEF InitCell0, InitCell1, CopyCell, Iteration, mainVars, levels,
     Serial!lakeVars, CurLevel, OldLevel, StepsTaken, Started
<1>2. ASSUME NEW idx \in Cells, EvolveCell(idx)
      PROVE  UNCHANGED Serial!lakeVars
  <2>1. /\ loop \in {"acc", "omp"} /\ loop' = loop
        /\ mem' = [mem EXCEPT ![un + idx] = Stepped(idx)]
        /\ UNCHANGED <<un, uc, uo, t, files>>
    BY <1>2 DEF EvolveCell, Iteration, levels, mainVars
  <2>2. ASSUME NEW c \in Cells
        PROVE  mem'[uc + c] = mem[uc + c] /\ mem'[uo + c] = mem[uo + c]
    BY <2>1, Addresses DEF SimInv, Shape, IsArray
  <2>3. Level(uc)' = Level(uc) /\ Level(uo)' = Level(uo)
    BY <2>1, <2>2 DEF Level
  <2> QED
    BY <2>1, <2>3 DEF Serial!lakeVars, CurLevel, OldLevel, StepsTaken, Started
<1>3. ASSUME NEW idx \in Cells, ShiftCell(idx)
      PROVE  UNCHANGED Serial!lakeVars
  <2> DEFINE m == [mem EXCEPT ![uo + idx] = mem[uc + idx]]
  <2>1. /\ loop = "shift" /\ loop' = loop
        /\ done' = done \union {idx} /\ idx \notin done
        /\ mem' = [m EXCEPT ![uc + idx] = m[un + idx]]
        /\ UNCHANGED <<un, uc, uo, t, files>>
    BY <1>3 DEF ShiftCell, Iteration, Ready, levels, mainVars
  <2>2. ASSUME NEW c \in Cells
        PROVE  /\ mem'[un + c] = mem[un + c]
               /\ mem'[(IF c \in done' THEN uo ELSE uc) + c]
                    = mem[(IF c \in done THEN uo ELSE uc) + c]
    BY <2>1, Addresses DEF SimInv, Shape, IsArray
  <2>3. Level(un)' = Level(un)
    BY <2>1, <2>2 DEF Level
  <2>4. OldLevel' = OldLevel
    BY <2>1, <2>2 DEF OldLevel, Started
  <2> QED
    BY <2>1, <2>3, <2>4 DEF Serial!lakeVars, CurLevel, StepsTaken, Started
<1>4. CASE EndInit
  BY <1>4 DEF EndInit, GoTo, EndOf, mainVars, levels, arrays,
     Serial!lakeVars, CurLevel, OldLevel, StepsTaken, Started
<1>5. CASE PrintInitial
  BY <1>5 DEF PrintInitial, GoTo, levels, arrays, SimInv, Made, Printed, Serial!Next,
     Serial!PrintInitial, CurLevel, OldLevel, StepsTaken, Started
<1>6. CASE EndCopy
  <2>1. Level(uc) = StartLake /\ Level(uo) = StartLake
    BY <1>6 DEF EndCopy, EndOf, SimInv, Made, Level, StartLake
  <2>2. t = 0 /\ t' = 0
    BY <1>6 DEF EndCopy, EndOf, SimInv, Made
  <2> QED
    BY <1>6, <2>1, <2>2 DEF EndCopy, GoTo, EndOf, mainVars, arrays, Level,
       Serial!lakeVars, CurLevel, OldLevel, StepsTaken, Started
<1>7. CASE EndOmp
  <2>1. Level(un) = Evolve(CurLevel, OldLevel, t) /\ CurLevel = Level(uc)
    BY <1>7, WholeStep DEF EndOmp, EndOf, CurLevel, Started
  <2>2. CurLevel' = Level(un) /\ OldLevel' = Level(uc)
    BY <1>7 DEF EndOmp, Tpdt, GoTo, arrays, CurLevel, OldLevel, Started, Level
  <2>3. StepsTaken = t /\ StepsTaken' = t + 1 /\ t <= EndTime
    <3>1. loop = "omp" /\ t \in 0 .. EndTime
      BY <1>7 DEF EndOmp, EndOf, SimInv, Shape
    <3>2. \/ t' = t /\ loop' = "output"
          \/ t' = t + 1 /\ loop' = "omp"
      BY <1>7 DEF EndOmp, Tpdt, GoTo
    <3> QED
      BY <3>1, <3>2, Sizes DEF StepsTaken
  <2> QED
    BY <1>7, <2>1, <2>2, <2>3 DEF EndOmp, EndOf, mainVars, SimInv, Printed,
       Serial!Next, Serial!Advance
<1>8. CASE EndAcc
  <2>1. Level(un) = Evolve(CurLevel, OldLevel, t) /\ CurLevel = Level(uc)
    BY <1>8, WholeStep DEF EndAcc, EndOf, CurLevel, Started
  <2>2. CurLevel' = Level(un) /\ OldLevel' = Level(uc)
    BY <1>8 DEF EndAcc, GoTo, levels, arrays, CurLevel, OldLevel, Started, Level
  <2>3. StepsTaken = t /\ StepsTaken' = t + 1 /\ t <= EndTime
    BY <1>8, Sizes DEF EndAcc, EndOf, GoTo, levels, StepsTaken, SimInv, Shape
  <2> QED
    BY <1>8, <2>1, <2>2, <2>3 DEF EndAcc, EndOf, mainVars, SimInv, Printed,
       Serial!Next, Serial!Advance
<1>9. CASE EndShift
  <2>1. loop = "shift" /\ done = Cells /\ loop' \in {"acc", "output"} /\ done' = {}
    BY <1>9 DEF EndShift, EndOf, Tpdt, GoTo
  <2>2. UNCHANGED <<mem, un, uc, uo, files>>
    BY <1>9 DEF EndShift, arrays, mainVars
  <2>3. Level(uc) = Level(un)
    BY <2>1 DEF SimInv, Made, Level
  <2>4. CurLevel' = CurLevel
    BY <2>1, <2>2, <2>3 DEF CurLevel, Started, Level
  <2>5. OldLevel' = OldLevel
    BY <2>1, <2>2 DEF OldLevel, Started, Level
  <2>6. StepsTaken' = StepsTaken
    BY <1>9, <2>1 DEF EndShift, Tpdt, GoTo, StepsTaken
  <2> QED
    BY <2>2, <2>4, <2>5, <2>6 DEF Serial!lakeVars
<1>10. CASE Output
  BY <1>10 DEF Output, GoTo, mainVars, levels,
     Serial!lakeVars, CurLevel, OldLevel, StepsTaken, Started, Level
<1>11. CASE PrintFinal
  <2>1. t + 1 = EndTime + 1
    BY <1>11, Sizes DEF PrintFinal, SimInv, Shape, Made
  <2> QED
    BY <1>11, <2>1 DEF PrintFinal, GoTo, levels, arrays, SimInv, Made, Printed,
       Serial!Next, Serial!PrintFinal, CurLevel, OldLevel, StepsTaken, Started, Level
<1>12. CASE UNCHANGED vars
  BY <1>12 DEF vars, mainVars, levels, arrays, Serial!lakeVars,
     CurLevel, OldLevel, StepsTaken, Started, Level
<1> QED
  BY <1>1, <1>2, <1>3, <1>4, <1>5, <1>6, <1>7, <1>8, <1>9, <1>10, <1>11, <1>12
  DEF Next, Main, Compute

\* lake.c prints the lakes of the sequential program, in every build, for every
\* grid, end time, number of threads and arithmetic (hw3/lake.c, run_sim).
THEOREM LakeImplements == ASSUME ~Optimised PROVE Spec => SameLake
<1>1. Init => Serial!Init
  BY InitSerial
<1>2. Init => SimInv
  BY InitInv
<1>3. SimInv /\ [Next]_vars => SimInv'
  BY NextInv
<1>4. SimInv /\ SimInv' /\ [Next]_vars => [Serial!Next]_Serial!lakeVars
  BY NextSerial
<1> QED
  BY <1>1, <1>2, <1>3, <1>4, PTL DEF Spec, SameLake, Serial!Spec

\* The types of the state, for every instance.
THEOREM SimTypes == ASSUME ~Optimised PROVE Spec => []TypeOK
<1> DEFINE Built == build \in Builds
<1>1. Init => Built
  BY DEF Init
<1>2. Built /\ [Next]_vars => Built'
  BY DEF Next, Main, Compute, InitCell0, InitCell1, CopyCell, EvolveCell, ShiftCell,
     Iteration, EndInit, PrintInitial, EndCopy, EndOmp, EndAcc, EndShift, Output,
     PrintFinal, vars, mainVars
<1>3. Built /\ SimInv => TypeOK
  BY Sizes, SimAssumption DEF SimInv, Shape, Layout, TypeOK, IsArray
<1> HIDE DEF Built
<1>4. Init => SimInv
  BY InitInv
<1>5. SimInv /\ [Next]_vars => SimInv'
  BY NextInv
<1> QED
  BY <1>1, <1>2, <1>3, <1>4, <1>5, PTL DEF Spec

\* The loops of lake.c that run in parallel have no data race, whatever the
\* number of threads and the schedule: the rotation keeps un, uc and uo apart.
THEOREM LoopsRaceFree == ASSUME ~Optimised PROVE Spec => []NoRace
<1>1. SimInv => NoRace
  <2> SUFFICES ASSUME SimInv, NEW a \in Cells, NEW b \in Cells, a # b
               PROVE  Writes(a) \intersect (Writes(b) \union Reads(b)) = {}
    BY DEF NoRace
  <2>1. CASE loop \in {"acc", "omp"}
    <3>1. un + a # un + b /\ un + a # uo + b
      BY Addresses DEF SimInv
    <3>2. ASSUME NEW d \in Stencil, ~Boundary(b)
          PROVE  un + a # uc + b + d
      BY <3>2, Near, Addresses DEF SimInv
    <3> QED
      BY <2>1, <3>1, <3>2 DEF Writes, Reads
  <2>2. CASE loop \in {"copy", "shift"}
    <3>1. /\ uo + a # uo + b /\ uo + a # uc + b /\ uo + a # un + b
          /\ uc + a # uo + b /\ uc + a # uc + b /\ uc + a # un + b
      BY Addresses DEF SimInv
    <3> QED
      BY <2>2, <3>1 DEF Writes, Reads
  <2>3. CASE loop \notin {"acc", "omp", "copy", "shift"}
    BY <2>3 DEF Writes
  <2> QED
    BY <2>1, <2>2, <2>3
<1>2. Init => SimInv
  BY InitInv
<1>3. SimInv /\ [Next]_vars => SimInv'
  BY NextInv
<1> QED
  BY <1>1, <1>2, <1>3, PTL DEF Spec

\* No iteration reads outside uc: the boundary condition of lake.c:297 covers
\* the two rows and columns the 13-point stencil reaches.
THEOREM StencilStays == Spec => []ReadsInside
<1>1. ReadsInside
  BY StencilInside DEF ReadsInside
<1> QED
  BY <1>1, PTL

----------------------------------------------------------------------------
(* lake-perm.c: while lake.c runs its variables do not change, so that what is   *)
(* proved of LakePerm holds of the two lakes together.                       *)

Killed == INSTANCE LakePermProofs
            WITH EndTime <- PermEndTime, StartLake <- PermStart,
                 Junk <- PermJunk, u_cpu <- scratch

\* lake-perm.c in LakePrograms is the program of the proofs.
LEMMA SameProgram == ProgramsSpec => Killed!Spec
<1>1. ProgramsInit => Killed!Init
  BY DEF ProgramsInit,
     Perm!Init, Killed!Init, Perm!HeapInit, Killed!HeapInit, Perm!EmptyHeap, Killed!EmptyHeap,
     Perm!NoBackup, Killed!NoBackup, Perm!Head, Killed!Head, Perm!Blocks, Killed!Blocks
<1>2. [ProgramsNext]_allVars => [Killed!Next]_(Killed!vars)
  <2>1. Perm!Next => Killed!Next
    BY DEF Perm!disk, Killed!disk, Perm!ghosts, Killed!ghosts, Perm!Missing, Killed!Missing, Perm!Head,
       Killed!Head, Perm!Cardinality, Killed!Cardinality, Perm!IsFiniteSet, Killed!IsFiniteSet,
       Perm!lakeVars, Killed!lakeVars, Perm!Goto, Killed!Goto, Perm!Mopen, Killed!Mopen,
       Perm!Bopen, Killed!Bopen, Perm!Malloc, Killed!Malloc, Perm!InitLake, Killed!InitLake,
       Perm!PrintInitial, Killed!PrintInitial, Perm!Mflush, Killed!Mflush, Perm!Backup,
       Killed!Backup, Perm!Restore, Killed!Restore, Perm!Evolve, Killed!Evolve, Perm!Copy0,
       Killed!Copy0, Perm!Copy1, Killed!Copy1, Perm!Tpdt, Killed!Tpdt, Perm!PrintFinal,
       Killed!PrintFinal, Perm!Free, Killed!Free, Perm!Mclose, Killed!Mclose, Perm!Remove,
       Killed!Remove, Perm!Crash, Killed!Crash, Perm!Restart, Killed!Restart, Perm!Run,
       Killed!Run, Perm!Next, Killed!Next, Perm!Blocks, Killed!Blocks, Perm!Pieces,
       Killed!Pieces, Perm!NoBackup, Killed!NoBackup, Perm!process, Killed!process,
       Perm!EmptyHeap, Killed!EmptyHeap, Perm!EmptyBackup, Killed!EmptyBackup, Perm!HeapInit,
       Killed!HeapInit, Perm!MopenCreate, Killed!MopenCreate, Perm!MopenSave, Killed!MopenSave,
       Perm!MopenExisting, Killed!MopenExisting, Perm!MopenTorn, Killed!MopenTorn,
       Perm!CallsMalloc, Killed!CallsMalloc, Perm!BopenCreate, Killed!BopenCreate,
       Perm!BopenExisting, Killed!BopenExisting, Perm!FreeBlocks, Killed!FreeBlocks,
       Perm!Lowest, Killed!Lowest, Perm!Flush, Killed!Flush, Perm!PieceOf, Killed!PieceOf,
       Perm!BackupStart, Killed!BackupStart, Perm!BackupWrite, Killed!BackupWrite,
       Perm!BackupFails, Killed!BackupFails, Perm!CheckHeader, Killed!CheckHeader,
       Perm!RestoreStart, Killed!RestoreStart, Perm!RestoreRead, Killed!RestoreRead,
       Perm!RestoreGlobals, Killed!RestoreGlobals, Perm!RestoreFails, Killed!RestoreFails,
       Perm!Close, Killed!Close, Perm!RemoveBackup, Killed!RemoveBackup, Perm!RemoveMap,
       Killed!RemoveMap, Perm!Die, Killed!Die
  <2>2. UNCHANGED permVars => UNCHANGED Killed!vars
    BY DEF permVars, Killed!vars, Killed!disk, Killed!process, Killed!ghosts, Killed!lakeVars
  <2> QED
    BY <2>1, <2>2 DEF ProgramsNext, Lake, LakePerm, allVars, permVars
<1> QED
  BY <1>1, <1>2, PTL DEF ProgramsSpec, Killed!Spec

\* The assumption of the proofs is that of LakePrograms.
LEMMA Fits == Killed!HeapFits
  BY PermAssumption DEF Perm!HeapFits, Killed!HeapFits

\* BlocksApart: the arrays of lake-perm.c and its scratch array do not overlap, and malloc
\* has them in use, whenever it computes, also after restarts.
THEOREM ArraysApart == ProgramsSpec => []BlocksApart
<1>1. Killed!Spec => []Killed!BlocksApart
  BY Fits, Killed!ArraysApart
<1>2. Killed!BlocksApart => BlocksApart
  BY DEF BlocksApart, Perm!BlocksApart, Killed!BlocksApart, Perm!Computing, Killed!Computing,
     Perm!Cardinality, Killed!Cardinality
<1> QED
  BY <1>1, <1>2, SameProgram, PTL

\* SameRun: lake-perm.c, killed at any point and restarted any number of times, prints
\* the lake of an uninterrupted run, or is lost because no backup was complete.
THEOREM RestartedRunIsSame == ProgramsSpec => SameRun
<1>1. Killed!Spec => Killed!SameRun
  BY Fits, Killed!RestartedRunIsSame
<1>2. Killed!Uninterrupted!Init => Perm!Uninterrupted!Init
  BY DEF Killed!Uninterrupted!Init, Perm!Uninterrupted!Init,
     Perm!CurrentState, Killed!CurrentState, Perm!SavedState, Killed!SavedState, Perm!Content,
     Killed!Content, Perm!LostState, Killed!LostState, Perm!IdleState, Killed!IdleState,
     Perm!Apart, Killed!Apart, Perm!Levels, Killed!Levels, Perm!Head, Killed!Head
<1>3. [Killed!Uninterrupted!Next]_(Killed!Uninterrupted!runVars)
        => [Perm!Uninterrupted!Next]_(Perm!Uninterrupted!runVars)
  BY DEF
     Perm!Uninterrupted!Next, Killed!Uninterrupted!Next, Perm!Uninterrupted!Begin,
     Killed!Uninterrupted!Begin, Perm!Uninterrupted!Advance, Killed!Uninterrupted!Advance,
     Perm!Uninterrupted!Discard, Killed!Uninterrupted!Discard, Perm!Uninterrupted!Save,
     Killed!Uninterrupted!Save, Perm!Uninterrupted!Fail, Killed!Uninterrupted!Fail,
     Perm!Uninterrupted!PrintResult, Killed!Uninterrupted!PrintResult,
     Perm!Uninterrupted!PrintLost, Killed!Uninterrupted!PrintLost, Perm!Uninterrupted!runVars,
     Killed!Uninterrupted!runVars, Perm!CurrentState, Killed!CurrentState, Perm!SavedState,
     Killed!SavedState, Perm!Content, Killed!Content, Perm!LostState, Killed!LostState,
     Perm!IdleState, Killed!IdleState, Perm!Apart, Killed!Apart, Perm!Levels, Killed!Levels,
     Perm!Head, Killed!Head
<1> QED
  BY <1>1, <1>2, <1>3, SameProgram, PTL
     DEF SameRun, Perm!SameRun, Killed!SameRun, Killed!Uninterrupted!Spec, Perm!Uninterrupted!Spec
=============================================================================
