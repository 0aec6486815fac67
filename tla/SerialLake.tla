----------------------------- MODULE SerialLake -----------------------------
(***************************************************************************)
(* What the lake program computes, whatever the build: the initial lake is *)
(* printed, one whole step follows another until time runs out, and the    *)
(* last lake is printed.  The memcpy pair that hw3/lake.c keeps as a       *)
(* comment (lines 312-313) is this update of the two time levels.          *)
(***************************************************************************)
EXTENDS Integers, Sequences

CONSTANTS
    EndTime,       \* end_time in units of dt
    Start,         \* the configuration of both time levels at time 0
    Step(_, _, _)  \* the next configuration from the last two and the time

VARIABLES
    cur, old,   \* the two time levels
    steps,      \* steps taken, which is the time of the next one
    files       \* lakes printed

lakeVars == <<cur, old, steps, files>>

Init ==
    /\ cur = Start
    /\ old = Start
    /\ steps = 0
    /\ files = << >>

PrintInitial ==
    /\ files = << >>
    /\ files' = <<Start>>
    /\ UNCHANGED <<cur, old, steps>>

Advance ==
    /\ Len(files) = 1
    /\ steps <= EndTime
    /\ steps' = steps + 1
    /\ old' = cur
    /\ cur' = Step(cur, old, steps)
    /\ UNCHANGED files

PrintFinal ==
    /\ Len(files) = 1
    /\ steps = EndTime + 1
    /\ files' = Append(files, cur)
    /\ UNCHANGED <<cur, old, steps>>

Next == PrintInitial \/ Advance \/ PrintFinal

Spec == Init /\ [][Next]_lakeVars
=============================================================================
