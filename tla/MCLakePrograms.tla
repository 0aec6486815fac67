--------------------------- MODULE MCLakePrograms ---------------------------
(* Instances for TLC.  lake.c: the coefficients of lake.c:305 times 8, and   *)
(* integers modulo a prime for the numbers.  lake-perm.c: an array is an     *)
(* integer modulo a prime, and memory starts as zeros, as a new file does.   *)
EXTENDS LakePrograms, FiniteSetsExt

MCPebbles == [idx \in 0 .. n * n - 1 |-> IF idx = 2 * n + 3 THEN 3
                                         ELSE IF idx = 3 * n + 2 THEN 8 ELSE 0]

Weight(d) ==
    CASE d = 0 -> -44
      [] d \in {-1, 1, n, -n} -> 8
      [] d \in {n - 1, n + 1, -n - 1, -n + 1} -> 2
      [] OTHER -> 1

MCScheme(near, before, source) ==
    (16 * near[0] - 8 * before + 8 * source
       + MapThenSumSet(LAMBDA d : Weight(d) * near[d], DOMAIN near)) % 1009

MCf(peb, time) == 0 - peb * (EndTime + 2 - time)

MCBlocks == 4 * (MaxCrashes + 1)

MCNoGlobals == [t |-> 0, u_i0 |-> Null, u_i1 |-> Null, pebs |-> Null]

MCEvolve(u1, u0, p, time) == (2 * u1 - u0 + 3 * p + 5 * time) % 101
=============================================================================
