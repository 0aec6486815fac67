------------------------------- MODULE MyRtt -------------------------------
(***************************************************************************)
(* The benchmark hw2/q1_submit/my_rtt.c over the library of MyMpi: after   *)
(* MPI_Init every rank exchanges a message with its partner for every size *)
(* and repetition, then calls MPI_Finalize and returns from main.          *)
(***************************************************************************)
EXTENDS MyMpi

CONSTANT Sizes  \* the count argument of each MPI_Sendrecv, in order

ASSUME SizesAssumption == Sizes \in Seq(Nat \ {0})

VARIABLE calls  \* calls[r]: MPI_Send and MPI_Recv calls r has begun

vars == <<libVars, calls>>

Half       == NumProc \div 2
Partner(r) == IF r < Half THEN Half + r ELSE r % Half

\* The number of the exchange that call c (from 0) belongs to.
Exchange(c) == (c \div 2) + 1

\* MPI_Sendrecv: the lower half sends first, the upper half receives first.
IsSend(r, c) == (c % 2 = 0) <=> (r < Half)

\* *buffer=rank: the first int of every message is its sender's rank.
Data(r, k) ==
    [src |-> r, kind |-> "data", n |-> k, first |-> r, bytes |-> Sizes[k]]

Working(r) == main[r] = "app" /\ left[r] = 1 /\ calls[r] < 2 * Len(Sizes)

Send(r) ==
    /\ Working(r)
    /\ IsSend(r, calls[r])
    /\ MPI_Send(r, Partner(r), Data(r, Exchange(calls[r])))
    /\ calls' = [calls EXCEPT ![r] = @ + 1]
    /\ UNCHANGED <<i, entered, left, globals, srvVars, timeVars>>

Recv(r) ==
    /\ Working(r)
    /\ ~IsSend(r, calls[r])
    /\ MPI_Recv(r, Partner(r), Sizes[Exchange(calls[r])])
    /\ calls' = [calls EXCEPT ![r] = @ + 1]
    /\ UNCHANGED <<i, ctr, out, entered, left, barrier, rcv_flag, glob, srvVars,
                   timeVars>>

MPI_Finalize(r) ==
    /\ main[r] = "app" /\ left[r] = 1 /\ calls[r] = 2 * Len(Sizes)
    /\ StartBarrier(r)
    /\ UNCHANGED <<i, ctr, out, entered, left, globals, srvVars, timeVars, calls>>

Exit(r) ==
    /\ main[r] = "app" /\ left[r] = 2
    /\ Terminate(r, "exited")
    /\ UNCHANGED <<timeVars, calls>>

Init == LibInit /\ calls = [r \in Rank |-> 0]

DriverStep(r) == Send(r) \/ Recv(r) \/ MPI_Finalize(r) \/ Exit(r)

Next ==
    \/ LibNext /\ UNCHANGED calls
    \/ \E r \in Rank : DriverStep(r)

Spec == Init /\ [][Next]_vars

\* A rank's main thread, from its start to its exit.
MainProgram(r) ==
    \/ (Launch(r) \/ MainStep(r)) /\ UNCHANGED calls
    \/ DriverStep(r)

\* The operating system runs every thread, and every rank is started.
Fairness ==
    /\ \A r \in Rank : WF_vars(MainProgram(r))
    /\ \A l \in Listener : WF_vars(SrvStep(l) /\ UNCHANGED calls)
    /\ WF_vars(Tick /\ UNCHANGED calls)

FairSpec == Spec /\ Fairness

----------------------------------------------------------------------------
(* Properties.  *)

\* Every variable keeps its type.
TypeOK ==
    /\ main \in [Rank -> MainPc]
    /\ i \in Others
    /\ ctr \in [Rank -> 0 .. MaxTries]
    /\ out \in [Rank -> [to : Listener, msg : Message \cup {NoMsg}]]
    /\ entered \in [Rank -> Nat]
    /\ left \in [Rank -> Nat]
    /\ barrier \in [Rank -> BOOLEAN]
    /\ rcv_flag \in [Rank -> BOOLEAN]
    /\ rcv_cnt \in [Rank -> Nat]
    /\ glob \in [Rank -> [Rank -> Rank \cup {-1}]]
    /\ buf \in [Rank -> [src : Rank \cup {-1}, n : Nat, bytes : Nat]]
    /\ srv \in [Listener -> SrvPc]
    /\ conn \in [Listener -> Seq(Message)]
    /\ lost \subseteq Message
    /\ expired \subseteq Rank
    /\ clock \in 0 .. MaxSkew
    /\ calls \in [Rank -> 0 .. 2 * Len(Sizes)]

\* A rank comes out of its k-th MPI_Barrier only after every rank is in its
\* k-th: MPI_Init and MPI_Finalize are synchronisation points (lines 392-448).
BarrierSafe == \A r, s \in Rank : left[r] <= entered[s]

\* Every data message is read by a receive of the data branch and every
\* barrier message by the barrier branch of server_1 (lines 190-311).
NothingLost == lost = {}

\* After MPI_Recv number k (lines 479-503) the buffer holds the partner's
\* k-th message: no earlier, later or other rank's one, and not an old copy.
RightMessage ==
    \A r \in Rank :
        main[r] = "app" /\ left[r] = 1 /\ calls[r] > 0 /\ ~IsSend(r, calls[r] - 1)
        => /\ buf[r].src = Partner(r)
           /\ buf[r].n = Exchange(calls[r] - 1)

\* No server thread spins for ever at the end of a short message (the read
\* loops of lines 206-216, 245-254 and 289-302).
NoServerStuck == \A l \in Listener : srv[l] # "stuck"

\* Every rank gets through both barriers and all its exchanges.
Termination == <>(\A r \in Rank : main[r] = "exited")

\* The library implements the abstract barrier: MPI_Barrier (lines 392-448)
\* lets a rank go only after every rank has called it as often.
Sync == INSTANCE BarrierSync
Synchronises == Sync!Spec

\* When rank 0 clears buff_glob_0 (lines 436-439) no rank is already in the
\* next barrier, so no arrival of the next barrier is wiped.
NoEarlyArrival ==
    main[0] = "reset" => \A r \in Rank : entered[r] = entered[0]
============================================================================
