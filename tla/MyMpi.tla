------------------------------- MODULE MyMpi -------------------------------
(***************************************************************************)
(* The MPI library of hw2/q1_submit/my_mpi.c: every rank is a process with *)
(* one main thread and one or more server threads that share plain global  *)
(* variables, and ranks exchange one message per TCP connection.           *)
(*                                                                         *)
(* A step is what one thread does between two points at which another      *)
(* thread or another rank can see or change what it uses.  The program is  *)
(* built without optimisation, so a spin loop re-reads its variable and is *)
(* modelled by a guard.  The main thread's calls come from a driver module *)
(* that EXTENDS this one; "app" means control is in the driver.            *)
(***************************************************************************)
EXTENDS Integers, Sequences, FiniteSets

CONSTANTS
    NumProc,  \* lines of nodefile.txt: the number of ranks
    Timely,   \* TRUE: a sleep(1) outlasts every burst of steps of the others
    MaxSkew,  \* bound: seconds between the first and the last rank's start
    Late,     \* bound: the ranks that may start after the first second
    SockBuf   \* bytes a write() may leave in the socket buffers

ASSUME NumProcAssumption == NumProc \in Nat /\ NumProc >= 2
ASSUME TimelyAssumption  == Timely \in BOOLEAN
ASSUME MaxSkewAssumption == MaxSkew \in Nat
ASSUME SockBufAssumption == SockBuf \in Nat

Rank   == 0 .. NumProc - 1
Others == Rank \ {0}

\* <<h, 0>> is port 30014 of rank h, <<0, p>> is port 30014+p of rank 0.
Listener == {<<h, 0>> : h \in Rank} \cup {<<0, p>> : p \in Others}

IntSize     == 4
BarrierSize == 2 * IntSize     \* a barrier message is two ints
MaxTries    == 3               \* connect() attempts of client()

VARIABLES
    main,      \* main[r]: where rank r's main thread is
    i,         \* the loop variable of rank 0's two loops in MPI_Barrier
    ctr,       \* ctr[r]: failed connect() attempts of the current client()
    out,       \* out[r]: listener and message of the current client()
    entered,   \* entered[r]: MPI_Barrier calls of r that raised barrier
    left,      \* left[r]: MPI_Barrier calls of r that lowered it again
    barrier,   \* the global barrier of rank r
    rcv_flag,  \* the global rcv_flag of rank r
    rcv_cnt,   \* the global rcv_cnt of rank r
    glob,      \* the global array buff_glob_0 of rank r
    buf,       \* buf[r]: what the last copy to *rcv_ptr left there
    srv,       \* srv[l]: where the server thread of listener l is
    conn,      \* conn[l]: messages of l's connections, the accepted one first
    lost,      \* data not handed to MPI_Recv, acks not seen by the barrier
    expired,   \* ranks whose current sleep(1) is over
    clock      \* seconds, counted until all ranks are started

mainVars == <<main, i, ctr, out, entered, left>>
globals  == <<barrier, rcv_flag, rcv_cnt, glob>>
srvVars  == <<srv, conn, buf, lost>>
timeVars == <<expired, clock>>
libVars  == <<mainVars, globals, srvVars, timeVars>>

----------------------------------------------------------------------------
(* Messages.  first is the int the barrier protocol looks at, bytes the    *)
(* length written; src, kind and n say where the message came from and are *)
(* read by no action's guard.                                              *)
Message == [src : Rank, kind : {"barrier", "data"}, n : Nat,
            first : Rank, bytes : Nat]
NoMsg   == [src |-> -1, kind |-> "none", n |-> 0, first |-> -1, bytes |-> 0]
NoCopy  == [src |-> -1, n |-> 0, bytes |-> 0]

\* client() prepends the rank to the message while barrier is raised.
BarrierMsg(r, k) ==
    [src |-> r, kind |-> "barrier", n |-> k, first |-> r, bytes |-> BarrierSize]

Asleep == {"init_sleep", "bar_sleep", "retry", "bar_exit"}
Ended  == {"exited", "dead"}
MainPc == {"down", "app", "connect", "write", "wait", "spin_ack", "reset",
           "lower", "post", "recv"} \cup Asleep \cup Ended
SrvPc  == {"none", "born", "accept", "spin", "test", "barrier_read",
           "data_read", "clear", "stuck", "closed"}

\* A sleep ends after a second, or at any moment when nothing is known
\* about the time the other threads take.
Rested(r) == Timely => r \in expired
WakeUp(r) == expired' = expired \ {r} /\ UNCHANGED clock

ListenersOf(r) == {l \in Listener : l[1] = r}
Open(l)        == srv[l] \notin {"none", "born", "closed"}

LibInit ==
    /\ main = [r \in Rank |-> "down"]
    /\ i = 1
    /\ ctr = [r \in Rank |-> 0]
    /\ out = [r \in Rank |-> [to |-> <<r, 0>>, msg |-> NoMsg]]
    /\ entered = [r \in Rank |-> 0]
    /\ left = [r \in Rank |-> 0]
    /\ barrier = [r \in Rank |-> FALSE]
    /\ rcv_flag = [r \in Rank |-> FALSE]
    /\ rcv_cnt = [r \in Rank |-> 0]
    /\ glob = [r \in Rank |-> [s \in Rank |-> -1]]
    /\ buf = [r \in Rank |-> NoCopy]
    /\ srv = [l \in Listener |-> "none"]
    /\ conn = [l \in Listener |-> << >>]
    /\ lost = {}
    /\ expired = {}
    /\ clock = 0

----------------------------------------------------------------------------
(* client(): one connection, one write, one close.  *)

\* The connection is refused until the server thread listens; the message
\* is in the connection when the server thread can first read it.
Connect(r) ==
    /\ main[r] = "connect"
    /\ Open(out[r].to)
    /\ main' = [main EXCEPT ![r] = "write"]
    /\ conn' = [conn EXCEPT ![out[r].to] = Append(@, out[r].msg)]
    /\ UNCHANGED <<i, ctr, out, entered, left, globals, srv, buf, lost, timeVars>>

Refused(r) ==
    /\ main[r] = "connect"
    /\ ~Open(out[r].to)
    /\ main' = [main EXCEPT ![r] = "retry"]
    /\ ctr' = [ctr EXCEPT ![r] = @ + 1]
    /\ UNCHANGED <<i, out, entered, left, globals, srvVars, timeVars>>

Retry(r) ==
    /\ main[r] = "retry"
    /\ Rested(r)
    /\ ctr[r] < MaxTries
    /\ main' = [main EXCEPT ![r] = "connect"]
    /\ WakeUp(r)
    /\ UNCHANGED <<i, ctr, out, entered, left, globals, srvVars>>

\* The end of a process: its server threads and connections go with it.
Terminate(r, how) ==
    /\ main' = [main EXCEPT ![r] = how]
    /\ srv' = [l \in Listener |-> IF l \in ListenersOf(r) THEN "closed" ELSE srv[l]]
    /\ conn' = [l \in Listener |-> IF l \in ListenersOf(r) THEN << >> ELSE conn[l]]
    /\ UNCHANGED <<i, ctr, out, entered, left, globals, buf, lost>>

GiveUp(r) ==
    /\ main[r] = "retry"
    /\ Rested(r)
    /\ ctr[r] = MaxTries
    /\ Terminate(r, "dead")
    /\ WakeUp(r)

\* write() returns when the bytes fit the socket buffers or have been read.
Unread(r) ==
    LET pending == conn[out[r].to]
    IN  \/ \E k \in 1 .. Len(pending) : pending[k] = out[r].msg
        \/ out[r].msg \in lost
WriteDone(r) == out[r].msg.bytes <= SockBuf \/ ~Unread(r)
StartClient(r, to, msg) ==
    /\ main' = [main EXCEPT ![r] = "connect"]
    /\ ctr' = [ctr EXCEPT ![r] = 0]
    /\ out' = [out EXCEPT ![r] = [to |-> to, msg |-> msg]]

----------------------------------------------------------------------------
(* MPI_Init and the main thread's side of MPI_Barrier.  *)

StartBarrier(r) == main' = [main EXCEPT ![r] = "bar_sleep"]

SpawnServers(r) ==
    srv' = [l \in Listener |-> IF l \in ListenersOf(r) THEN "born" ELSE srv[l]]

\* The process starts: rank 0 creates its threads and calls MPI_Barrier, the
\* others sleep first.
Launch(r) ==
    /\ main[r] = "down"
    /\ IF r = 0
         THEN SpawnServers(r) /\ StartBarrier(r)
         ELSE main' = [main EXCEPT ![r] = "init_sleep"] /\ UNCHANGED srv
    /\ UNCHANGED <<i, ctr, out, entered, left, globals, conn, buf, lost,
                   timeVars>>

InitWake(r) ==
    /\ main[r] = "init_sleep"
    /\ Rested(r)
    /\ SpawnServers(r)
    /\ StartBarrier(r)
    /\ WakeUp(r)
    /\ UNCHANGED <<i, ctr, out, entered, left, globals, conn, buf, lost>>

EnterBarrier(r) ==
    /\ main[r] = "bar_sleep"
    /\ Rested(r)
    /\ barrier' = [barrier EXCEPT ![r] = TRUE]
    /\ entered' = [entered EXCEPT ![r] = @ + 1]
    /\ IF r = 0
         THEN /\ main' = [main EXCEPT ![0] = "wait"]
              /\ i' = 1
              /\ UNCHANGED <<ctr, out>>
         ELSE /\ StartClient(r, <<0, r>>, BarrierMsg(r, entered[r] + 1))
              /\ UNCHANGED i
    /\ WakeUp(r)
    /\ UNCHANGED <<left, rcv_flag, rcv_cnt, glob, srvVars>>

SendAck(k) ==
    StartClient(0, <<k, 0>>, BarrierMsg(0, entered[0])) /\ i' = k

\* mutant: rank 0 does not wait for the arrivals
WaitArrival_noWait ==
    /\ main[0] = "wait"
    /\ IF i < NumProc - 1
         THEN i' = i + 1 /\ UNCHANGED <<main, ctr, out>>
         ELSE SendAck(1)
    /\ UNCHANGED <<entered, left, globals, srvVars, timeVars>>

\* Rank 0 waits for the ranks in order, then acknowledges them in order.
WaitArrival ==
    /\ main[0] = "wait"
    /\ glob[0][i] = i
    /\ IF i < NumProc - 1
         THEN i' = i + 1 /\ UNCHANGED <<main, ctr, out>>
         ELSE SendAck(1)
    /\ UNCHANGED <<entered, left, globals, srvVars, timeVars>>

\* mutant: the acknowledgement loop stops one rank early
AckWritten_early ==
    /\ main[0] = "write" /\ barrier[0]
    /\ WriteDone(0)
    /\ IF i < NumProc - 2
         THEN SendAck(i + 1)
         ELSE main' = [main EXCEPT ![0] = "reset"] /\ UNCHANGED <<i, ctr, out>>
    /\ UNCHANGED <<entered, left, globals, srvVars, timeVars>>

AckWritten ==
    /\ main[0] = "write" /\ barrier[0]
    /\ WriteDone(0)
    /\ IF i < NumProc - 1
         THEN SendAck(i + 1)
         ELSE main' = [main EXCEPT ![0] = "reset"] /\ UNCHANGED <<i, ctr, out>>
    /\ UNCHANGED <<entered, left, globals, srvVars, timeVars>>

ArrivalWritten(r) ==
    /\ r # 0
    /\ main[r] = "write" /\ barrier[r]
    /\ WriteDone(r)
    /\ main' = [main EXCEPT ![r] = "spin_ack"]
    /\ UNCHANGED <<i, ctr, out, entered, left, globals, srvVars, timeVars>>

AckSeen(r) ==
    /\ main[r] = "spin_ack"
    /\ glob[r][0] = 0
    /\ main' = [main EXCEPT ![r] = "reset"]
    /\ UNCHANGED <<i, ctr, out, entered, left, globals, srvVars, timeVars>>

\* mutant: the entries keep the last barrier's answers
Reset_missing(r) ==
    /\ main[r] = "reset"
    /\ main' = [main EXCEPT ![r] = "lower"]
    /\ UNCHANGED <<i, ctr, out, entered, left, globals, srvVars, timeVars>>

\* Each entry is written by one server thread, so the loop over the entries
\* is one step; lowering barrier is another.
Reset(r) ==
    /\ main[r] = "reset"
    /\ main' = [main EXCEPT ![r] = "lower"]
    /\ glob' = [glob EXCEPT ![r] = [s \in Rank |-> -1]]
    /\ UNCHANGED <<i, ctr, out, entered, left, barrier, rcv_flag, rcv_cnt, srvVars,
                   timeVars>>

Lower(r) ==
    /\ main[r] = "lower"
    /\ main' = [main EXCEPT ![r] = "bar_exit"]
    /\ barrier' = [barrier EXCEPT ![r] = FALSE]
    /\ left' = [left EXCEPT ![r] = @ + 1]
    /\ UNCHANGED <<i, ctr, out, entered, rcv_flag, rcv_cnt, glob, srvVars, timeVars>>

ExitBarrier(r) ==
    /\ main[r] = "bar_exit"
    /\ Rested(r)
    /\ main' = [main EXCEPT ![r] = "app"]
    /\ WakeUp(r)
    /\ UNCHANGED <<i, ctr, out, entered, left, globals, srvVars>>

----------------------------------------------------------------------------
(* MPI_Send and MPI_Recv; the driver's actions start them from "app".  *)

MPI_Send(r, dest, msg) ==
    IF dest # r THEN StartClient(r, <<dest, 0>>, msg)
                ELSE UNCHANGED <<main, ctr, out>>

DataWritten(r) ==
    /\ main[r] = "write" /\ ~barrier[r]
    /\ WriteDone(r)
    /\ main' = [main EXCEPT ![r] = "app"]
    /\ UNCHANGED <<i, ctr, out, entered, left, globals, srvVars, timeVars>>

\* rcv_ptr and rcv_cnt are set before rcv_flag; source and tag are not used.
MPI_Recv(r, source, count) ==
    IF source # r
      THEN /\ main' = [main EXCEPT ![r] = "post"]
           /\ rcv_cnt' = [rcv_cnt EXCEPT ![r] = count]
      ELSE UNCHANGED <<main, rcv_cnt>>

PostRecv(r) ==
    /\ main[r] = "post"
    /\ main' = [main EXCEPT ![r] = "recv"]
    /\ rcv_flag' = [rcv_flag EXCEPT ![r] = TRUE]
    /\ UNCHANGED <<i, ctr, out, entered, left, barrier, rcv_cnt, glob, srvVars,
                   timeVars>>

\* mutant: MPI_Recv does not wait for the flag
RecvReturn_noWait(r) ==
    /\ main[r] = "recv"
    /\ main' = [main EXCEPT ![r] = "app"]
    /\ UNCHANGED <<i, ctr, out, entered, left, globals, srvVars, timeVars>>

RecvReturn(r) ==
    /\ main[r] = "recv"
    /\ ~rcv_flag[r]
    /\ main' = [main EXCEPT ![r] = "app"]
    /\ UNCHANGED <<i, ctr, out, entered, left, globals, srvVars, timeVars>>

----------------------------------------------------------------------------
(* server_1(): the thread of listener l = <<h, p>>.  *)

Bind(l) ==
    /\ srv[l] = "born"
    /\ srv' = [srv EXCEPT ![l] = "accept"]
    /\ UNCHANGED <<mainVars, globals, conn, buf, lost, timeVars>>

\* The accepted connection stays at the head until the thread is done with it.
Accept(l) ==
    /\ srv[l] = "accept"
    /\ conn[l] # << >>
    /\ srv' = [srv EXCEPT ![l] = "spin"]
    /\ UNCHANGED <<mainVars, globals, conn, buf, lost, timeVars>>

DropHead(l) == conn' = [conn EXCEPT ![l] = Tail(@)]

\* Port 30014 waits for a barrier or a posted receive, the others for a barrier.
SpinOver(l) == barrier[l[1]] \/ (l[2] = 0 /\ rcv_flag[l[1]])

SpinEnd(l) ==
    /\ srv[l] = "spin"
    /\ SpinOver(l)
    /\ srv' = [srv EXCEPT ![l] = "test"]
    /\ UNCHANGED <<mainVars, globals, conn, buf, lost, timeVars>>

\* The variable is read again to choose the branch; a barrier port has no
\* other branch and leaves the connection unread.
Test(l) ==
    /\ srv[l] = "test"
    /\ \/ /\ barrier[l[1]]
          /\ srv' = [srv EXCEPT ![l] = "barrier_read"]
          /\ UNCHANGED <<conn, lost>>
       \/ /\ ~barrier[l[1]] /\ l[2] = 0
          /\ srv' = [srv EXCEPT ![l] = "data_read"]
          /\ UNCHANGED <<conn, lost>>
       \/ /\ ~barrier[l[1]] /\ l[2] # 0
          /\ srv' = [srv EXCEPT ![l] = "accept"]
          /\ lost' = lost \cup {Head(conn[l])}
          /\ DropHead(l)
    /\ UNCHANGED <<mainVars, globals, buf, timeVars>>

\* Two ints are read whatever the message is; a shorter one never fills
\* them and the read loop spins at end of file.
BarrierRead(l) ==
    LET m == Head(conn[l])
    IN  /\ srv[l] = "barrier_read"
        /\ IF m.bytes >= BarrierSize
             THEN /\ srv' = [srv EXCEPT ![l] = "accept"]
                  /\ glob' = [glob EXCEPT ![l[1]][l[2]] = m.first]
             ELSE /\ srv' = [srv EXCEPT ![l] = "stuck"]
                  /\ UNCHANGED glob
        /\ DropHead(l)
        /\ lost' = IF m.kind = "data" THEN lost \cup {m} ELSE lost
        /\ UNCHANGED <<mainVars, barrier, rcv_flag, rcv_cnt, buf, timeVars>>

\* rcv_cnt bytes are read and rcv_cnt/sizeof(int) of them copied.
Copied(m, cnt) == [src |-> m.src, n |-> m.n, bytes |-> cnt \div IntSize]

DataRead(l) ==
    LET h   == l[1]
        m   == Head(conn[l])
        cnt == rcv_cnt[h]
    IN  /\ srv[l] = "data_read"
        /\ DropHead(l)
        /\ \/ /\ cnt > 0 /\ m.bytes >= cnt
              /\ srv' = [srv EXCEPT ![l] = "clear"]
              /\ buf' = [buf EXCEPT ![h] = Copied(m, cnt)]
              /\ lost' = IF m.kind = "data" THEN lost ELSE lost \cup {m}
           \/ /\ cnt = 0
              /\ srv' = [srv EXCEPT ![l] = "clear"]
              /\ lost' = lost \cup {m}
              /\ UNCHANGED buf
           \/ /\ m.bytes < cnt
              /\ srv' = [srv EXCEPT ![l] = "stuck"]
              /\ lost' = lost \cup {m}
              /\ UNCHANGED buf
        /\ UNCHANGED <<mainVars, globals, timeVars>>

Clear(l) ==
    /\ srv[l] = "clear"
    /\ srv' = [srv EXCEPT ![l] = "accept"]
    /\ rcv_flag' = [rcv_flag EXCEPT ![l[1]] = FALSE]
    /\ UNCHANGED <<mainVars, barrier, rcv_cnt, glob, conn, buf, lost, timeVars>>

----------------------------------------------------------------------------
(* Time.  A thread is idle when it sleeps, spins on a false condition or   *)
(* waits in accept() or write(); a second passes when every thread is.     *)

MainIdle(r) ==
    CASE main[r] \in Asleep     -> r \notin expired
      [] main[r] = "write"      -> ~WriteDone(r)
      [] main[r] = "wait"       -> glob[0][i] # i
      [] main[r] = "spin_ack"   -> glob[r][0] # 0
      [] main[r] = "recv"       -> rcv_flag[r]
      [] main[r] \in {"down"} \cup Ended -> TRUE
      [] OTHER -> FALSE

SrvIdle(l) ==
    \/ srv[l] \in {"none", "stuck", "closed"}
    \/ srv[l] = "accept" /\ conn[l] = << >>
    \/ srv[l] = "spin" /\ ~SpinOver(l)

Quiet    == (\A r \in Rank : MainIdle(r)) /\ (\A l \in Listener : SrvIdle(l))
Sleepers == {r \in Rank : main[r] \in Asleep}
AllUp    == \A r \in Rank : main[r] # "down"

Tick ==
    /\ Timely
    /\ Quiet
    /\ \/ AllUp /\ Sleepers # {} /\ UNCHANGED clock
       \/ ~AllUp /\ clock < MaxSkew /\ clock' = clock + 1
          /\ \A r \in Rank : main[r] = "down" => r \in Late
    /\ expired' = Sleepers
    /\ UNCHANGED <<mainVars, globals, srvVars>>

MainStep(r) ==
    \/ InitWake(r) \/ EnterBarrier(r)
    \/ Connect(r) \/ Refused(r) \/ Retry(r) \/ GiveUp(r)
    \/ ArrivalWritten(r) \/ AckSeen(r) \/ Reset(r) \/ Lower(r) \/ ExitBarrier(r)
    \/ DataWritten(r) \/ PostRecv(r) \/ RecvReturn(r)
    \/ r = 0 /\ (WaitArrival \/ AckWritten)

SrvStep(l) ==
    \/ Bind(l) \/ Accept(l) \/ SpinEnd(l) \/ Test(l)
    \/ BarrierRead(l) \/ DataRead(l) \/ Clear(l)

LibNext ==
    \/ \E r \in Rank : Launch(r) \/ MainStep(r)
    \/ \E l \in Listener : SrvStep(l)
    \/ Tick
============================================================================
