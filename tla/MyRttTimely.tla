----------------------------- MODULE MyRttTimely -----------------------------
(***************************************************************************)
(* The benchmark when its sleeps do what they are there for: a second is   *)
(* longer than any burst of steps of the threads (Timely).  The program    *)
(* then runs in phases that every rank goes through together, and the      *)
(* messages of one phase never meet a thread that is still in another.     *)
(***************************************************************************)
EXTENDS MyRttBarrier

\* The pairing of my_rtt.c (lines 32-41) leaves no rank without its partner.
Even == NumProc = 2 * Half

\* Only a thread that sleeps can have slept its second.
Timing == expired \subseteq Sleepers

\* The ports of a rank are opened by the end of the sleep before its first
\* barrier, and closed when the process ends.
PortOf(l) ==
    /\ srv[l] = "none" <=> main[l[1]] \in {"down", "init_sleep"}
    /\ srv[l] = "closed" <=> main[l[1]] \in Ended
    /\ srv[l] = "born" => /\ main[l[1]] = "bar_sleep"
                          /\ l[1] \notin expired
                          /\ entered[l[1]] = 0

Ports == \A l \in Listener : PortOf(l)

----------------------------------------------------------------------------
(* The phases.  *)

\* An arrival rank 0 has not acknowledged: not sent, on its way, or recorded.
ArrivalState(r) ==
    /\ main[r] \in {"write", "spin_ack"}
         => \/ glob[0][r] = r /\ conn[<<0, r>>] = << >>
            \/ glob[0][r] # r /\ conn[<<0, r>>] = <<BarrierMsg(r, entered[r])>>
    /\ main[r] \notin {"write", "spin_ack"}
         => glob[0][r] # r /\ conn[<<0, r>>] = << >>
    /\ srv[<<0, r>>] # "stuck"
    /\ srv[<<0, r>>] \in {"test", "barrier_read"} => barrier[0]
    /\ glob[r][0] # 0

\* Rank 0 waits for arrivals, and nothing else is on its way.
Collecting ==
    /\ main[0] \in {"down", "bar_sleep", "wait"}
    /\ \A r \in Rank : /\ conn[<<r, 0>>] = << >>
                       /\ srv[<<r, 0>>] \in {"none", "born", "accept", "closed"}
                       /\ ~rcv_flag[r]
    /\ \A r \in Others :
         /\ main[r] \in {"down", "init_sleep", "bar_sleep", "connect", "retry", "write",
                         "spin_ack", "dead"}
         /\ main[r] \in {"connect", "retry", "write"} => barrier[r]
         /\ ArrivalState(r)

\* The first barrier, up to the last arrival: ranks start, and may give up.
Forming == Collecting /\ \A r \in Rank : left[r] = 0

\* The second barrier, up to the last arrival: no second passes in it.
Second ==
    /\ Collecting
    /\ \A r \in Rank : /\ left[r] = 1
                       /\ main[r] \notin {"down", "init_sleep", "retry", "dead"}
                       /\ main[r] = "bar_sleep" => r \in expired

\* Rank 0 has sent r the acknowledgement.
Acked(r) ==
    main[0] \in {"reset", "lower", "bar_exit"} \/ r < i \/ (r = i /\ main[0] = "write")

\* The acknowledgement for r: not sent, on its way, recorded, or reset.
AckState(r) ==
    \/ /\ main[r] \in {"write", "spin_ack"} /\ glob[r][0] # 0
       /\ ~Acked(r) /\ conn[<<r, 0>>] = << >>
    \/ /\ main[r] \in {"write", "spin_ack"} /\ glob[r][0] # 0
       /\ Acked(r) /\ conn[<<r, 0>>] = <<BarrierMsg(0, entered[0])>>
    \/ /\ main[r] \in {"write", "spin_ack", "reset"} /\ glob[r][0] = 0
       /\ Acked(r) /\ conn[<<r, 0>>] = << >>
    \/ /\ main[r] \in {"lower", "bar_exit"} /\ glob[r][0] # 0
       /\ Acked(r) /\ conn[<<r, 0>>] = << >>

\* A barrier from the last arrival to the sleep at its end, in which every
\* rank waits for the last one to get there.
Closing ==
    /\ main[0] \in {"connect", "write", "reset", "lower", "bar_exit"}
    /\ main[0] \in {"lower", "bar_exit"} => \A r \in Others : glob[0][r] # r
    /\ entered[0] > 0
    /\ \A r \in Rank :
         /\ entered[r] = entered[0] /\ r \notin expired /\ ~rcv_flag[r]
         /\ main[r] \in {"connect", "write"} => barrier[r]
         /\ entered[r] = 1 => calls[r] = 0
    /\ conn[<<0, 0>>] = << >> /\ srv[<<0, 0>>] = "accept"
    /\ \A r \in Others :
         /\ conn[<<0, r>>] = << >> /\ srv[<<0, r>>] = "accept"
         /\ srv[<<r, 0>>] \in {"accept", "spin", "test", "barrier_read"}
         /\ AckState(r)

\* MPI_Send and MPI_Recv calls among the first c calls of r.
Sends(r, c) == IF r < Half THEN (c + 1) \div 2 ELSE c \div 2
Recvs(r, c) == IF r < Half THEN c \div 2 ELSE (c + 1) \div 2

\* r's MPI_Recv has not got its message yet.
Awaits(r) ==
    \/ main[r] = "post"
    \/ main[r] = "recv" /\ rcv_flag[r] /\ srv[<<r, 0>>] # "clear"

\* Data messages r has sent, and data messages r's server thread has copied.
Sent(r) == Sends(r, calls[r]) - (IF main[r] = "connect" THEN 1 ELSE 0)
Got(r)  == Recvs(r, calls[r]) - (IF Awaits(r) THEN 1 ELSE 0)

\* What r's partner has sent and r has not got is on its way, and what r's
\* server thread is about to read is what MPI_Recv is waiting for.
DataState(r) ==
    /\ Got(r) <= Sent(Partner(r))
    /\ Sent(Partner(r)) = Got(r) => conn[<<r, 0>>] = << >>
    /\ Sent(Partner(r)) # Got(r) => conn[<<r, 0>>] = <<Data(Partner(r), Got(r) + 1)>>
    /\ srv[<<r, 0>>] \in {"accept", "spin", "test", "data_read", "clear"}
    /\ rcv_flag[r] => main[r] = "recv"
    /\ srv[<<r, 0>>] \in {"test", "data_read", "clear"} => rcv_flag[r]
    /\ main[r] \in {"post", "recv"} => rcv_cnt[r] = Sizes[Exchange(calls[r] - 1)]
    /\ Got(r) > 0 => buf[r].src = Partner(r) /\ buf[r].n = Got(r)

\* The exchanges, from the end of the first barrier to the sleep before the
\* second: no second passes in it.
Exchanging ==
    /\ \A r \in Rank :
         /\ ~barrier[r] /\ left[r] = 1
         /\ main[r] \in {"bar_exit", "app", "connect", "write", "post", "recv", "bar_sleep"}
         /\ main[r] = "bar_exit" => r \in expired /\ calls[r] = 0
         /\ main[r] = "bar_sleep" => r \notin expired
         /\ DataState(r)
    /\ \A r \in Others : /\ conn[<<0, r>>] = << >> /\ srv[<<0, r>>] = "accept"
                         /\ glob[r][0] # 0 /\ glob[0][r] # r

\* The second barrier is over, and the processes end.
Leaving ==
    /\ \A r \in Rank : /\ left[r] = 2 /\ main[r] \in {"bar_exit", "app", "exited"}
                       /\ main[r] = "bar_exit" => r \in expired
    /\ \A l \in Listener : conn[l] = << >> /\ srv[l] \in {"accept", "closed"}

\* Every reachable state is in one of the phases.  With an odd number of
\* ranks nothing is said of the exchanges: rank 0 then gets two ranks' data.
Phases ==
    \/ lost = {} /\ (Forming \/ Closing)
    \/ /\ left[0] >= 1
       /\ Even => lost = {} /\ (Exchanging \/ Second \/ Leaving)

----------------------------------------------------------------------------
(* Ranks and messages.  *)

\* A sequence of one message.
LEMMA OneMessage ==
    ASSUME NEW m
    PROVE  /\ Append(<< >>, m) = <<m>>
           /\ <<m>> # << >> /\ Head(<<m>>) = m /\ Tail(<<m>>) = << >>
           /\ Len(<<m>>) = 1 /\ <<m>>[1] = m
  OBVIOUS

\* The remainder of what is below the divisor, or below its double.
LEMMA ModSmall ==
    \A d \in Nat \ {0} : /\ \A x \in 0 .. d - 1 : x % d = x
                         /\ \A x \in d .. 2 * d - 1 : x % d = x - d
  OBVIOUS

\* With an even number of ranks the partners are pairs.
LEMMA Pairs ==
    ASSUME Even, NEW r \in Rank
    PROVE  /\ Partner(r) \in Rank /\ Partner(Partner(r)) = r
           /\ r < Half <=> ~(Partner(r) < Half)
<1>1. /\ Half \in Nat \ {0} /\ NumProc = 2 * Half /\ r \in 0 .. 2 * Half - 1
  BY HalfRank DEF Even, Rank
<1>2. CASE r < Half
  <2>1. Partner(r) = Half + r /\ Half + r \in Half .. 2 * Half - 1
    BY <1>1, <1>2 DEF Partner
  <2>2. (Half + r) % Half = r
    BY <1>1, <2>1, ModSmall
  <2> QED
    BY <1>1, <1>2, <2>1, <2>2 DEF Partner, Rank
<1>3. CASE ~(r < Half)
  <2>1. Partner(r) = r % Half /\ r % Half = r - Half
    BY <1>1, <1>3, ModSmall DEF Partner
  <2> QED
    BY <1>1, <1>3, <2>1 DEF Partner, Rank
<1> QED
  BY <1>2, <1>3

\* The ports of two ranks are different, and so are the two kinds of ports.
LEMMA PortFacts ==
    /\ \A r \in Rank : /\ <<r, 0>> \in Listener /\ <<r, 0>>[1] = r /\ <<r, 0>>[2] = 0
    /\ \A r \in Others : /\ <<0, r>> \in Listener /\ <<0, r>>[1] = 0 /\ <<0, r>>[2] = r
                         /\ r # 0 /\ r \in Rank /\ r \in Nat
    /\ \A l \in Listener : \/ l[1] \in Rank /\ l = <<l[1], 0>>
                           \/ l[2] \in Others /\ l = <<0, l[2]>>
    /\ \A q, r \in Rank : <<q, 0>> = <<r, 0>> <=> q = r
    /\ \A q, r \in Others : <<0, q>> = <<0, r>> <=> q = r
    /\ \A q \in Rank, r \in Others : <<q, 0>> # <<0, r>>
    /\ 0 \in Rank /\ Rank \subseteq Nat
<1>1. \A r \in Rank : <<r, 0>> \in Listener
  BY ListenerFacts
<1>2. \A r \in Others : <<0, r>> \in Listener
  BY ListenerFacts
<1>3. /\ 0 \in Rank /\ Rank \subseteq Nat
      /\ \A r \in Others : r # 0 /\ r \in Rank /\ r \in Nat
  BY NumProcAssumption DEF Rank, Others
<1>4. ASSUME NEW l \in Listener
      PROVE  \/ l[1] \in Rank /\ l = <<l[1], 0>>
             \/ l[2] \in Others /\ l = <<0, l[2]>>
  <2>1. CASE l \in {<<h, 0>> : h \in Rank}
    BY <2>1
  <2>2. CASE l \in {<<0, p>> : p \in Others}
    BY <2>2
  <2> QED
    BY <2>1, <2>2 DEF Listener
<1>5. \A a, b, c, d : <<a, b>> = <<c, d>> <=> a = c /\ b = d
  OBVIOUS
<1>6. \A a, b : <<a, b>>[1] = a /\ <<a, b>>[2] = b
  OBVIOUS
<1> QED
  BY <1>1, <1>2, <1>3, <1>4, <1>5, <1>6, Zenon

----------------------------------------------------------------------------
(* Time and ports.  *)

\* Whoever wakes up leaves expired, and only sleepers enter it.
LEMMA TimingStep ==
    ASSUME Threads, Timing, [Next]_vars
    PROVE  Timing'
<1> USE DEF Timing, Sleepers, Asleep, mainVars, globals, srvVars, timeVars, StartClient
<1>t. main \in [Rank -> MainPc] /\ 0 \in Rank
  BY MainTypes, ZeroRank DEF Threads
<1>p. \A r \in Rank : Partner(r) # r
  BY PartnerFacts
<1>1. ASSUME NEW q \in Rank, Launch(q), UNCHANGED calls PROVE Timing'
  BY <1>1, <1>t DEF Launch, StartBarrier, SpawnServers
<1>2. ASSUME NEW q \in Rank, InitWake(q), UNCHANGED calls PROVE Timing'
  BY <1>2, <1>t DEF InitWake, StartBarrier, SpawnServers, WakeUp, Rested
<1>3. ASSUME NEW q \in Rank, EnterBarrier(q), UNCHANGED calls PROVE Timing'
  BY <1>3, <1>t DEF EnterBarrier, WakeUp, Rested
<1>4. ASSUME NEW q \in Rank, Connect(q), UNCHANGED calls PROVE Timing'
  BY <1>4, <1>t DEF Connect
<1>5. ASSUME NEW q \in Rank, Refused(q), UNCHANGED calls PROVE Timing'
  BY <1>5, <1>t DEF Refused
<1>6. ASSUME NEW q \in Rank, Retry(q), UNCHANGED calls PROVE Timing'
  BY <1>6, <1>t DEF Retry, WakeUp, Rested
<1>7. ASSUME NEW q \in Rank, GiveUp(q), UNCHANGED calls PROVE Timing'
  BY <1>7, <1>t DEF GiveUp, WakeUp, Rested, Terminate
<1>8. ASSUME NEW q \in Rank, ArrivalWritten(q), UNCHANGED calls PROVE Timing'
  BY <1>8, <1>t DEF ArrivalWritten
<1>9. ASSUME NEW q \in Rank, AckSeen(q), UNCHANGED calls PROVE Timing'
  BY <1>9, <1>t DEF AckSeen
<1>10. ASSUME NEW q \in Rank, Reset(q), UNCHANGED calls PROVE Timing'
  BY <1>10, <1>t DEF Reset
<1>11. ASSUME NEW q \in Rank, Lower(q), UNCHANGED calls PROVE Timing'
  BY <1>11, <1>t DEF Lower
<1>12. ASSUME NEW q \in Rank, ExitBarrier(q), UNCHANGED calls PROVE Timing'
  BY <1>12, <1>t DEF ExitBarrier, WakeUp, Rested
<1>13. ASSUME NEW q \in Rank, DataWritten(q), UNCHANGED calls PROVE Timing'
  BY <1>13, <1>t DEF DataWritten
<1>14. ASSUME NEW q \in Rank, PostRecv(q), UNCHANGED calls PROVE Timing'
  BY <1>14, <1>t DEF PostRecv
<1>15. ASSUME NEW q \in Rank, RecvReturn(q), UNCHANGED calls PROVE Timing'
  BY <1>15, <1>t DEF RecvReturn
<1>16. ASSUME NEW q \in Rank, Send(q) PROVE Timing'
  BY <1>16, <1>t, <1>p DEF Send, Working, MPI_Send
<1>17. ASSUME NEW q \in Rank, Recv(q) PROVE Timing'
  BY <1>17, <1>t, <1>p DEF Recv, Working, MPI_Recv
<1>18. ASSUME NEW q \in Rank, MPI_Finalize(q) PROVE Timing'
  BY <1>18, <1>t DEF MPI_Finalize, StartBarrier
<1>19. ASSUME NEW q \in Rank, Exit(q) PROVE Timing'
  BY <1>19, <1>t DEF Exit, Terminate
<1>20. ASSUME WaitArrival, UNCHANGED calls PROVE Timing'
  BY <1>20, <1>t DEF WaitArrival, SendAck
<1>21. ASSUME AckWritten, UNCHANGED calls PROVE Timing'
  BY <1>21, <1>t DEF AckWritten, SendAck
<1>22. ASSUME Tick, UNCHANGED calls PROVE Timing'
  BY <1>22, <1>t DEF Tick, Quiet
<1>23. ASSUME NEW l \in Listener, Bind(l), UNCHANGED calls PROVE Timing'
  BY <1>23, <1>t DEF Bind
<1>24. ASSUME NEW l \in Listener, Accept(l), UNCHANGED calls PROVE Timing'
  BY <1>24, <1>t DEF Accept
<1>25. ASSUME NEW l \in Listener, SpinEnd(l), UNCHANGED calls PROVE Timing'
  BY <1>25, <1>t DEF SpinEnd
<1>26. ASSUME NEW l \in Listener, Test(l), UNCHANGED calls PROVE Timing'
  BY <1>26, <1>t DEF Test, DropHead
<1>27. ASSUME NEW l \in Listener, BarrierRead(l), UNCHANGED calls PROVE Timing'
  BY <1>27, <1>t DEF BarrierRead, DropHead
<1>28. ASSUME NEW l \in Listener, DataRead(l), UNCHANGED calls PROVE Timing'
  BY <1>28, <1>t DEF DataRead, DropHead
<1>29. ASSUME NEW l \in Listener, Clear(l), UNCHANGED calls PROVE Timing'
  BY <1>29, <1>t DEF Clear
<1>30. CASE UNCHANGED vars
  BY <1>30, VarsDef
<1> QED
  BY Steps, <1>1, <1>2, <1>3, <1>4, <1>5, <1>6, <1>7, <1>8, <1>9, <1>10, <1>11,
     <1>12, <1>13, <1>14, <1>15, <1>16, <1>17, <1>18, <1>19, <1>20, <1>21, <1>22,
     <1>23, <1>24, <1>25, <1>26, <1>27, <1>28, <1>29, <1>30

\* A rank that has not got to its first barrier has not entered it.
LEMMA NotEntered ==
    ASSUME Threads, NEW h \in Rank, main[h] \in {"down", "init_sleep"}
    PROVE  entered[h] = 0
<1>1. left[h] = 0 /\ left[h] \in Nat /\ entered[h] \in Nat /\ ~barrier[h]
  BY MainTypes DEF Threads, Control, Clienting
<1>2. entered[h] = left[h] + (IF barrier[h] THEN 1 ELSE 0)
  BY DEF Threads, Control
<1>3. (IF barrier[h] THEN 1 ELSE 0) = 0
  BY <1>1
<1> QED
  BY <1>1, <1>2, <1>3

\* A port opens before its rank's first barrier sleep ends, for a second does
\* not pass while a thread has yet to bind; it closes with the process.
LEMMA PortsStep ==
    ASSUME Timely, Threads, Timing, Ports, [Next]_vars
    PROVE  Ports'
<1> SUFFICES ASSUME NEW l \in Listener PROVE PortOf(l)'
  BY DEF Ports
<1> USE DEF PortOf, Timing, Sleepers, Asleep, Ended, mainVars, globals, srvVars,
            timeVars, StartClient, ListenersOf
<1>t. /\ main \in [Rank -> MainPc] /\ 0 \in Rank /\ l[1] \in Rank
      /\ srv \in [Listener -> SrvPc] /\ entered \in [Rank -> Nat]
  BY MainTypes, ZeroRank, ListenerFacts DEF Threads
<1>p. PortOf(l) /\ expired \subseteq Sleepers /\ (\A r \in Rank : Partner(r) # r)
  BY PartnerFacts DEF Ports
<1>c. \A h \in Rank : main[h] \in {"down", "init_sleep"} => entered[h] = 0
  BY NotEntered
<1>1. ASSUME NEW q \in Rank, Launch(q), UNCHANGED calls PROVE PortOf(l)'
  <2>1. CASE q = 0 /\ l[1] = 0
    <3>1. main'[l[1]] = "bar_sleep" /\ srv'[l] = "born" /\ main[l[1]] = "down"
      BY <1>1, <2>1, <1>t DEF Launch, StartBarrier, SpawnServers
    <3>2. entered'[l[1]] = 0 /\ l[1] \notin expired'
      BY <1>1, <3>1, <1>t, <1>p, <1>c DEF Launch
    <3> QED
      BY <3>1, <3>2
  <2>2. CASE q = 0 /\ l[1] # 0
    <3>1. main'[l[1]] = main[l[1]] /\ srv'[l] = srv[l]
      BY <1>1, <2>2, <1>t DEF Launch, StartBarrier, SpawnServers
    <3>2. entered' = entered /\ expired' = expired
      BY <1>1 DEF Launch
    <3> QED
      BY <3>1, <3>2, <1>p
  <2>3. CASE q # 0
    BY <1>1, <2>3, <1>t, <1>p DEF Launch
  <2> QED
    BY <2>1, <2>2, <2>3
<1>2. ASSUME NEW q \in Rank, InitWake(q), UNCHANGED calls PROVE PortOf(l)'
  <2>1. CASE l[1] = q
    BY <1>2, <2>1, <1>t, <1>p, <1>c DEF InitWake, StartBarrier, SpawnServers, WakeUp, Rested
  <2>2. CASE l[1] # q
    BY <1>2, <2>2, <1>t, <1>p DEF InitWake, StartBarrier, SpawnServers, WakeUp, Rested
  <2> QED
    BY <2>1, <2>2
<1>3. ASSUME NEW q \in Rank, EnterBarrier(q), UNCHANGED calls PROVE PortOf(l)'
  BY <1>3, <1>t, <1>p DEF EnterBarrier, WakeUp, Rested
<1>4. ASSUME NEW q \in Rank, Connect(q), UNCHANGED calls PROVE PortOf(l)'
  BY <1>4, <1>t, <1>p DEF Connect
<1>5. ASSUME NEW q \in Rank, Refused(q), UNCHANGED calls PROVE PortOf(l)'
  BY <1>5, <1>t, <1>p DEF Refused
<1>6. ASSUME NEW q \in Rank, Retry(q), UNCHANGED calls PROVE PortOf(l)'
  BY <1>6, <1>t, <1>p DEF Retry, WakeUp, Rested
<1>7. ASSUME NEW q \in Rank, GiveUp(q), UNCHANGED calls PROVE PortOf(l)'
  BY <1>7, <1>t, <1>p DEF GiveUp, WakeUp, Rested, Terminate
<1>8. ASSUME NEW q \in Rank, ArrivalWritten(q), UNCHANGED calls PROVE PortOf(l)'
  BY <1>8, <1>t, <1>p DEF ArrivalWritten
<1>9. ASSUME NEW q \in Rank, AckSeen(q), UNCHANGED calls PROVE PortOf(l)'
  BY <1>9, <1>t, <1>p DEF AckSeen
<1>10. ASSUME NEW q \in Rank, Reset(q), UNCHANGED calls PROVE PortOf(l)'
  BY <1>10, <1>t, <1>p DEF Reset
<1>11. ASSUME NEW q \in Rank, Lower(q), UNCHANGED calls PROVE PortOf(l)'
  BY <1>11, <1>t, <1>p DEF Lower
<1>12. ASSUME NEW q \in Rank, ExitBarrier(q), UNCHANGED calls PROVE PortOf(l)'
  BY <1>12, <1>t, <1>p DEF ExitBarrier, WakeUp, Rested
<1>13. ASSUME NEW q \in Rank, DataWritten(q), UNCHANGED calls PROVE PortOf(l)'
  BY <1>13, <1>t, <1>p DEF DataWritten
<1>14. ASSUME NEW q \in Rank, PostRecv(q), UNCHANGED calls PROVE PortOf(l)'
  BY <1>14, <1>t, <1>p DEF PostRecv
<1>15. ASSUME NEW q \in Rank, RecvReturn(q), UNCHANGED calls PROVE PortOf(l)'
  BY <1>15, <1>t, <1>p DEF RecvReturn
<1>16. ASSUME NEW q \in Rank, Send(q) PROVE PortOf(l)'
  BY <1>16, <1>t, <1>p DEF Send, Working, MPI_Send
<1>17. ASSUME NEW q \in Rank, Recv(q) PROVE PortOf(l)'
  BY <1>17, <1>t, <1>p DEF Recv, Working, MPI_Recv
<1>18. ASSUME NEW q \in Rank, MPI_Finalize(q) PROVE PortOf(l)'
  BY <1>18, <1>t, <1>p DEF MPI_Finalize, StartBarrier
<1>19. ASSUME NEW q \in Rank, Exit(q) PROVE PortOf(l)'
  BY <1>19, <1>t, <1>p DEF Exit, Terminate
<1>20. ASSUME WaitArrival, UNCHANGED calls PROVE PortOf(l)'
  BY <1>20, <1>t, <1>p DEF WaitArrival, SendAck
<1>21. ASSUME AckWritten, UNCHANGED calls PROVE PortOf(l)'
  BY <1>21, <1>t, <1>p DEF AckWritten, SendAck
<1>22. ASSUME Tick, UNCHANGED calls PROVE PortOf(l)'
  BY <1>22, <1>t, <1>p DEF Tick, Quiet, SrvIdle
<1>23. ASSUME NEW k \in Listener, Bind(k), UNCHANGED calls PROVE PortOf(l)'
  BY <1>23, <1>t, <1>p DEF Bind
<1>24. ASSUME NEW k \in Listener, Accept(k), UNCHANGED calls PROVE PortOf(l)'
  BY <1>24, <1>t, <1>p DEF Accept
<1>25. ASSUME NEW k \in Listener, SpinEnd(k), UNCHANGED calls PROVE PortOf(l)'
  BY <1>25, <1>t, <1>p DEF SpinEnd
<1>26. ASSUME NEW k \in Listener, Test(k), UNCHANGED calls PROVE PortOf(l)'
  BY <1>26, <1>t, <1>p DEF Test, DropHead
<1>27. ASSUME NEW k \in Listener, BarrierRead(k), UNCHANGED calls PROVE PortOf(l)'
  BY <1>27, <1>t, <1>p DEF BarrierRead, DropHead
<1>28. ASSUME NEW k \in Listener, DataRead(k), UNCHANGED calls PROVE PortOf(l)'
  BY <1>28, <1>t, <1>p DEF DataRead, DropHead
<1>29. ASSUME NEW k \in Listener, Clear(k), UNCHANGED calls PROVE PortOf(l)'
  BY <1>29, <1>t, <1>p DEF Clear
<1>30. CASE UNCHANGED vars
  BY <1>30, <1>p, VarsDef
<1> QED
  BY Steps, <1>1, <1>2, <1>3, <1>4, <1>5, <1>6, <1>7, <1>8, <1>9, <1>10, <1>11,
     <1>12, <1>13, <1>14, <1>15, <1>16, <1>17, <1>18, <1>19, <1>20, <1>21, <1>22,
     <1>23, <1>24, <1>25, <1>26, <1>27, <1>28, <1>29, <1>30

----------------------------------------------------------------------------
(* Waiting for arrivals.  *)

\* What may happen while arrivals are collected.
LEMMA CollectSteps ==
    ASSUME Threads, Forming \/ Second, [Next]_vars
    PROVE
           \/ /\ UNCHANGED calls
              /\ \E r \in Rank : Launch(r) \/ InitWake(r) \/ EnterBarrier(r)
           \/ /\ UNCHANGED calls
              /\ \E r \in Others : \/ Connect(r) \/ Refused(r) \/ Retry(r)
                                  \/ GiveUp(r) \/ ArrivalWritten(r)
           \/ UNCHANGED calls /\ (WaitArrival \/ Tick)
           \/ UNCHANGED calls /\ \E l \in Listener : Bind(l)
           \/ /\ UNCHANGED calls
              /\ \E r \in Others : \/ Accept(<<0, r>>) \/ SpinEnd(<<0, r>>)
                                  \/ Test(<<0, r>>) \/ BarrierRead(<<0, r>>)
           \/ UNCHANGED vars
<1> DEFINE G ==
           \/ /\ UNCHANGED calls
              /\ \E r \in Rank : Launch(r) \/ InitWake(r) \/ EnterBarrier(r)
           \/ /\ UNCHANGED calls
              /\ \E r \in Others : \/ Connect(r) \/ Refused(r) \/ Retry(r)
                                  \/ GiveUp(r) \/ ArrivalWritten(r)
           \/ UNCHANGED calls /\ (WaitArrival \/ Tick)
           \/ UNCHANGED calls /\ \E l \in Listener : Bind(l)
           \/ /\ UNCHANGED calls
              /\ \E r \in Others : \/ Accept(<<0, r>>) \/ SpinEnd(<<0, r>>)
                                  \/ Test(<<0, r>>) \/ BarrierRead(<<0, r>>)
           \/ UNCHANGED vars
<1>c. Collecting
  BY DEF Forming, Second
<1>m. \A q \in Rank : /\ main[q] \in {"down", "init_sleep", "bar_sleep", "wait", "connect",
                                      "retry", "write", "spin_ack", "dead"}
                      /\ main[q] \in {"connect", "retry", "write"} => q \in Others /\ barrier[q]
                      /\ main[q] = "spin_ack" => q \in Others /\ glob[q][0] # 0
  BY <1>c, PortFacts DEF Collecting, ArrivalState, Others
<1>l. ASSUME NEW l \in Listener,
             \/ srv[l] \in {"spin", "test", "barrier_read", "data_read", "clear"}
             \/ srv[l] = "accept" /\ conn[l] # << >>
      PROVE  /\ l = <<0, l[2]>> /\ l[2] \in Others
             /\ srv[l] \notin {"data_read", "clear"}
  <2>1. ~(l[1] \in Rank /\ l = <<l[1], 0>>)
    BY <1>c, <1>l DEF Collecting
  <2>2. l[2] \in Others /\ l = <<0, l[2]>> /\ l[2] # 0
    BY <2>1, PortFacts
  <2> QED
    BY <2>2 DEF Threads, Serving
<1>z. 0 \in Rank /\ 0 \notin Others
  BY PortFacts
<1>1. ASSUME NEW q \in Rank, Launch(q), UNCHANGED calls PROVE G
  BY <1>1
<1>2. ASSUME NEW q \in Rank, InitWake(q), UNCHANGED calls PROVE G
  BY <1>2
<1>3. ASSUME NEW q \in Rank, EnterBarrier(q), UNCHANGED calls PROVE G
  BY <1>3
<1>4. ASSUME NEW q \in Rank, Connect(q), UNCHANGED calls PROVE G
  BY <1>4, <1>m, <1>c, <1>z DEF Connect
<1>5. ASSUME NEW q \in Rank, Refused(q), UNCHANGED calls PROVE G
  BY <1>5, <1>m, <1>c, <1>z DEF Refused
<1>6. ASSUME NEW q \in Rank, Retry(q), UNCHANGED calls PROVE G
  BY <1>6, <1>m, <1>c, <1>z DEF Retry
<1>7. ASSUME NEW q \in Rank, GiveUp(q), UNCHANGED calls PROVE G
  BY <1>7, <1>m, <1>c, <1>z DEF GiveUp
<1>8. ASSUME NEW q \in Rank, ArrivalWritten(q), UNCHANGED calls PROVE G
  BY <1>8, <1>m, <1>c, <1>z DEF ArrivalWritten
<1>9. ASSUME NEW q \in Rank, AckSeen(q), UNCHANGED calls PROVE G
  BY <1>9, <1>m, <1>c, <1>z DEF AckSeen
<1>10. ASSUME NEW q \in Rank, Reset(q), UNCHANGED calls PROVE G
  BY <1>10, <1>m, <1>c, <1>z DEF Reset
<1>11. ASSUME NEW q \in Rank, Lower(q), UNCHANGED calls PROVE G
  BY <1>11, <1>m, <1>c, <1>z DEF Lower
<1>12. ASSUME NEW q \in Rank, ExitBarrier(q), UNCHANGED calls PROVE G
  BY <1>12, <1>m, <1>c, <1>z DEF ExitBarrier
<1>13. ASSUME NEW q \in Rank, DataWritten(q), UNCHANGED calls PROVE G
  BY <1>13, <1>m, <1>c, <1>z DEF DataWritten
<1>14. ASSUME NEW q \in Rank, PostRecv(q), UNCHANGED calls PROVE G
  BY <1>14, <1>m, <1>c, <1>z DEF PostRecv
<1>15. ASSUME NEW q \in Rank, RecvReturn(q), UNCHANGED calls PROVE G
  BY <1>15, <1>m, <1>c, <1>z DEF RecvReturn
<1>16. ASSUME NEW q \in Rank, Send(q) PROVE G
  BY <1>16, <1>m, <1>c, <1>z DEF Send, Working
<1>17. ASSUME NEW q \in Rank, Recv(q) PROVE G
  BY <1>17, <1>m, <1>c, <1>z DEF Recv, Working
<1>18. ASSUME NEW q \in Rank, MPI_Finalize(q) PROVE G
  BY <1>18, <1>m, <1>c, <1>z DEF MPI_Finalize
<1>19. ASSUME NEW q \in Rank, Exit(q) PROVE G
  BY <1>19, <1>m, <1>c, <1>z DEF Exit
<1>20. ASSUME WaitArrival, UNCHANGED calls PROVE G
  BY <1>20
<1>21. ASSUME AckWritten, UNCHANGED calls PROVE G
  BY <1>21, <1>m, <1>c, <1>z DEF AckWritten
<1>22. ASSUME Tick, UNCHANGED calls PROVE G
  BY <1>22
<1>23. ASSUME NEW l \in Listener, Bind(l), UNCHANGED calls PROVE G
  BY <1>23
<1>24. ASSUME NEW l \in Listener, Accept(l), UNCHANGED calls PROVE G
  BY <1>24, <1>l, <1>c, <1>z DEF Accept
<1>25. ASSUME NEW l \in Listener, SpinEnd(l), UNCHANGED calls PROVE G
  BY <1>25, <1>l, <1>c, <1>z DEF SpinEnd
<1>26. ASSUME NEW l \in Listener, Test(l), UNCHANGED calls PROVE G
  BY <1>26, <1>l, <1>c, <1>z DEF Test
<1>27. ASSUME NEW l \in Listener, BarrierRead(l), UNCHANGED calls PROVE G
  BY <1>27, <1>l, <1>c, <1>z DEF BarrierRead
<1>28. ASSUME NEW l \in Listener, DataRead(l), UNCHANGED calls PROVE G
  BY <1>28, <1>l, <1>c, <1>z DEF DataRead
<1>29. ASSUME NEW l \in Listener, Clear(l), UNCHANGED calls PROVE G
  BY <1>29, <1>l, <1>c, <1>z DEF Clear
<1>30. CASE UNCHANGED vars
  BY <1>30
<1> QED
  BY Steps, <1>1, <1>2, <1>3, <1>4, <1>5, <1>6, <1>7, <1>8, <1>9, <1>10, <1>11,
     <1>12, <1>13, <1>14, <1>15, <1>16, <1>17, <1>18, <1>19, <1>20, <1>21, <1>22,
     <1>23, <1>24, <1>25, <1>26, <1>27, <1>28, <1>29, <1>30

\* The types of what the phases look at, and the ports as pairs.
LEMMA PhaseTypes ==
    ASSUME Threads
    PROVE  /\ main \in [Rank -> MainPc] /\ barrier \in [Rank -> BOOLEAN]
           /\ entered \in [Rank -> Nat] /\ left \in [Rank -> Nat]
           /\ calls \in [Rank -> Nat] /\ rcv_flag \in [Rank -> BOOLEAN]
           /\ glob \in [Rank -> [Rank -> Rank \cup {-1}]]
           /\ srv \in [Listener -> SrvPc] /\ conn \in [Listener -> Seq(Message)]
           /\ i \in Others
           /\ 0 \in Rank /\ NumProc \in Nat
           /\ \A r \in Rank : r \in Nat /\ <<r, 0>> \in Listener
           /\ \A r \in Others : r \in Rank /\ r # 0 /\ r \in Nat /\ <<0, r>> \in Listener
           /\ \A q, r \in Rank : <<q, 0>> = <<r, 0>> <=> q = r
           /\ \A q, r \in Others : <<0, q>> = <<0, r>> <=> q = r
           /\ \A q \in Rank : \A r \in Others : <<q, 0>> # <<0, r>>
<1>1. /\ main \in [Rank -> MainPc] /\ barrier \in [Rank -> BOOLEAN]
      /\ entered \in [Rank -> Nat] /\ left \in [Rank -> Nat]
      /\ calls \in [Rank -> Nat] /\ rcv_flag \in [Rank -> BOOLEAN]
      /\ glob \in [Rank -> [Rank -> Rank \cup {-1}]]
      /\ srv \in [Listener -> SrvPc]
  BY MainTypes DEF Threads
<1>2. conn \in [Listener -> Seq(Message)] /\ i \in Others
  BY DEF Threads, TypeOK
<1>3. \A r \in Rank : r \in Nat /\ <<r, 0>> \in Listener
  BY PortFacts
<1>4. \A r \in Others : r \in Rank /\ r # 0 /\ r \in Nat /\ <<0, r>> \in Listener
  BY PortFacts
<1>5. /\ \A q, r \in Rank : <<q, 0>> = <<r, 0>> <=> q = r
      /\ \A q, r \in Others : <<0, q>> = <<0, r>> <=> q = r
      /\ \A q \in Rank : \A r \in Others : <<q, 0>> # <<0, r>>
  BY PortFacts
<1> QED
  BY <1>1, <1>2, <1>3, <1>4, <1>5, PortFacts, NumProcAssumption

\* Until rank 0 has every arrival its connections hold nothing else.
LEMMA CollectStart ==
    ASSUME Threads, Collecting, UNCHANGED calls,
           \E q \in Rank : Launch(q) \/ InitWake(q) \/ EnterBarrier(q)
    PROVE  Collecting' /\ lost' = lost
<1> USE DEF Collecting, ArrivalState, mainVars, globals, srvVars, timeVars,
            ListenersOf, StartClient
<1>t. /\ main \in [Rank -> MainPc] /\ barrier \in [Rank -> BOOLEAN]
      /\ srv \in [Listener -> SrvPc] /\ 0 \in Rank
      /\ \A r \in Rank : r \in Nat /\ <<r, 0>> \in Listener
      /\ \A r \in Others : r \in Rank /\ r # 0 /\ r \in Nat /\ <<0, r>> \in Listener
  BY PhaseTypes
<1>1. ASSUME NEW q \in Rank, Launch(q) PROVE Collecting' /\ lost' = lost
  <2>1. CASE q = 0
    BY <1>1, <2>1, <1>t DEF Launch, StartBarrier, SpawnServers
  <2>2. CASE q # 0
    BY <1>1, <2>2, <1>t DEF Launch
  <2> QED
    BY <2>1, <2>2
<1>2. ASSUME NEW q \in Rank, InitWake(q) PROVE Collecting' /\ lost' = lost
  BY <1>2, <1>t DEF InitWake, StartBarrier, SpawnServers, WakeUp
<1>3. ASSUME NEW q \in Rank, EnterBarrier(q) PROVE Collecting' /\ lost' = lost
  <2>1. CASE q = 0
    BY <1>3, <2>1, <1>t DEF EnterBarrier, WakeUp
  <2>2. CASE q # 0
    BY <1>3, <2>2, <1>t DEF EnterBarrier, WakeUp
  <2> QED
    BY <2>1, <2>2
<1> QED
  BY <1>1, <1>2, <1>3

\* The clients of the arrivals.
LEMMA CollectClient ==
    ASSUME Threads, Collecting, UNCHANGED calls, NEW q \in Others,
           \/ Connect(q) \/ Refused(q) \/ Retry(q) \/ GiveUp(q) \/ ArrivalWritten(q)
    PROVE  Collecting' /\ lost' = lost
<1> USE DEF Collecting, ArrivalState, mainVars, globals, srvVars, timeVars, ListenersOf
<1>t. /\ main \in [Rank -> MainPc] /\ barrier \in [Rank -> BOOLEAN]
      /\ srv \in [Listener -> SrvPc] /\ conn \in [Listener -> Seq(Message)]
      /\ 0 \in Rank
      /\ \A r \in Rank : r \in Nat /\ <<r, 0>> \in Listener
      /\ \A r \in Others : r \in Rank /\ r # 0 /\ r \in Nat /\ <<0, r>> \in Listener
      /\ \A r \in Others : <<0, q>> = <<0, r>> <=> q = r
      /\ \A r \in Rank : <<r, 0>> # <<0, q>>
  BY PhaseTypes
<1>1. CASE Connect(q)
  <2>1. main[q] = "connect" /\ barrier[q]
    BY <1>1 DEF Connect
  <2>2. out[q].to = <<0, q>> /\ out[q].msg = BarrierMsg(q, entered[q])
    <3>1. out[q] = Expected(q)
      BY <2>1, <1>t DEF Threads, Outgoing, Clienting
    <3> QED
      BY <2>1, <3>1, <1>t DEF Expected
  <2>3. conn[<<0, q>>] = << >> /\ glob[0][q] # q
    BY <2>1
  <2>4. conn' = [conn EXCEPT ![<<0, q>>] = <<BarrierMsg(q, entered[q])>>]
    BY <1>1, <2>2, <2>3, OneMessage DEF Connect
  <2>5. /\ main' = [main EXCEPT ![q] = "write"]
        /\ UNCHANGED <<entered, barrier, rcv_flag, glob, srv, lost>>
    BY <1>1 DEF Connect
  <2>6. BarrierMsg(q, entered[q])' = BarrierMsg(q, entered[q])
    BY <2>5
  <2>7. \A r \in Others : ArrivalState(r)'
    <3>1. ASSUME NEW r \in Others, r # q PROVE ArrivalState(r)'
      <4>1. /\ main'[r] = main[r] /\ conn'[<<0, r>>] = conn[<<0, r>>]
            /\ BarrierMsg(r, entered[r])' = BarrierMsg(r, entered[r])
        BY <1>t, <2>4, <2>5, <3>1
      <4> QED
        BY <2>5, <3>1, <4>1
    <3>2. ArrivalState(q)'
      <4>1. main'[q] = "write" /\ conn'[<<0, q>>] = <<BarrierMsg(q, entered[q])>>
        BY <1>t, <2>4, <2>5
      <4> QED
        BY <2>3, <2>5, <2>6, <4>1
    <3> QED
      BY <3>1, <3>2
  <2> QED
    BY <1>t, <2>1, <2>4, <2>5, <2>7
<1>2. CASE Refused(q)
  BY <1>2, <1>t DEF Refused
<1>3. CASE Retry(q)
  BY <1>3, <1>t DEF Retry, WakeUp
<1>4. CASE GiveUp(q)
  BY <1>4, <1>t DEF GiveUp, Terminate, WakeUp
<1>5. CASE ArrivalWritten(q)
  BY <1>5, <1>t DEF ArrivalWritten
<1> QED
  BY <1>1, <1>2, <1>3, <1>4, <1>5

\* The server threads of the arrivals.
LEMMA CollectServer ==
    ASSUME Threads, Collecting, UNCHANGED calls,
           \/ \E l \in Listener : Bind(l)
           \/ \E r \in Others : \/ Accept(<<0, r>>) \/ SpinEnd(<<0, r>>)
                                \/ Test(<<0, r>>) \/ BarrierRead(<<0, r>>)
    PROVE  Collecting' /\ lost' = lost
<1> USE DEF Collecting, ArrivalState, mainVars, globals, srvVars, timeVars
<1>t. /\ srv \in [Listener -> SrvPc] /\ conn \in [Listener -> Seq(Message)]
      /\ glob \in [Rank -> [Rank -> Rank \cup {-1}]]
      /\ 0 \in Rank
      /\ \A r \in Rank : r \in Nat /\ <<r, 0>> \in Listener
      /\ \A r \in Others : r \in Rank /\ r # 0 /\ r \in Nat /\ <<0, r>> \in Listener
      /\ \A q, r \in Others : <<0, q>> = <<0, r>> <=> q = r
      /\ \A q \in Rank : \A r \in Others : <<q, 0>> # <<0, r>>
  BY PhaseTypes
<1>1. ASSUME NEW l \in Listener, Bind(l) PROVE Collecting' /\ lost' = lost
  BY <1>1, <1>t DEF Bind
<1>2. ASSUME NEW r \in Others, Accept(<<0, r>>) PROVE Collecting' /\ lost' = lost
  BY <1>2, <1>t DEF Accept
<1>3. ASSUME NEW r \in Others, SpinEnd(<<0, r>>) PROVE Collecting' /\ lost' = lost
  BY <1>3, <1>t DEF SpinEnd, SpinOver
<1>4. ASSUME NEW r \in Others, Test(<<0, r>>) PROVE Collecting' /\ lost' = lost
  <2>1. <<0, r>>[1] = 0 /\ barrier[0]
    BY <1>4 DEF Test
  <2>2. /\ srv' = [srv EXCEPT ![<<0, r>>] = "barrier_read"]
        /\ UNCHANGED <<main, entered, barrier, rcv_flag, glob, conn, lost>>
    BY <1>4, <2>1 DEF Test
  <2> QED
    BY <2>1, <2>2, <1>t
<1>5. ASSUME NEW r \in Others, BarrierRead(<<0, r>>) PROVE Collecting' /\ lost' = lost
  <2> DEFINE m == BarrierMsg(r, entered[r])
  <2>1. srv[<<0, r>>] = "barrier_read" /\ conn[<<0, r>>] # << >>
    BY <1>5, <1>t DEF BarrierRead, Threads, Serving
  <2>2. conn[<<0, r>>] = <<m>> /\ main[r] \in {"write", "spin_ack"}
    BY <2>1
  <2>3. Head(conn[<<0, r>>]) = m /\ Tail(conn[<<0, r>>]) = << >>
    BY <2>2, OneMessage
  <2>4. m.bytes = BarrierSize /\ m.kind = "barrier" /\ m.first = r
    BY DEF BarrierMsg
  <2>5. BarrierSize >= BarrierSize
    BY DEF BarrierSize, IntSize
  <2>6. /\ Head(conn[<<0, r>>]).bytes >= BarrierSize
        /\ Head(conn[<<0, r>>]).kind # "data" /\ Head(conn[<<0, r>>]).first = r
        /\ <<0, r>>[1] = 0 /\ <<0, r>>[2] = r
    BY <2>3, <2>4, <2>5
  <2>7. /\ srv' = [srv EXCEPT ![<<0, r>>] = "accept"]
        /\ glob' = [glob EXCEPT ![0][r] = r]
        /\ lost' = lost
        /\ UNCHANGED <<main, entered, barrier, rcv_flag>>
    BY <1>5, <2>6 DEF BarrierRead
  <2>8. conn' = [conn EXCEPT ![<<0, r>>] = << >>]
    BY <1>5, <2>3 DEF BarrierRead, DropHead
  <2>9. \A q \in Rank : BarrierMsg(q, entered[q])' = BarrierMsg(q, entered[q])
    BY <2>7
  <2> HIDE DEF m
  <2> QED
    BY <1>t, <2>2, <2>7, <2>8, <2>9
<1> QED
  BY <1>1, <1>2, <1>3, <1>4, <1>5

\* A rank is in a barrier once more than it has left one.
LEMMA BarrierCount ==
    ASSUME Threads, NEW r \in Rank
    PROVE  /\ barrier[r] => entered[r] = left[r] + 1
           /\ ~barrier[r] => entered[r] = left[r]
           /\ entered[r] \in Nat /\ left[r] \in Nat /\ entered[r] <= 2
<1>1. entered[r] = left[r] + (IF barrier[r] THEN 1 ELSE 0) /\ entered[r] <= 2
  BY DEF Threads, Control
<1>2. entered[r] \in Nat /\ left[r] \in Nat
  BY MainTypes DEF Threads
<1>3. CASE barrier[r]
  BY <1>1, <1>2, <1>3
<1>4. CASE ~barrier[r]
  BY <1>1, <1>2, <1>4
<1> QED
  BY <1>3, <1>4

\* With the last arrival rank 0 begins to acknowledge: everybody has sent its
\* arrival, and waits for the answer behind an open port.
LEMMA LastArrival ==
    ASSUME Threads, Timing, Ports, Recorded, Forming \/ Second,
           WaitArrival, UNCHANGED calls
    PROVE  /\ lost' = lost
           /\ \/ Collecting' /\ UNCHANGED <<main, left, expired>>
              \/ Closing'
<1>t. /\ main \in [Rank -> MainPc] /\ 0 \in Rank /\ NumProc \in Nat /\ i \in Others
      /\ \A r \in Rank : r \in Nat /\ <<r, 0>> \in Listener
      /\ \A r \in Others : r \in Rank /\ r # 0 /\ r \in Nat /\ <<0, r>> \in Listener
  BY PhaseTypes
<1>c. Collecting
  BY DEF Forming, Second
<1>u. /\ main[0] = "wait" /\ glob[0][i] = i
      /\ UNCHANGED <<entered, left, barrier, rcv_flag, rcv_cnt, glob, srv, conn, buf,
                     lost, expired, clock, calls>>
  BY DEF WaitArrival, globals, srvVars, timeVars
<1>1. CASE i < NumProc - 1
  <2>1. main' = main
    BY <1>1 DEF WaitArrival
  <2>2. \A r \in Rank : BarrierMsg(r, entered[r])' = BarrierMsg(r, entered[r])
    BY <1>u
  <2>3. \A r \in Others : ArrivalState(r)'
    BY <1>t, <1>c, <1>u, <2>1, <2>2 DEF Collecting, ArrivalState
  <2> QED
    BY <1>c, <1>u, <2>1, <2>3 DEF Collecting
<1>2. CASE ~(i < NumProc - 1)
  <2>1. main' = [main EXCEPT ![0] = "connect"] /\ i' = 1
    BY <1>2 DEF WaitArrival, SendAck, StartClient
  <2>2. main'[0] = "connect" /\ \A r \in Others : main'[r] = main[r]
    BY <1>t, <2>1
  <2>3. \A r \in Others : glob[0][r] = r
    BY <1>2, <1>t, <1>u, OthersFacts DEF Recorded, Others, Rank
  <2>4. \A r \in Others : main[r] \in {"write", "spin_ack"} /\ conn[<<0, r>>] = << >>
                          /\ glob[r][0] # 0 /\ conn[<<r, 0>>] = << >>
    BY <1>c, <1>t, <2>3 DEF Collecting, ArrivalState
  <2>5. barrier[0] /\ \A r \in Others : barrier[r]
    BY <1>c, <1>t, <1>u, <2>4 DEF Threads, Control, Collecting
  <2>6. \A r \in Rank : barrier[r] /\ main[r] \in {"wait", "write", "spin_ack"}
    BY <1>u, <2>4, <2>5 DEF Others
  <2>7. \A r \in Rank : left[r] = left[0] /\ left[r] \in {0, 1}
    BY <1>t DEF Forming, Second
  <2>8. \A r \in Rank : entered[r] = entered[0] /\ entered[0] > 0
    BY <1>t, <2>6, <2>7, BarrierCount
  <2>9. \A r \in Rank : r \notin expired
    BY <2>6 DEF Timing, Sleepers, Asleep
  <2>10. \A r \in Rank : entered[r] = 1 => calls[r] = 0
    <3>1. ASSUME NEW r \in Rank, entered[r] = 1 PROVE left[r] = 0
      BY <2>6, <3>1, BarrierCount
    <3> QED
      BY <3>1 DEF Threads, Control
  <2>11. \A l \in Listener : srv[l] \notin {"none", "born", "closed"}
    <3>1. ASSUME NEW l \in Listener PROVE srv[l] \notin {"none", "born", "closed"}
      <4>1. l[1] \in Rank
        BY ListenerFacts
      <4>2. main[l[1]] \notin {"down", "init_sleep", "bar_sleep", "exited", "dead"}
        BY <2>6, <4>1
      <4> QED
        BY <4>2 DEF Ports, PortOf, Ended
    <3> QED
      BY <3>1
  <2>12. \A r \in Rank : srv[<<r, 0>>] = "accept" /\ conn[<<r, 0>>] = << >> /\ ~rcv_flag[r]
    BY <1>c, <1>t, <2>11 DEF Collecting
  <2>13. ASSUME NEW r \in Others PROVE srv[<<0, r>>] = "accept"
    <3>1. srv[<<0, r>>] \notin {"spin", "test", "barrier_read", "data_read"}
      BY <1>t, <2>4 DEF Threads, Serving
    <3>2. srv[<<0, r>>] # "clear" /\ srv[<<0, r>>] \in SrvPc
      BY <1>t, PortFacts DEF Threads, Serving, TypeOK
    <3>3. srv[<<0, r>>] # "stuck"
      BY <1>c DEF Collecting, ArrivalState
    <3> QED
      BY <1>t, <2>11, <3>1, <3>2, <3>3 DEF SrvPc
  <2>14. ASSUME NEW r \in Others PROVE AckState(r)'
    <3>1. ~Acked(r)'
      <4>1. r \in Nat /\ r # 0 /\ i' = 1 /\ main'[0] = "connect"
        BY <1>t, <2>1, <2>2
      <4>2. ~(r < 1)
        BY <4>1
      <4> QED
        BY <4>1, <4>2 DEF Acked
    <3> QED
      BY <1>t, <1>u, <2>2, <2>4, <3>1 DEF AckState
  <2>15. Closing'
    BY <1>t, <1>u, <2>2, <2>4, <2>6, <2>8, <2>9, <2>10, <2>12, <2>13, <2>14 DEF Closing
  <2> QED
    BY <1>u, <2>15
<1> QED
  BY <1>1, <1>2

\* What an idle main thread waits for.
LEMMA IdleFacts ==
    ASSUME NEW r \in Rank, MainIdle(r)
    PROVE  /\ main[r] \in {"init_sleep", "bar_sleep", "retry", "bar_exit"} => r \notin expired
           /\ main[r] = "write" => ~WriteDone(r)
           /\ main[r] = "wait" => glob[0][i] # i
           /\ main[r] = "spin_ack" => glob[r][0] # 0
           /\ main[r] = "recv" => rcv_flag[r]
           /\ main[r] \notin {"app", "connect", "reset", "lower", "post"}
<1>1. main[r] \in {"init_sleep", "bar_sleep", "retry", "bar_exit"} => r \notin expired
  BY DEF MainIdle, Asleep, Ended
<1>2. main[r] = "write" => ~WriteDone(r)
  BY DEF MainIdle, Asleep, Ended
<1>3. main[r] = "wait" => glob[0][i] # i
  BY DEF MainIdle, Asleep, Ended
<1>4. main[r] = "spin_ack" => glob[r][0] # 0
  BY DEF MainIdle, Asleep, Ended
<1>5. main[r] = "recv" => rcv_flag[r]
  BY DEF MainIdle, Asleep, Ended
<1>6. main[r] \notin {"app", "connect", "reset", "lower", "post"}
  BY DEF MainIdle, Asleep, Ended
<1> QED
  BY <1>1, <1>2, <1>3, <1>4, <1>5, <1>6

\* No second passes in the second barrier: rank 0 waits for a rank that is
\* about to send its arrival, or whose arrival is about to be read.
LEMMA SecondBusy ==
    ASSUME BarrierSize <= SockBuf, Threads, Ports, Second
    PROVE  ~Quiet
<1>t. /\ main \in [Rank -> MainPc] /\ 0 \in Rank /\ i \in Others
      /\ \A r \in Others : r \in Rank /\ r # 0 /\ r \in Nat /\ <<0, r>> \in Listener
  BY PhaseTypes
<1>c. Collecting
  BY DEF Second
<1> SUFFICES ASSUME Quiet PROVE FALSE
  OBVIOUS
<1>1. MainIdle(0) /\ MainIdle(i) /\ SrvIdle(<<0, i>>)
  BY <1>t DEF Quiet
<1>2. main[0] = "wait" /\ glob[0][i] # i
  <2>1. main[0] # "down" /\ (main[0] = "bar_sleep" => 0 \in expired)
    BY <1>t DEF Second
  <2>2. main[0] \in {"bar_sleep", "wait"}
    BY <1>c, <2>1 DEF Collecting
  <2>3. CASE main[0] = "bar_sleep"
    BY <1>1, <2>1, <2>3, <1>t, IdleFacts
  <2>4. CASE main[0] = "wait"
    BY <1>1, <2>4, <1>t, IdleFacts
  <2> QED
    BY <2>2, <2>3, <2>4
<1>3. main[i] \in {"bar_sleep", "connect", "write", "spin_ack"}
  BY <1>c, <1>t DEF Second, Collecting
<1>4. CASE main[i] = "bar_sleep"
  BY <1>1, <1>4, <1>t, IdleFacts DEF Second
<1>5. CASE main[i] = "connect"
  BY <1>1, <1>5, <1>t, IdleFacts
<1>6. CASE main[i] = "write"
  <2>1. barrier[i] /\ out[i] = Expected(i)
    BY <1>6, <1>c, <1>t DEF Collecting, Threads, Outgoing, Clienting
  <2>2. out[i].msg.bytes = BarrierSize
    BY <2>1, <1>t DEF Expected, BarrierMsg
  <2> QED
    BY <1>1, <1>6, <2>2, <1>t, IdleFacts DEF WriteDone
<1>7. CASE main[i] = "spin_ack"
  <2>1. conn[<<0, i>>] = <<BarrierMsg(i, entered[i])>>
    BY <1>2, <1>7, <1>c, <1>t DEF Collecting, ArrivalState
  <2>2. conn[<<0, i>>] # << >>
    BY <2>1, OneMessage
  <2>3. barrier[0] /\ <<0, i>>[1] = 0
    BY <1>2, <1>t DEF Threads, Control
  <2>4. srv[<<0, i>>] \notin {"none", "closed", "stuck"}
    <3>1. main[0] \notin {"down", "init_sleep"} \cup Ended
      BY <1>2 DEF Ended
    <3>2. srv[<<0, i>>] # "stuck"
      BY <1>c, <1>t DEF Collecting, ArrivalState
    <3> QED
      BY <1>t, <2>3, <3>1, <3>2 DEF Ports, PortOf
  <2> QED
    BY <1>1, <2>2, <2>3, <2>4 DEF SrvIdle, SpinOver
<1> QED
  BY <1>3, <1>4, <1>5, <1>6, <1>7

\* A second may pass while the first barrier is being collected.
LEMMA CollectTick ==
    ASSUME Collecting, Tick, UNCHANGED calls
    PROVE  Collecting' /\ lost' = lost /\ UNCHANGED <<left, main>>
<1>1. UNCHANGED <<main, entered, left, barrier, rcv_flag, glob, srv, conn, lost>>
  BY DEF Tick, mainVars, globals, srvVars
<1>2. \A r \in Rank : BarrierMsg(r, entered[r])' = BarrierMsg(r, entered[r])
  BY <1>1
<1>3. \A r \in Others : ArrivalState(r) => ArrivalState(r)'
  BY <1>1, <1>2 DEF ArrivalState, Others
<1> QED
  BY <1>1, <1>3 DEF Collecting

\* The first barrier is collected until rank 0 begins to acknowledge.
LEMMA FormingStep ==
    ASSUME Threads, Timing, Ports, Recorded, Forming, [Next]_vars
    PROVE  lost' = lost /\ (Forming' \/ Closing')
<1>c. Collecting /\ \A r \in Rank : left[r] = 0
  BY DEF Forming
<1>1. ASSUME UNCHANGED calls, NEW q \in Rank,
             Launch(q) \/ InitWake(q) \/ EnterBarrier(q)
      PROVE  lost' = lost /\ Forming'
  <2>1. left' = left
    BY <1>1 DEF Launch, InitWake, EnterBarrier
  <2> QED
    BY <1>1, <1>c, <2>1, CollectStart DEF Forming
<1>2. ASSUME UNCHANGED calls, NEW q \in Others,
             \/ Connect(q) \/ Refused(q) \/ Retry(q) \/ GiveUp(q) \/ ArrivalWritten(q)
      PROVE  lost' = lost /\ Forming'
  <2>1. left' = left
    BY <1>2 DEF Connect, Refused, Retry, GiveUp, Terminate, ArrivalWritten
  <2> QED
    BY <1>2, <1>c, <2>1, CollectClient DEF Forming
<1>3. ASSUME UNCHANGED calls,
             \/ \E l \in Listener : Bind(l)
             \/ \E r \in Others : \/ Accept(<<0, r>>) \/ SpinEnd(<<0, r>>)
                                  \/ Test(<<0, r>>) \/ BarrierRead(<<0, r>>)
      PROVE  lost' = lost /\ Forming'
  <2>1. left' = left
    BY <1>3 DEF Bind, Accept, SpinEnd, Test, BarrierRead, mainVars
  <2> QED
    BY <1>3, <1>c, <2>1, CollectServer DEF Forming
<1>4. ASSUME UNCHANGED calls, WaitArrival PROVE lost' = lost /\ (Forming' \/ Closing')
  BY <1>4, <1>c, LastArrival DEF Forming
<1>5. ASSUME UNCHANGED calls, Tick PROVE lost' = lost /\ Forming'
  BY <1>5, <1>c, CollectTick DEF Forming
<1>6. CASE UNCHANGED vars
  <2>1. UNCHANGED <<main, entered, left, barrier, rcv_flag, glob, srv, conn, lost>>
    BY <1>6, VarsDef
  <2>2. \A r \in Rank : BarrierMsg(r, entered[r])' = BarrierMsg(r, entered[r])
    BY <2>1
  <2>3. \A r \in Others : ArrivalState(r) => ArrivalState(r)'
    BY <2>1, <2>2 DEF ArrivalState, Others
  <2> QED
    BY <1>c, <2>1, <2>3 DEF Collecting, Forming
<1> QED
  BY CollectSteps, <1>1, <1>2, <1>3, <1>4, <1>5, <1>6

\* The second barrier is collected, without a pause, until rank 0 begins to
\* acknowledge.
LEMMA SecondStep ==
    ASSUME BarrierSize <= SockBuf, Threads, Timing, Ports, Recorded, Second, [Next]_vars
    PROVE  lost' = lost /\ (Second' \/ Closing')
<1>c. /\ Collecting
      /\ \A r \in Rank : /\ left[r] = 1
                         /\ main[r] \notin {"down", "init_sleep", "retry", "dead"}
                         /\ main[r] = "bar_sleep" => r \in expired
  BY DEF Second
<1>t. /\ main \in [Rank -> MainPc] /\ 0 \in Rank
      /\ \A r \in Others : r \in Rank /\ r # 0 /\ r \in Nat /\ <<0, r>> \in Listener
  BY PhaseTypes
<1>1. ASSUME UNCHANGED calls, NEW q \in Rank,
             Launch(q) \/ InitWake(q) \/ EnterBarrier(q)
      PROVE  lost' = lost /\ Second'
  <2>1. EnterBarrier(q)
    BY <1>1, <1>c DEF Launch, InitWake
  <2>2. /\ left' = left /\ expired' = expired \ {q}
        /\ main' = [main EXCEPT ![q] = IF q = 0 THEN "wait" ELSE "connect"]
    BY <2>1 DEF EnterBarrier, WakeUp, StartClient
  <2>3. \A r \in Rank : /\ main'[r] \notin {"down", "init_sleep", "retry", "dead"}
                        /\ main'[r] = "bar_sleep" => r \in expired'
    BY <1>c, <1>t, <2>2
  <2> QED
    BY <1>1, <1>c, <2>2, <2>3, CollectStart DEF Second
<1>2. ASSUME UNCHANGED calls, NEW q \in Others,
             \/ Connect(q) \/ Refused(q) \/ Retry(q) \/ GiveUp(q) \/ ArrivalWritten(q)
      PROVE  lost' = lost /\ Second'
  <2>1. ~Retry(q) /\ ~GiveUp(q)
    BY <1>c, <1>t DEF Retry, GiveUp
  <2>2. ~Refused(q)
    <3> SUFFICES ASSUME Refused(q) PROVE FALSE
      OBVIOUS
    <3>1. main[q] = "connect" /\ ~Open(out[q].to)
      BY DEF Refused
    <3>2. barrier[q] /\ out[q] = Expected(q)
      BY <3>1, <1>c, <1>t DEF Collecting, Threads, Outgoing, Clienting
    <3>3. out[q].to = <<0, q>>
      BY <3>2, <1>t DEF Expected
    <3>4. entered[0] >= 1 /\ main[0] \in {"bar_sleep", "wait"} /\ <<0, q>>[1] = 0
      BY <1>c, <1>t, BarrierCount DEF Collecting
    <3>5. Open(<<0, q>>)
      BY <1>t, <3>4 DEF Ports, PortOf, Open, Ended
    <3> QED
      BY <3>1, <3>3, <3>5
  <2>3. CASE Connect(q)
    <3>1. left' = left /\ expired' = expired /\ main' = [main EXCEPT ![q] = "write"]
      BY <2>3 DEF Connect, timeVars
    <3>2. \A r \in Rank : /\ main'[r] \notin {"down", "init_sleep", "retry", "dead"}
                          /\ main'[r] = "bar_sleep" => r \in expired'
      BY <1>c, <1>t, <3>1
    <3> QED
      BY <1>2, <1>c, <3>1, <3>2, CollectClient DEF Second
  <2>4. CASE ArrivalWritten(q)
    <3>1. left' = left /\ expired' = expired /\ main' = [main EXCEPT ![q] = "spin_ack"]
      BY <2>4 DEF ArrivalWritten, timeVars
    <3>2. \A r \in Rank : /\ main'[r] \notin {"down", "init_sleep", "retry", "dead"}
                          /\ main'[r] = "bar_sleep" => r \in expired'
      BY <1>c, <1>t, <3>1
    <3> QED
      BY <1>2, <1>c, <3>1, <3>2, CollectClient DEF Second
  <2> QED
    BY <1>2, <2>1, <2>2, <2>3, <2>4
<1>3. ASSUME UNCHANGED calls,
             \/ \E l \in Listener : Bind(l)
             \/ \E r \in Others : \/ Accept(<<0, r>>) \/ SpinEnd(<<0, r>>)
                                  \/ Test(<<0, r>>) \/ BarrierRead(<<0, r>>)
      PROVE  lost' = lost /\ Second'
  <2>1. UNCHANGED <<left, main, expired>>
    BY <1>3 DEF Bind, Accept, SpinEnd, Test, BarrierRead, mainVars, timeVars
  <2> QED
    BY <1>3, <1>c, <2>1, CollectServer DEF Second
<1>4. ASSUME UNCHANGED calls, WaitArrival PROVE lost' = lost /\ (Second' \/ Closing')
  BY <1>4, <1>c, LastArrival DEF Second
<1>5. ASSUME UNCHANGED calls, Tick PROVE FALSE
  BY <1>5, SecondBusy DEF Tick
<1>6. CASE UNCHANGED vars
  <2>1. UNCHANGED <<main, entered, left, barrier, rcv_flag, glob, srv, conn, lost, expired>>
    BY <1>6, VarsDef
  <2>2. \A r \in Rank : BarrierMsg(r, entered[r])' = BarrierMsg(r, entered[r])
    BY <2>1
  <2>3. \A r \in Others : ArrivalState(r) => ArrivalState(r)'
    BY <2>1, <2>2 DEF ArrivalState, Others
  <2> QED
    BY <1>c, <2>1, <2>3 DEF Collecting, Second
<1> QED
  BY CollectSteps, <1>1, <1>2, <1>3, <1>4, <1>5, <1>6

----------------------------------------------------------------------------
(* Acknowledging.  *)

\* What may happen from the last arrival to the sleep at the end of a barrier.
LEMMA CloseSteps ==
    ASSUME Timely, Threads, Ports, Closing, [Next]_vars
    PROVE
           \/ /\ UNCHANGED calls
              /\ \E r \in Rank : Reset(r) \/ Lower(r)
           \/ /\ UNCHANGED calls
              /\ \E r \in Others : ArrivalWritten(r) \/ AckSeen(r)
           \/ UNCHANGED calls /\ (Connect(0) \/ AckWritten \/ Tick)
           \/ /\ UNCHANGED calls
              /\ \E r \in Others : \/ Accept(<<r, 0>>) \/ SpinEnd(<<r, 0>>)
                                  \/ Test(<<r, 0>>) \/ BarrierRead(<<r, 0>>)
           \/ UNCHANGED vars
<1> DEFINE G ==
           \/ /\ UNCHANGED calls
              /\ \E r \in Rank : Reset(r) \/ Lower(r)
           \/ /\ UNCHANGED calls
              /\ \E r \in Others : ArrivalWritten(r) \/ AckSeen(r)
           \/ UNCHANGED calls /\ (Connect(0) \/ AckWritten \/ Tick)
           \/ /\ UNCHANGED calls
              /\ \E r \in Others : \/ Accept(<<r, 0>>) \/ SpinEnd(<<r, 0>>)
                                  \/ Test(<<r, 0>>) \/ BarrierRead(<<r, 0>>)
           \/ UNCHANGED vars
<1>z. 0 \in Rank /\ 0 \notin Others /\ \A r \in Rank : r = 0 \/ r \in Others
  BY PortFacts DEF Others
<1>m. \A q \in Rank : /\ main[q] \in {"connect", "write", "spin_ack", "reset", "lower",
                                      "bar_exit"}
                      /\ main[q] = "connect" => q = 0
                      /\ main[q] = "spin_ack" => q # 0
                      /\ main[q] = "write" => barrier[q]
  BY <1>z DEF Closing, AckState
<1>x. \A q \in Rank : q \notin expired
  BY DEF Closing
<1>o. main[0] = "connect" => Open(out[0].to)
  <2> SUFFICES ASSUME main[0] = "connect" PROVE Open(out[0].to)
    OBVIOUS
  <2>1. i \in Others /\ out[0] = Expected(0) /\ barrier[0]
    BY <1>z DEF Threads, TypeOK, Outgoing, Clienting, Closing
  <2>2. out[0].to = <<i, 0>>
    BY <2>1 DEF Expected
  <2> QED
    BY <2>1, <2>2 DEF Closing, Open
<1>l. ASSUME NEW l \in Listener
      PROVE  /\ srv[l] \in {"accept", "spin", "test", "barrier_read"}
             /\ \/ srv[l] # "accept"
                \/ conn[l] # << >>
                => l[1] \in Others /\ l = <<l[1], 0>>
  <2>1. CASE l[1] \in Rank /\ l = <<l[1], 0>>
    BY <1>z, <2>1 DEF Closing
  <2>2. CASE l[2] \in Others /\ l = <<0, l[2]>>
    BY <2>2 DEF Closing
  <2> QED
    BY <2>1, <2>2, PortFacts
<1>1. ASSUME NEW q \in Rank, Launch(q), UNCHANGED calls PROVE G
  BY <1>1, <1>m, <1>x, <1>z DEF Launch
<1>2. ASSUME NEW q \in Rank, InitWake(q), UNCHANGED calls PROVE G
  BY <1>2, <1>m DEF InitWake
<1>3. ASSUME NEW q \in Rank, EnterBarrier(q), UNCHANGED calls PROVE G
  BY <1>3, <1>m, <1>x, <1>z DEF EnterBarrier
<1>4. ASSUME NEW q \in Rank, Connect(q), UNCHANGED calls PROVE G
  BY <1>4, <1>m, <1>x, <1>z DEF Connect
<1>5. ASSUME NEW q \in Rank, Refused(q), UNCHANGED calls PROVE G
  BY <1>5, <1>m, <1>o, <1>z DEF Refused
<1>6. ASSUME NEW q \in Rank, Retry(q), UNCHANGED calls PROVE G
  BY <1>6, <1>m DEF Retry
<1>7. ASSUME NEW q \in Rank, GiveUp(q), UNCHANGED calls PROVE G
  BY <1>7, <1>m DEF GiveUp
<1>8. ASSUME NEW q \in Rank, ArrivalWritten(q), UNCHANGED calls PROVE G
  BY <1>8, <1>m, <1>x, <1>z DEF ArrivalWritten
<1>9. ASSUME NEW q \in Rank, AckSeen(q), UNCHANGED calls PROVE G
  BY <1>9, <1>m, <1>z DEF AckSeen
<1>10. ASSUME NEW q \in Rank, Reset(q), UNCHANGED calls PROVE G
  BY <1>10
<1>11. ASSUME NEW q \in Rank, Lower(q), UNCHANGED calls PROVE G
  BY <1>11
<1>12. ASSUME NEW q \in Rank, ExitBarrier(q), UNCHANGED calls PROVE G
  BY <1>12, <1>m, <1>x, <1>z DEF ExitBarrier, Rested
<1>13. ASSUME NEW q \in Rank, DataWritten(q), UNCHANGED calls PROVE G
  BY <1>13, <1>m, <1>x, <1>z DEF DataWritten
<1>14. ASSUME NEW q \in Rank, PostRecv(q), UNCHANGED calls PROVE G
  BY <1>14, <1>m, <1>x, <1>z DEF PostRecv
<1>15. ASSUME NEW q \in Rank, RecvReturn(q), UNCHANGED calls PROVE G
  BY <1>15, <1>m, <1>x, <1>z DEF RecvReturn
<1>16. ASSUME NEW q \in Rank, Send(q) PROVE G
  BY <1>16, <1>m DEF Send, Working
<1>17. ASSUME NEW q \in Rank, Recv(q) PROVE G
  BY <1>17, <1>m DEF Recv, Working
<1>18. ASSUME NEW q \in Rank, MPI_Finalize(q) PROVE G
  BY <1>18, <1>m, <1>x, <1>z DEF MPI_Finalize
<1>19. ASSUME NEW q \in Rank, Exit(q) PROVE G
  BY <1>19, <1>m, <1>x, <1>z DEF Exit
<1>20. ASSUME WaitArrival, UNCHANGED calls PROVE G
  BY <1>20, <1>m, <1>x, <1>z DEF WaitArrival
<1>21. ASSUME AckWritten, UNCHANGED calls PROVE G
  BY <1>21
<1>22. ASSUME Tick, UNCHANGED calls PROVE G
  BY <1>22
<1>23. ASSUME NEW l \in Listener, Bind(l), UNCHANGED calls PROVE G
  BY <1>23, <1>l, <1>z DEF Bind
<1>24. ASSUME NEW l \in Listener, Accept(l), UNCHANGED calls PROVE G
  BY <1>24, <1>l, <1>z DEF Accept
<1>25. ASSUME NEW l \in Listener, SpinEnd(l), UNCHANGED calls PROVE G
  BY <1>25, <1>l, <1>z DEF SpinEnd
<1>26. ASSUME NEW l \in Listener, Test(l), UNCHANGED calls PROVE G
  BY <1>26, <1>l, <1>z DEF Test
<1>27. ASSUME NEW l \in Listener, BarrierRead(l), UNCHANGED calls PROVE G
  BY <1>27, <1>l, <1>z DEF BarrierRead
<1>28. ASSUME NEW l \in Listener, DataRead(l), UNCHANGED calls PROVE G
  BY <1>28, <1>l, <1>z DEF DataRead
<1>29. ASSUME NEW l \in Listener, Clear(l), UNCHANGED calls PROVE G
  BY <1>29, <1>l, <1>z DEF Clear
<1>30. CASE UNCHANGED vars
  BY <1>30
<1> QED
  BY Steps, <1>1, <1>2, <1>3, <1>4, <1>5, <1>6, <1>7, <1>8, <1>9, <1>10, <1>11,
     <1>12, <1>13, <1>14, <1>15, <1>16, <1>17, <1>18, <1>19, <1>20, <1>21, <1>22,
     <1>23, <1>24, <1>25, <1>26, <1>27, <1>28, <1>29, <1>30

\* An acknowledgement is on its way to r, and r is waiting for it.
LEMMA AckPending ==
    ASSUME Threads, Closing, NEW r \in Others, conn[<<r, 0>>] # << >>
    PROVE  /\ main[r] \in {"write", "spin_ack"} /\ barrier[r] /\ Acked(r)
           /\ conn[<<r, 0>>] = <<BarrierMsg(0, entered[0])>>
<1>1. AckState(r) /\ r \in Rank /\ (main[r] = "write" => barrier[r])
  BY PortFacts DEF Closing
<1>2. main[r] \in {"write", "spin_ack"} /\ Acked(r)
      /\ conn[<<r, 0>>] = <<BarrierMsg(0, entered[0])>>
  BY <1>1 DEF AckState
<1>3. main[r] = "spin_ack" => barrier[r]
  BY <1>1 DEF Threads, Control
<1> QED
  BY <1>1, <1>2, <1>3

\* Rank 0's acknowledgement to i is accepted: its port is open.
LEMMA CloseConnect ==
    ASSUME Threads, Closing, Connect(0), UNCHANGED calls
    PROVE  Closing' /\ lost' = lost
<1>t. /\ main \in [Rank -> MainPc] /\ conn \in [Listener -> Seq(Message)]
      /\ 0 \in Rank /\ i \in Others
      /\ \A r \in Rank : r \in Nat /\ <<r, 0>> \in Listener
      /\ \A r \in Others : r \in Rank /\ r # 0 /\ r \in Nat /\ <<0, r>> \in Listener
      /\ \A q, r \in Rank : <<q, 0>> = <<r, 0>> <=> q = r
      /\ \A q \in Rank : \A r \in Others : <<q, 0>> # <<0, r>>
  BY PhaseTypes
<1>1. main[0] = "connect" /\ barrier[0]
  BY <1>t DEF Connect, Closing
<1>2. out[0] = Expected(0)
  BY <1>1, <1>t DEF Threads, Outgoing, Clienting
<1>3. out[0].to = <<i, 0>> /\ out[0].msg = BarrierMsg(0, entered[0])
  BY <1>1, <1>2 DEF Expected
<1>4. \A r \in Others : Acked(r) <=> r < i
  BY <1>1 DEF Acked
<1>5. ~Acked(i) /\ conn[<<i, 0>>] = << >>
  <2>1. ~Acked(i)
    <3>1. i \in Nat /\ ~(i < i)
      BY <1>t, NumProcAssumption DEF Others, Rank
    <3> QED
      BY <1>4, <1>t, <3>1
  <2> QED
    BY <1>t, <2>1 DEF Closing, AckState
<1>6. /\ main' = [main EXCEPT ![0] = "write"]
      /\ conn' = [conn EXCEPT ![<<i, 0>>] = <<BarrierMsg(0, entered[0])>>]
      /\ UNCHANGED <<i, entered, left, barrier, rcv_flag, glob, srv, expired, lost>>
  BY <1>3, <1>5, OneMessage DEF Connect, globals, timeVars
<1>7. main'[0] = "write" /\ \A r \in Others : main'[r] = main[r]
  BY <1>t, <1>6
<1>8. BarrierMsg(0, entered[0])' = BarrierMsg(0, entered[0])
  BY <1>6
<1>9. ASSUME NEW r \in Others PROVE AckState(r)'
  <2>1. Acked(r)' <=> Acked(r) \/ r = i
    BY <1>4, <1>6, <1>7 DEF Acked
  <2>2. AckState(r)
    BY DEF Closing
  <2>3. CASE r = i
    <3>1. conn'[<<r, 0>>] = <<BarrierMsg(0, entered[0])>> /\ main'[r] = main[r]
      BY <1>t, <1>6, <1>7, <2>3
    <3>2. main[r] \in {"write", "spin_ack"} /\ glob[r][0] # 0
      BY <1>5, <2>2, <2>3 DEF AckState
    <3> QED
      BY <1>6, <1>8, <2>1, <2>3, <3>1, <3>2 DEF AckState
  <2>4. CASE r # i
    <3>1. conn'[<<r, 0>>] = conn[<<r, 0>>] /\ main'[r] = main[r]
      BY <1>t, <1>6, <1>7, <2>4
    <3> QED
      BY <1>6, <1>8, <2>1, <2>2, <2>4, <3>1 DEF AckState
  <2> QED
    BY <2>3, <2>4
<1>10. conn'[<<0, 0>>] = conn[<<0, 0>>] /\ \A r \in Others : conn'[<<0, r>>] = conn[<<0, r>>]
  BY <1>t, <1>6
<1>11. \A r \in Rank : main'[r] \in {"connect", "write"} => barrier'[r]
  BY <1>1, <1>6, <1>7 DEF Closing, Others
<1> QED
  BY <1>6, <1>7, <1>9, <1>10, <1>11 DEF Closing

\* With an acknowledgement written rank 0 goes on to the next, or to reset.
LEMMA CloseWritten ==
    ASSUME Threads, Closing, AckWritten, UNCHANGED calls
    PROVE  Closing' /\ lost' = lost
<1>t. /\ main \in [Rank -> MainPc] /\ 0 \in Rank /\ i \in Others /\ NumProc \in Nat
      /\ \A r \in Others : r \in Rank /\ r # 0 /\ r \in Nat /\ <<0, r>> \in Listener
  BY PhaseTypes
<1>n. \A r \in Others : r <= NumProc - 1
  BY NumProcAssumption DEF Others, Rank
<1>1. /\ main[0] = "write" /\ barrier[0]
      /\ UNCHANGED <<entered, left, barrier, rcv_flag, glob, srv, conn, expired, lost>>
  BY DEF AckWritten, globals, srvVars, timeVars
<1>2. /\ main'[0] \in {"connect", "reset"}
      /\ \A r \in Others : main'[r] = main[r] /\ (Acked(r)' <=> Acked(r))
  <2>1. CASE i < NumProc - 1
    <3>1. main' = [main EXCEPT ![0] = "connect"] /\ i' = i + 1
      BY <2>1 DEF AckWritten, SendAck, StartClient
    <3>2. main'[0] = "connect" /\ \A r \in Others : main'[r] = main[r]
      BY <3>1, <1>t
    <3>3. ASSUME NEW r \in Others PROVE r < i + 1 <=> (r < i \/ r = i)
      <4>1. r \in Nat /\ i \in Nat
        BY <1>t
      <4> QED
        BY <4>1
    <3> QED
      BY <1>1, <3>1, <3>2, <3>3 DEF Acked
  <2>2. CASE ~(i < NumProc - 1)
    <3>1. main' = [main EXCEPT ![0] = "reset"]
      BY <2>2 DEF AckWritten
    <3>2. main'[0] = "reset" /\ \A r \in Others : main'[r] = main[r]
      BY <3>1, <1>t
    <3>3. ASSUME NEW r \in Others PROVE r < i \/ r = i
      <4>1. r \in Nat /\ i \in Nat /\ r <= NumProc - 1
        BY <1>t, <1>n
      <4> QED
        BY <1>t, <2>2, <4>1
    <3> QED
      BY <1>1, <3>2, <3>3 DEF Acked
  <2> QED
    BY <2>1, <2>2
<1>3. BarrierMsg(0, entered[0])' = BarrierMsg(0, entered[0])
  BY <1>1
<1>4. \A r \in Others : AckState(r)'
  BY <1>1, <1>2, <1>3 DEF Closing, AckState
<1>5. \A r \in Rank : main'[r] \in {"connect", "write"} => barrier'[r]
  BY <1>1, <1>2 DEF Closing, Others
<1> QED
  BY <1>1, <1>2, <1>4, <1>5 DEF Closing

\* The main threads of a barrier that closes.
LEMMA CloseMain ==
    ASSUME Threads, Closing, UNCHANGED calls,
           \/ \E r \in Rank : Reset(r) \/ Lower(r)
           \/ \E r \in Others : ArrivalWritten(r) \/ AckSeen(r)
    PROVE  Closing' /\ lost' = lost
<1>t. /\ main \in [Rank -> MainPc] /\ barrier \in [Rank -> BOOLEAN]
      /\ glob \in [Rank -> [Rank -> Rank \cup {-1}]]
      /\ left \in [Rank -> Nat]
      /\ 0 \in Rank /\ i \in Others
      /\ \A r \in Others : r \in Rank /\ r # 0 /\ r \in Nat /\ <<0, r>> \in Listener
  BY PhaseTypes
<1>m. \A r \in Others : AckState(r)
  BY DEF Closing
<1>1. ASSUME NEW q \in Others, ArrivalWritten(q) PROVE Closing' /\ lost' = lost
  <2>1. /\ main[q] = "write" /\ main' = [main EXCEPT ![q] = "spin_ack"]
        /\ UNCHANGED <<i, entered, left, barrier, rcv_flag, glob, srv, conn, expired, lost>>
    BY <1>1 DEF ArrivalWritten, globals, srvVars, timeVars
  <2>2. main'[0] = main[0] /\ \A r \in Others : main'[r] = IF r = q THEN "spin_ack" ELSE main[r]
    BY <1>t, <2>1
  <2>3. BarrierMsg(0, entered[0])' = BarrierMsg(0, entered[0])
    BY <2>1
  <2>4. \A r \in Others : (Acked(r)' <=> Acked(r)) /\ AckState(r)'
    BY <1>m, <2>1, <2>2, <2>3 DEF Acked, AckState
  <2>5. \A r \in Rank : main'[r] \in {"connect", "write"} => barrier'[r]
    BY <2>1, <2>2 DEF Closing, Others
  <2> QED
    BY <2>1, <2>2, <2>4, <2>5 DEF Closing
<1>2. ASSUME NEW q \in Others, AckSeen(q) PROVE Closing' /\ lost' = lost
  <2>1. /\ main[q] = "spin_ack" /\ main' = [main EXCEPT ![q] = "reset"] /\ glob[q][0] = 0
        /\ UNCHANGED <<i, entered, left, barrier, rcv_flag, glob, srv, conn, expired, lost>>
    BY <1>2 DEF AckSeen, globals, srvVars, timeVars
  <2>2. main'[0] = main[0] /\ \A r \in Others : main'[r] = IF r = q THEN "reset" ELSE main[r]
    BY <1>t, <2>1
  <2>3. BarrierMsg(0, entered[0])' = BarrierMsg(0, entered[0])
    BY <2>1
  <2>4. \A r \in Others : (Acked(r)' <=> Acked(r)) /\ AckState(r)'
    BY <1>m, <2>1, <2>2, <2>3 DEF Acked, AckState
  <2>5. \A r \in Rank : main'[r] \in {"connect", "write"} => barrier'[r]
    BY <2>1, <2>2 DEF Closing, Others
  <2> QED
    BY <2>1, <2>2, <2>4, <2>5 DEF Closing
<1>3. ASSUME NEW q \in Rank, Reset(q) PROVE Closing' /\ lost' = lost
  <2>1. /\ main[q] = "reset" /\ main' = [main EXCEPT ![q] = "lower"]
        /\ glob' = [glob EXCEPT ![q] = [s \in Rank |-> -1]]
        /\ UNCHANGED <<i, entered, left, barrier, rcv_flag, srv, conn, expired, lost>>
    BY <1>3 DEF Reset, srvVars, timeVars
  <2>2. \A r \in Rank : main'[r] = IF r = q THEN "lower" ELSE main[r]
    BY <1>t, <2>1
  <2>3. BarrierMsg(0, entered[0])' = BarrierMsg(0, entered[0])
    BY <2>1
  <2>4. \A r, s \in Rank : glob'[r][s] = IF r = q THEN -1 ELSE glob[r][s]
    BY <1>t, <2>1
  <2>5. \A r \in Others : Acked(r)' <=> Acked(r)
    BY <1>t, <2>1, <2>2 DEF Acked
  <2>6. ASSUME NEW r \in Others PROVE AckState(r)'
    <3>1. CASE r = q
      <4>1. Acked(r) /\ conn[<<r, 0>>] = << >>
        BY <1>m, <2>1, <3>1 DEF AckState
      <4>2. main'[r] = "lower" /\ glob'[r][0] # 0
        BY <1>t, <2>2, <2>4, <3>1
      <4> QED
        BY <2>1, <2>5, <4>1, <4>2 DEF AckState
    <3>2. CASE r # q
      BY <1>m, <1>t, <2>1, <2>2, <2>3, <2>4, <2>5, <3>2 DEF AckState
    <3> QED
      BY <3>1, <3>2
  <2>7. \A r \in Rank : main'[r] \in {"connect", "write"} => barrier'[r]
    BY <2>1, <2>2 DEF Closing
  <2>8. ASSUME main'[0] \in {"lower", "bar_exit"}, NEW r \in Others PROVE glob'[0][r] # r
    <3>1. r \in Nat /\ r \in Rank /\ -1 # r
      BY NumProcAssumption DEF Others, Rank
    <3>2. CASE q = 0
      BY <1>t, <2>4, <3>1, <3>2
    <3>3. CASE q # 0
      BY <1>t, <2>2, <2>4, <2>8, <3>1, <3>3 DEF Closing
    <3> QED
      BY <3>2, <3>3
  <2>9. main'[0] \in {"connect", "write", "reset", "lower", "bar_exit"}
    BY <1>t, <2>2 DEF Closing
  <2> QED
    BY <2>1, <2>6, <2>7, <2>8, <2>9 DEF Closing
<1>4. ASSUME NEW q \in Rank, Lower(q) PROVE Closing' /\ lost' = lost
  <2>1. /\ main[q] = "lower" /\ main' = [main EXCEPT ![q] = "bar_exit"]
        /\ barrier' = [barrier EXCEPT ![q] = FALSE]
        /\ UNCHANGED <<i, entered, rcv_flag, glob, srv, conn, expired, lost>>
    BY <1>4 DEF Lower, srvVars, timeVars
  <2>2. \A r \in Rank : /\ main'[r] = IF r = q THEN "bar_exit" ELSE main[r]
                        /\ r # q => barrier'[r] = barrier[r]
    BY <1>t, <2>1
  <2>3. BarrierMsg(0, entered[0])' = BarrierMsg(0, entered[0])
    BY <2>1
  <2>4. \A r \in Others : Acked(r)' <=> Acked(r)
    BY <1>t, <2>1, <2>2 DEF Acked
  <2>5. \A r \in Others : AckState(r)'
    BY <1>m, <1>t, <2>1, <2>2, <2>3, <2>4 DEF AckState
  <2>6. \A r \in Rank : main'[r] \in {"connect", "write"} => barrier'[r]
    BY <2>1, <2>2 DEF Closing
  <2>7. main'[0] \in {"lower", "bar_exit"} => \A r \in Others : glob'[0][r] # r
    BY <1>t, <2>1, <2>2 DEF Closing
  <2>8. main'[0] \in {"connect", "write", "reset", "lower", "bar_exit"}
    BY <1>t, <2>2 DEF Closing
  <2> QED
    BY <2>1, <2>5, <2>6, <2>7, <2>8 DEF Closing
<1> QED
  BY <1>1, <1>2, <1>3, <1>4

\* The server threads of a barrier that closes: each reads the acknowledgement
\* by the barrier branch, since its rank's barrier stays up until it is read.
LEMMA CloseServer ==
    ASSUME Threads, Closing, UNCHANGED calls, NEW q \in Others,
           \/ Accept(<<q, 0>>) \/ SpinEnd(<<q, 0>>) \/ Test(<<q, 0>>) \/ BarrierRead(<<q, 0>>)
    PROVE  Closing' /\ lost' = lost
<1>t. /\ srv \in [Listener -> SrvPc] /\ conn \in [Listener -> Seq(Message)]
      /\ glob \in [Rank -> [Rank -> Rank \cup {-1}]]
      /\ 0 \in Rank /\ q \in Rank /\ q # 0 /\ <<q, 0>> \in Listener
      /\ \A r \in Rank : r \in Nat /\ <<r, 0>> \in Listener
      /\ \A r \in Others : r \in Rank /\ r # 0 /\ r \in Nat /\ <<0, r>> \in Listener
      /\ \A r \in Rank : <<q, 0>> = <<r, 0>> <=> q = r
      /\ \A r \in Others : <<q, 0>> # <<0, r>>
  BY PhaseTypes
<1>m. \A r \in Others : AckState(r)
  BY DEF Closing
<1> DEFINE Moved(s) == /\ srv' = [srv EXCEPT ![<<q, 0>>] = s]
                       /\ UNCHANGED <<main, i, entered, barrier, rcv_flag, glob, conn, expired,
                                      lost>>
<1>1. ASSUME NEW s \in {"accept", "spin", "test", "barrier_read"}, Moved(s)
      PROVE  Closing' /\ lost' = lost
  <2>1. BarrierMsg(0, entered[0])' = BarrierMsg(0, entered[0])
    BY <1>1
  <2>2. \A r \in Others : (Acked(r)' <=> Acked(r)) /\ AckState(r)'
    BY <1>m, <1>1, <2>1 DEF Acked, AckState
  <2>3. \A l \in Listener : srv'[l] = IF l = <<q, 0>> THEN s ELSE srv[l]
    BY <1>1, <1>t
  <2>4. /\ srv'[<<0, 0>>] = srv[<<0, 0>>]
        /\ \A r \in Others : /\ srv'[<<0, r>>] = srv[<<0, r>>]
                             /\ srv'[<<r, 0>>] \in {srv[<<r, 0>>], s}
    BY <1>t, <2>3
  <2> QED
    BY <1>1, <2>2, <2>4 DEF Closing
<1>2. CASE Accept(<<q, 0>>)
  BY <1>1, <1>2 DEF Accept, mainVars, globals, timeVars
<1>3. CASE SpinEnd(<<q, 0>>)
  BY <1>1, <1>3 DEF SpinEnd, mainVars, globals, timeVars
<1>4. CASE Test(<<q, 0>>)
  <2>1. conn[<<q, 0>>] # << >>
    BY <1>4, <1>t DEF Test, Threads, Serving
  <2>2. barrier[q] /\ <<q, 0>>[1] = q
    BY <2>1, AckPending
  <2> QED
    BY <1>1, <1>4, <2>2 DEF Test, mainVars, globals, timeVars
<1>5. CASE BarrierRead(<<q, 0>>)
  <2> DEFINE m == BarrierMsg(0, entered[0])
  <2>1. conn[<<q, 0>>] # << >>
    BY <1>5, <1>t DEF BarrierRead, Threads, Serving
  <2>2. conn[<<q, 0>>] = <<m>> /\ main[q] \in {"write", "spin_ack"} /\ Acked(q)
    BY <2>1, AckPending
  <2>3. Head(conn[<<q, 0>>]) = m /\ Tail(conn[<<q, 0>>]) = << >>
    BY <2>2, OneMessage
  <2>4. m.bytes = BarrierSize /\ m.kind = "barrier" /\ m.first = 0 /\ BarrierSize >= BarrierSize
    BY DEF BarrierMsg, BarrierSize, IntSize
  <2>5. /\ Head(conn[<<q, 0>>]).bytes >= BarrierSize
        /\ Head(conn[<<q, 0>>]).kind # "data" /\ Head(conn[<<q, 0>>]).first = 0
        /\ <<q, 0>>[1] = q /\ <<q, 0>>[2] = 0
    BY <2>3, <2>4
  <2>6. /\ srv' = [srv EXCEPT ![<<q, 0>>] = "accept"]
        /\ glob' = [glob EXCEPT ![q][0] = 0]
        /\ UNCHANGED <<main, i, entered, barrier, rcv_flag, expired, lost>>
    BY <1>5, <2>5 DEF BarrierRead, mainVars, timeVars
  <2>7. conn' = [conn EXCEPT ![<<q, 0>>] = << >>]
    BY <1>5, <2>3 DEF BarrierRead, DropHead
  <2>8. m' = m
    BY <2>6
  <2> HIDE DEF m
  <2>9. \A r \in Others : Acked(r)' <=> Acked(r)
    BY <2>6 DEF Acked
  <2>10. ASSUME NEW r \in Others PROVE AckState(r)'
    <3>1. CASE r = q
      <4>1. glob'[r][0] = 0 /\ conn'[<<r, 0>>] = << >>
        BY <1>t, <2>6, <2>7, <3>1
      <4> QED
        BY <2>2, <2>6, <2>9, <3>1, <4>1 DEF AckState
    <3>2. CASE r # q
      <4>1. glob'[r] = glob[r] /\ conn'[<<r, 0>>] = conn[<<r, 0>>]
        BY <1>t, <2>6, <2>7, <3>2
      <4> QED
        BY <1>m, <2>6, <2>8, <2>9, <4>1 DEF AckState, m
    <3> QED
      BY <3>1, <3>2
  <2>11. /\ srv'[<<0, 0>>] = srv[<<0, 0>>] /\ conn'[<<0, 0>>] = conn[<<0, 0>>]
         /\ \A r \in Others : /\ srv'[<<0, r>>] = srv[<<0, r>>]
                              /\ conn'[<<0, r>>] = conn[<<0, r>>]
                              /\ srv'[<<r, 0>>] \in {srv[<<r, 0>>], "accept"}
         /\ glob'[0] = glob[0]
    BY <1>t, <2>6, <2>7
  <2> QED
    BY <2>6, <2>10, <2>11 DEF Closing
<1> QED
  BY <1>2, <1>3, <1>4, <1>5

\* A second passes in a barrier that closes only when every rank sleeps at its
\* end and no acknowledgement is left.
LEMMA CloseQuiet ==
    ASSUME BarrierSize <= SockBuf, Threads, Closing, Quiet
    PROVE  /\ \A r \in Rank : main[r] = "bar_exit"
           /\ \A l \in Listener : srv[l] = "accept" /\ conn[l] = << >>
           /\ \A r \in Others : glob[r][0] # 0
<1>t. /\ 0 \in Rank /\ i \in Others /\ \A r \in Rank : r = 0 \/ r \in Others
      /\ \A r \in Others : r \in Rank /\ r # 0 /\ <<r, 0>> \in Listener
  BY PhaseTypes DEF Others
<1>1. ASSUME NEW r \in Rank PROVE main[r] # "write"
  <2> SUFFICES ASSUME main[r] = "write" PROVE FALSE
    OBVIOUS
  <2>1. MainIdle(r) /\ barrier[r]
    BY DEF Quiet, Closing
  <2>2. out[r] = Expected(r)
    BY DEF Threads, Outgoing, Clienting
  <2>3. out[r].msg.bytes = BarrierSize
    BY <2>1, <2>2 DEF Expected, BarrierMsg
  <2> QED
    BY <2>1, <2>3, IdleFacts DEF WriteDone
<1>2. main[0] = "bar_exit"
  <2>1. MainIdle(0)
    BY <1>t DEF Quiet
  <2> QED
    BY <1>1, <1>t, <2>1, IdleFacts DEF Closing
<1>3. ASSUME NEW r \in Others
      PROVE  /\ main[r] = "bar_exit" /\ conn[<<r, 0>>] = << >> /\ srv[<<r, 0>>] = "accept"
             /\ glob[r][0] # 0
  <2>1. MainIdle(r) /\ SrvIdle(<<r, 0>>) /\ AckState(r)
    BY <1>t DEF Quiet, Closing
  <2>2. Acked(r) /\ main[r] # "write"
    BY <1>1, <1>2, <1>t DEF Acked
  <2>3. srv[<<r, 0>>] \in {"accept", "spin"}
    BY <2>1 DEF SrvIdle, Closing
  <2>4. conn[<<r, 0>>] = << >>
    <3> SUFFICES ASSUME conn[<<r, 0>>] # << >> PROVE FALSE
      OBVIOUS
    <3>1. barrier[r] /\ <<r, 0>>[1] = r
      BY AckPending
    <3> QED
      BY <2>1, <2>3, <3>1 DEF SrvIdle, SpinOver
  <2>5. srv[<<r, 0>>] = "accept"
    BY <1>t, <2>3, <2>4 DEF Threads, Serving
  <2>6. <<BarrierMsg(0, entered[0])>> # << >>
    BY OneMessage
  <2>7. main[r] = "bar_exit" /\ glob[r][0] # 0
    BY <1>t, <2>1, <2>2, <2>4, <2>6, IdleFacts DEF AckState
  <2> QED
    BY <2>4, <2>5, <2>7
<1>4. ASSUME NEW l \in Listener PROVE srv[l] = "accept" /\ conn[l] = << >>
  <2>1. CASE l[1] \in Rank /\ l = <<l[1], 0>>
    BY <1>3, <1>t, <2>1 DEF Closing
  <2>2. CASE l[2] \in Others /\ l = <<0, l[2]>>
    BY <2>2 DEF Closing
  <2> QED
    BY <2>1, <2>2, PortFacts
<1> QED
  BY <1>2, <1>3, <1>4, <1>t

\* With the second after the first barrier every rank may begin its exchanges,
\* with the one after the second every rank may end.
LEMMA CloseTick ==
    ASSUME BarrierSize <= SockBuf, Threads, Closing, Tick, UNCHANGED calls
    PROVE  lost' = lost /\ left'[0] >= 1 /\ (Exchanging' \/ Leaving')
<1>1. /\ \A r \in Rank : main[r] = "bar_exit"
      /\ \A l \in Listener : srv[l] = "accept" /\ conn[l] = << >>
      /\ \A r \in Others : glob[r][0] # 0
  BY CloseQuiet DEF Tick
<1>2. /\ expired' = Sleepers
      /\ UNCHANGED <<main, i, entered, left, barrier, rcv_flag, rcv_cnt, glob, srv, conn, buf,
                     lost>>
  BY DEF Tick, mainVars, globals, srvVars
<1>t. /\ 0 \in Rank
      /\ \A r \in Rank : <<r, 0>> \in Listener
      /\ \A r \in Others : r \in Rank /\ <<0, r>> \in Listener
  BY PhaseTypes
<1>3. ASSUME NEW r \in Rank
      PROVE  /\ ~barrier[r] /\ entered[r] = left[r] /\ left[r] = left[0] /\ left[r] \in {1, 2}
             /\ r \in expired'
  <2>1. main[r] = "bar_exit" /\ main[0] = "bar_exit"
    BY <1>1, <1>t
  <2>2. ~barrier[r] /\ ~barrier[0] /\ left[r] \in {1, 2}
    BY <1>t, <2>1 DEF Threads, Control, Clienting
  <2>3. entered[r] = left[r] /\ entered[0] = left[0]
    BY <1>t, <2>2, BarrierCount
  <2>4. entered[r] = entered[0]
    BY DEF Closing
  <2> QED
    BY <1>2, <2>1, <2>2, <2>3, <2>4 DEF Sleepers, Asleep
<1>4. CASE left[0] = 1
  <2>1. \A r \in Rank : calls[r] = 0 /\ ~rcv_flag[r] /\ left[r] = 1
    BY <1>3, <1>4 DEF Closing
  <2>2. ASSUME NEW r \in Rank PROVE Sent(r) = 0 /\ Got(r) = 0
    BY <1>1, <2>1, Parity DEF Sent, Got, Sends, Recvs, Awaits
  <2>3. \A r \in Rank : Sent(r)' = Sent(r) /\ Got(r)' = Got(r)
    BY <1>2 DEF Sent, Got, Awaits
  <2>4. ASSUME NEW r \in Rank PROVE DataState(r)'
    <3>1. Got(r)' = 0 /\ Sent(Partner(r))' = 0
      BY <2>2, <2>3, PartnerFacts
    <3> QED
      BY <1>1, <1>2, <1>t, <2>1, <3>1 DEF DataState
  <2>5. Exchanging'
    BY <1>1, <1>2, <1>3, <1>t, <2>1, <2>4 DEF Exchanging, Closing
  <2> QED
    BY <1>2, <1>4, <2>5
<1>5. CASE left[0] = 2
  <2>1. Leaving'
    BY <1>1, <1>2, <1>3, <1>5 DEF Leaving
  <2> QED
    BY <1>2, <1>5, <2>1
<1> QED
  BY <1>3, <1>4, <1>5, <1>t

\* A barrier closes until every rank is told and has slept its second.
LEMMA ClosingStep ==
    ASSUME Timely, BarrierSize <= SockBuf, Threads, Ports, Closing, [Next]_vars
    PROVE  lost' = lost /\ (Closing' \/ (left'[0] >= 1 /\ (Exchanging' \/ Leaving')))
<1>1. CASE UNCHANGED vars
  <2>1. UNCHANGED <<main, i, entered, left, barrier, rcv_flag, glob, srv, conn, lost, expired,
                    calls>>
    BY <1>1, VarsDef
  <2>2. BarrierMsg(0, entered[0])' = BarrierMsg(0, entered[0])
    BY <2>1
  <2>3. \A r \in Others : (Acked(r)' <=> Acked(r)) /\ (AckState(r) => AckState(r)')
    BY <2>1, <2>2 DEF Acked, AckState
  <2> QED
    BY <2>1, <2>3 DEF Closing
<1> QED
  BY <1>1, CloseSteps, CloseMain, CloseConnect, CloseWritten, CloseTick, CloseServer

----------------------------------------------------------------------------
(* Exchanging.  *)

\* What may happen during the exchanges.
LEMMA ExchangeSteps ==
    ASSUME Timely, Threads, Exchanging, [Next]_vars
    PROVE
           \/ /\ UNCHANGED calls
              /\ \E r \in Rank : \/ ExitBarrier(r) \/ Connect(r) \/ DataWritten(r)
                                \/ PostRecv(r) \/ RecvReturn(r)
           \/ \E r \in Rank : Send(r) \/ Recv(r)
           \/ \E r \in Rank : MPI_Finalize(r)
           \/ UNCHANGED calls /\ Tick
           \/ /\ UNCHANGED calls
              /\ \E r \in Rank : \/ Accept(<<r, 0>>) \/ SpinEnd(<<r, 0>>) \/ Test(<<r, 0>>)
                                \/ DataRead(<<r, 0>>) \/ Clear(<<r, 0>>)
           \/ UNCHANGED vars
<1> DEFINE G ==
           \/ /\ UNCHANGED calls
              /\ \E r \in Rank : \/ ExitBarrier(r) \/ Connect(r) \/ DataWritten(r)
                                \/ PostRecv(r) \/ RecvReturn(r)
           \/ \E r \in Rank : Send(r) \/ Recv(r)
           \/ \E r \in Rank : MPI_Finalize(r)
           \/ UNCHANGED calls /\ Tick
           \/ /\ UNCHANGED calls
              /\ \E r \in Rank : \/ Accept(<<r, 0>>) \/ SpinEnd(<<r, 0>>) \/ Test(<<r, 0>>)
                                \/ DataRead(<<r, 0>>) \/ Clear(<<r, 0>>)
           \/ UNCHANGED vars
<1>z. 0 \in Rank /\ 0 \notin Others /\ \A r \in Rank : r = 0 \/ r \in Others
  BY PortFacts DEF Others
<1>m. \A q \in Rank : /\ main[q] \in {"bar_exit", "app", "connect", "write", "post", "recv",
                                      "bar_sleep"}
                      /\ ~barrier[q] /\ left[q] = 1
                      /\ main[q] = "bar_sleep" => q \notin expired
  BY DEF Exchanging
<1>o. ASSUME NEW q \in Rank, main[q] = "connect" PROVE Open(out[q].to)
  <2>1. out[q] = Expected(q) /\ ~barrier[q]
    BY <1>m, <1>o DEF Threads, Outgoing, Clienting
  <2>2. out[q].to = <<Partner(q), 0>> /\ Partner(q) \in Rank
    BY <2>1, PartnerFacts DEF Expected
  <2> QED
    BY <2>2 DEF Exchanging, DataState, Open
<1>l. ASSUME NEW l \in Listener
      PROVE  /\ srv[l] \in {"accept", "spin", "test", "data_read", "clear"}
             /\ \/ srv[l] # "accept"
                \/ conn[l] # << >>
                => l[1] \in Rank /\ l = <<l[1], 0>>
  <2>1. CASE l[1] \in Rank /\ l = <<l[1], 0>>
    BY <1>z, <2>1 DEF Exchanging, DataState
  <2>2. CASE l[2] \in Others /\ l = <<0, l[2]>>
    BY <2>2 DEF Exchanging
  <2> QED
    BY <2>1, <2>2, PortFacts
<1>1. ASSUME NEW q \in Rank, Launch(q), UNCHANGED calls PROVE G
  BY <1>1, <1>m, <1>z DEF Launch
<1>2. ASSUME NEW q \in Rank, InitWake(q), UNCHANGED calls PROVE G
  BY <1>2, <1>m DEF InitWake
<1>3. ASSUME NEW q \in Rank, EnterBarrier(q), UNCHANGED calls PROVE G
  BY <1>3, <1>m, <1>z DEF EnterBarrier, Rested
<1>4. ASSUME NEW q \in Rank, Connect(q), UNCHANGED calls PROVE G
  BY <1>4
<1>5. ASSUME NEW q \in Rank, Refused(q), UNCHANGED calls PROVE G
  BY <1>5, <1>o DEF Refused
<1>6. ASSUME NEW q \in Rank, Retry(q), UNCHANGED calls PROVE G
  BY <1>6, <1>m DEF Retry
<1>7. ASSUME NEW q \in Rank, GiveUp(q), UNCHANGED calls PROVE G
  BY <1>7, <1>m DEF GiveUp
<1>8. ASSUME NEW q \in Rank, ArrivalWritten(q), UNCHANGED calls PROVE G
  BY <1>8, <1>m, <1>z DEF ArrivalWritten
<1>9. ASSUME NEW q \in Rank, AckSeen(q), UNCHANGED calls PROVE G
  BY <1>9, <1>m, <1>z DEF AckSeen
<1>10. ASSUME NEW q \in Rank, Reset(q), UNCHANGED calls PROVE G
  BY <1>10, <1>m, <1>z DEF Reset
<1>11. ASSUME NEW q \in Rank, Lower(q), UNCHANGED calls PROVE G
  BY <1>11, <1>m, <1>z DEF Lower
<1>12. ASSUME NEW q \in Rank, ExitBarrier(q), UNCHANGED calls PROVE G
  BY <1>12
<1>13. ASSUME NEW q \in Rank, DataWritten(q), UNCHANGED calls PROVE G
  BY <1>13
<1>14. ASSUME NEW q \in Rank, PostRecv(q), UNCHANGED calls PROVE G
  BY <1>14
<1>15. ASSUME NEW q \in Rank, RecvReturn(q), UNCHANGED calls PROVE G
  BY <1>15
<1>16. ASSUME NEW q \in Rank, Send(q) PROVE G
  BY <1>16
<1>17. ASSUME NEW q \in Rank, Recv(q) PROVE G
  BY <1>17
<1>18. ASSUME NEW q \in Rank, MPI_Finalize(q) PROVE G
  BY <1>18
<1>19. ASSUME NEW q \in Rank, Exit(q) PROVE G
  BY <1>19, <1>m, <1>z DEF Exit
<1>20. ASSUME WaitArrival, UNCHANGED calls PROVE G
  BY <1>20, <1>m, <1>z DEF WaitArrival
<1>21. ASSUME AckWritten, UNCHANGED calls PROVE G
  BY <1>21, <1>m, <1>z DEF AckWritten
<1>22. ASSUME Tick, UNCHANGED calls PROVE G
  BY <1>22
<1>23. ASSUME NEW l \in Listener, Bind(l), UNCHANGED calls PROVE G
  BY <1>23, <1>l, <1>z DEF Bind
<1>24. ASSUME NEW l \in Listener, Accept(l), UNCHANGED calls PROVE G
  BY <1>24, <1>l, <1>z DEF Accept
<1>25. ASSUME NEW l \in Listener, SpinEnd(l), UNCHANGED calls PROVE G
  BY <1>25, <1>l, <1>z DEF SpinEnd
<1>26. ASSUME NEW l \in Listener, Test(l), UNCHANGED calls PROVE G
  BY <1>26, <1>l, <1>z DEF Test
<1>27. ASSUME NEW l \in Listener, BarrierRead(l), UNCHANGED calls PROVE G
  BY <1>27, <1>l, <1>z DEF BarrierRead
<1>28. ASSUME NEW l \in Listener, DataRead(l), UNCHANGED calls PROVE G
  <2>1. srv[l] = "data_read"
    BY <1>28 DEF DataRead
  <2>2. l[1] \in Rank /\ l = <<l[1], 0>>
    BY <1>l, <2>1
  <2>3. DataRead(<<l[1], 0>>)
    BY <1>28, <2>2
  <2> QED
    BY <1>28, <2>2, <2>3
<1>29. ASSUME NEW l \in Listener, Clear(l), UNCHANGED calls PROVE G
  BY <1>29, <1>l, <1>z DEF Clear
<1>30. CASE UNCHANGED vars
  BY <1>30
<1> QED
  BY Steps, <1>1, <1>2, <1>3, <1>4, <1>5, <1>6, <1>7, <1>8, <1>9, <1>10, <1>11,
     <1>12, <1>13, <1>14, <1>15, <1>16, <1>17, <1>18, <1>19, <1>20, <1>21, <1>22,
     <1>23, <1>24, <1>25, <1>26, <1>27, <1>28, <1>29, <1>30

\* The calls alternate: a rank of the lower half sends first in each exchange,
\* its partner receives first.
LEMMA CallFacts ==
    ASSUME NEW r \in Rank, NEW c \in Nat
    PROVE  /\ Sends(r, c) \in Nat /\ Recvs(r, c) \in Nat /\ Exchange(c) \in Nat
           /\ IsSend(r, c) => /\ Sends(r, c + 1) = Sends(r, c) + 1
                              /\ Recvs(r, c + 1) = Recvs(r, c)
                              /\ Exchange(c) = Sends(r, c + 1)
           /\ ~IsSend(r, c) => /\ Sends(r, c + 1) = Sends(r, c)
                               /\ Recvs(r, c + 1) = Recvs(r, c) + 1
                               /\ Exchange(c) = Recvs(r, c + 1)
           /\ r < Half => /\ IsSend(r, c) => Sends(r, c + 1) = Recvs(r, c + 1) + 1
                          /\ ~IsSend(r, c) => Sends(r, c + 1) = Recvs(r, c + 1)
           /\ ~(r < Half) => /\ IsSend(r, c) => Sends(r, c + 1) = Recvs(r, c + 1)
                             /\ ~IsSend(r, c) => Recvs(r, c + 1) = Sends(r, c + 1) + 1
<1>1. /\ c \div 2 \in Nat /\ (c + 1) \div 2 \in Nat
      /\ c % 2 = 0 => (c + 1) \div 2 = c \div 2 /\ ((c + 1) + 1) \div 2 = (c \div 2) + 1
      /\ c % 2 # 0 => (c + 1) \div 2 = (c \div 2) + 1 /\ ((c + 1) + 1) \div 2 = (c \div 2) + 1
  BY Parity
<1>2. CASE r < Half
  BY <1>1, <1>2 DEF Sends, Recvs, Exchange, IsSend
<1>3. CASE ~(r < Half)
  BY <1>1, <1>3 DEF Sends, Recvs, Exchange, IsSend
<1> QED
  BY <1>2, <1>3

\* Where r's main thread is tells how far its sends are from its receives.
LEMMA Counts ==
    ASSUME Threads, Exchanging, NEW r \in Rank
    PROVE  /\ Sent(r) \in Int /\ Got(r) \in Int
           /\ r < Half => Sent(r) <= Got(r) + 1
           /\ ~(r < Half) => Sent(r) <= Got(r)
           /\ main[r] = "connect" => /\ Exchange(calls[r] - 1) = Sent(r) + 1
                                     /\ r < Half => Got(r) = Sent(r)
                                     /\ ~(r < Half) => Got(r) = Sent(r) + 1
           /\ main[r] = "write" => /\ Exchange(calls[r] - 1) = Sent(r)
                                   /\ r < Half => Got(r) = Sent(r) - 1
                                   /\ ~(r < Half) => Got(r) = Sent(r)
           /\ Awaits(r) => /\ Exchange(calls[r] - 1) = Got(r) + 1
                           /\ r < Half => Sent(r) = Got(r) + 1
                           /\ ~(r < Half) => Sent(r) = Got(r)
           /\ main[r] \in {"connect", "write", "post", "recv"}
                => calls[r] - 1 \in Nat /\ calls[r] - 1 < 2 * Len(Sizes)
<1>t. calls[r] \in Nat /\ calls[r] <= 2 * Len(Sizes) /\ Len(Sizes) \in Nat
  BY ZeroRank DEF Threads, TypeOK
<1>s. Sends(r, calls[r]) \in Nat /\ Recvs(r, calls[r]) \in Nat
  BY <1>t, CallFacts
<1>m. /\ ~barrier[r] /\ left[r] = 1
      /\ main[r] \in {"bar_exit", "app", "connect", "write", "post", "recv", "bar_sleep"}
      /\ main[r] = "bar_exit" => calls[r] = 0
  BY DEF Exchanging
<1>1. CASE calls[r] = 0
  <2>1. main[r] \notin {"connect", "write", "post", "recv"}
    BY <1>1, <1>m, <1>t DEF Threads, Control, Clienting
  <2>2. Sends(r, 0) = 0 /\ Recvs(r, 0) = 0
    BY DEF Sends, Recvs
  <2>3. Sent(r) = 0 /\ Got(r) = 0 /\ ~Awaits(r)
    BY <1>1, <2>1, <2>2 DEF Sent, Got, Awaits
  <2> QED
    BY <2>1, <2>3
<1>2. CASE calls[r] # 0
  <2> DEFINE c == calls[r] - 1
  <2>1. c \in Nat /\ c + 1 = calls[r] /\ c < 2 * Len(Sizes)
    BY <1>2, <1>t
  <2>2. main[r] \in {"connect", "write"} => IsSend(r, c)
    BY <1>m DEF Threads, Control, Clienting
  <2>3. main[r] \in {"post", "recv"} => ~IsSend(r, c)
    BY <1>m DEF Threads, Control
  <2>4. /\ IsSend(r, c) => Exchange(c) = Sends(r, calls[r])
        /\ ~IsSend(r, c) => Exchange(c) = Recvs(r, calls[r])
        /\ r < Half => /\ IsSend(r, c) => Sends(r, calls[r]) = Recvs(r, calls[r]) + 1
                       /\ ~IsSend(r, c) => Sends(r, calls[r]) = Recvs(r, calls[r])
        /\ ~(r < Half) => /\ IsSend(r, c) => Sends(r, calls[r]) = Recvs(r, calls[r])
                          /\ ~IsSend(r, c) => Recvs(r, calls[r]) = Sends(r, calls[r]) + 1
    <3>1. ASSUME NEW k \in Nat, calls[r] = k + 1
          PROVE  /\ IsSend(r, k) => Exchange(k) = Sends(r, calls[r])
                 /\ ~IsSend(r, k) => Exchange(k) = Recvs(r, calls[r])
                 /\ r < Half => /\ IsSend(r, k) => Sends(r, calls[r]) = Recvs(r, calls[r]) + 1
                                /\ ~IsSend(r, k) => Sends(r, calls[r]) = Recvs(r, calls[r])
                 /\ ~(r < Half) => /\ IsSend(r, k) => Sends(r, calls[r]) = Recvs(r, calls[r])
                                   /\ ~IsSend(r, k) => Recvs(r, calls[r]) = Sends(r, calls[r]) + 1
      BY <3>1, CallFacts
    <3> QED
      BY <2>1, <3>1
  <2>5. Awaits(r) => main[r] \in {"post", "recv"}
    BY DEF Awaits
  <2> HIDE DEF c
  <2>6. CASE Awaits(r)
    <3>1. Sent(r) = Sends(r, calls[r]) /\ Got(r) = Recvs(r, calls[r]) - 1
      BY <2>5, <2>6, <1>s DEF Sent, Got
    <3> QED
      BY <1>s, <2>1, <2>3, <2>4, <2>5, <2>6, <3>1 DEF c
  <2>7. CASE main[r] = "connect"
    <3>1. Sent(r) = Sends(r, calls[r]) - 1 /\ Got(r) = Recvs(r, calls[r])
      BY <2>5, <2>7, <1>s DEF Sent, Got
    <3> QED
      BY <1>s, <2>1, <2>2, <2>4, <2>5, <2>7, <3>1 DEF c
  <2>8. CASE ~Awaits(r) /\ main[r] # "connect"
    <3>1. Sent(r) = Sends(r, calls[r]) /\ Got(r) = Recvs(r, calls[r])
      BY <2>8, <1>s DEF Sent, Got
    <3> QED
      BY <1>s, <2>1, <2>2, <2>4, <2>5, <2>8, <3>1 DEF c
  <2> QED
    BY <2>6, <2>7, <2>8
<1> QED
  BY <1>1, <1>2

\* At most one message is on its way to a rank.
LEMMA Window ==
    ASSUME Even, Threads, Exchanging, NEW r \in Rank
    PROVE  Got(r) <= Sent(Partner(r)) /\ Sent(Partner(r)) <= Got(r) + 1
<1> DEFINE p == Partner(r)
<1>1. p \in Rank /\ Partner(p) = r /\ (r < Half <=> ~(p < Half))
  BY Pairs
<1>2. Got(r) <= Sent(p) /\ Got(p) <= Sent(r)
  BY <1>1 DEF Exchanging, DataState
<1>3. /\ Sent(r) \in Int /\ Got(r) \in Int
      /\ r < Half => Sent(r) <= Got(r) + 1
      /\ ~(r < Half) => Sent(r) <= Got(r)
  BY Counts
<1>4. /\ Sent(p) \in Int /\ Got(p) \in Int
      /\ p < Half => Sent(p) <= Got(p) + 1
      /\ ~(p < Half) => Sent(p) <= Got(p)
  BY <1>1, Counts
<1> HIDE DEF p
<1>5. Sent(p) <= Got(r) + 1
  BY <1>1, <1>2, <1>3, <1>4
<1> QED
  BY <1>2, <1>5 DEF p

\* A step of r's threads leaves the other ranks' threads, and every connection
\* but r's and its partner's, as they are.
Elsewhere(r) ==
    /\ UNCHANGED <<barrier, left, glob, lost>>
    /\ \A q \in Rank \ {r} :
         /\ main'[q] = main[q] /\ calls'[q] = calls[q] /\ rcv_flag'[q] = rcv_flag[q]
         /\ rcv_cnt'[q] = rcv_cnt[q] /\ buf'[q] = buf[q] /\ srv'[<<q, 0>>] = srv[<<q, 0>>]
         /\ q \in expired' <=> q \in expired
         /\ q # Partner(r) => conn'[<<q, 0>>] = conn[<<q, 0>>]
    /\ \A q \in Others : conn'[<<0, q>>] = conn[<<0, q>>] /\ srv'[<<0, q>>] = srv[<<0, q>>]
    /\ \/ main'[r] = main[r] /\ calls'[r] = calls[r] /\ expired' = expired
       \/ main'[r] \in {"app", "connect", "write", "post", "recv"}
       \/ main'[r] = "bar_sleep" /\ r \notin expired'

\* Such a step keeps the exchanges going if it keeps the two ranks' data right.
LEMMA ExchangeLocal ==
    ASSUME Even, Exchanging, NEW r \in Rank, Elsewhere(r),
           \A q \in {r, Partner(r)} : DataState(q)'
    PROVE  Exchanging'
<1>1. ASSUME NEW q \in Rank, q \notin {r, Partner(r)} PROVE DataState(q)'
  <2> DEFINE p == Partner(q)
  <2>1. p \in Rank /\ p # r
    BY <1>1, Pairs
  <2>2. /\ main'[p] = main[p] /\ calls'[p] = calls[p]
        /\ main'[q] = main[q] /\ calls'[q] = calls[q] /\ rcv_flag'[q] = rcv_flag[q]
        /\ rcv_cnt'[q] = rcv_cnt[q] /\ buf'[q] = buf[q] /\ srv'[<<q, 0>>] = srv[<<q, 0>>]
        /\ conn'[<<q, 0>>] = conn[<<q, 0>>]
    BY <1>1, <2>1 DEF Elsewhere
  <2>3. Sent(p)' = Sent(p) /\ Got(q)' = Got(q)
    BY <2>2 DEF Sent, Got, Awaits
  <2>4. DataState(q)
    BY DEF Exchanging
  <2> QED
    BY <2>2, <2>3, <2>4 DEF DataState
<1>2. ASSUME NEW q \in Rank
      PROVE  /\ ~barrier'[q] /\ left'[q] = 1
             /\ main'[q] \in {"bar_exit", "app", "connect", "write", "post", "recv", "bar_sleep"}
             /\ main'[q] = "bar_exit" => q \in expired' /\ calls'[q] = 0
             /\ main'[q] = "bar_sleep" => q \notin expired'
  <2>1. /\ ~barrier[q] /\ left[q] = 1
        /\ main[q] \in {"bar_exit", "app", "connect", "write", "post", "recv", "bar_sleep"}
        /\ main[q] = "bar_exit" => q \in expired /\ calls[q] = 0
        /\ main[q] = "bar_sleep" => q \notin expired
    BY DEF Exchanging
  <2>2. barrier' = barrier /\ left' = left
    BY DEF Elsewhere
  <2>3. CASE q # r
    <3>1. /\ main'[q] = main[q] /\ calls'[q] = calls[q]
          /\ q \in expired' <=> q \in expired
      BY <2>3 DEF Elsewhere
    <3> QED
      BY <2>1, <2>2, <3>1
  <2>4. CASE q = r
    <3>1. \/ main'[q] = main[q] /\ calls'[q] = calls[q] /\ expired' = expired
          \/ main'[q] \in {"app", "connect", "write", "post", "recv"}
          \/ main'[q] = "bar_sleep" /\ q \notin expired'
      BY <2>4 DEF Elsewhere
    <3> QED
      BY <2>1, <2>2, <3>1
  <2> QED
    BY <2>3, <2>4
<1> QED
  BY <1>1, <1>2 DEF Exchanging, Elsewhere

\* A step that sends and gets nothing.
LEMMA NothingMoves ==
    ASSUME Even, Exchanging, NEW r \in Rank, Elsewhere(r), UNCHANGED <<conn, buf>>,
           Sent(r)' = Sent(r), Got(r)' = Got(r),
           srv'[<<r, 0>>] \in {"accept", "spin", "test", "data_read", "clear"},
           rcv_flag'[r] => main'[r] = "recv",
           srv'[<<r, 0>>] \in {"test", "data_read", "clear"} => rcv_flag'[r],
           main'[r] \in {"post", "recv"} => rcv_cnt'[r] = Sizes[Exchange(calls'[r] - 1)]
    PROVE  Exchanging'
<1> DEFINE p == Partner(r)
<1>1. p \in Rank /\ p # r /\ Partner(p) = r
  BY Pairs, PartnerFacts
<1>2. DataState(r) /\ DataState(p)
  BY <1>1 DEF Exchanging
<1>3. /\ main'[p] = main[p] /\ calls'[p] = calls[p] /\ rcv_flag'[p] = rcv_flag[p]
      /\ rcv_cnt'[p] = rcv_cnt[p] /\ srv'[<<p, 0>>] = srv[<<p, 0>>]
  BY <1>1 DEF Elsewhere
<1>4. Sent(p)' = Sent(p) /\ Got(p)' = Got(p)
  BY <1>3 DEF Sent, Got, Awaits
<1>5. DataState(r)'
  BY <1>2, <1>4 DEF DataState
<1>6. DataState(p)'
  BY <1>1, <1>2, <1>3, <1>4 DEF DataState
<1> QED
  BY <1>5, <1>6, ExchangeLocal

\* What a rank's threads are doing during the exchanges.
LEMMA ExchangeRank ==
    ASSUME Threads, Exchanging, NEW r \in Rank
    PROVE  /\ ~barrier[r] /\ left[r] = 1
           /\ main[r] \in {"bar_exit", "app", "connect", "write", "post", "recv", "bar_sleep"}
           /\ main[r] = "bar_exit" => calls[r] = 0
           /\ srv[<<r, 0>>] \in {"accept", "spin", "test", "data_read", "clear"}
           /\ rcv_flag[r] => main[r] = "recv"
           /\ srv[<<r, 0>>] \in {"test", "data_read", "clear"} => rcv_flag[r]
           /\ main[r] \in {"post", "recv"} => rcv_cnt[r] = Sizes[Exchange(calls[r] - 1)]
           /\ <<r, 0>> \in Listener /\ <<r, 0>>[1] = r /\ <<r, 0>>[2] = 0
           /\ Partner(r) \in Rank /\ Partner(r) # r
           /\ \A s \in Others : <<0, s>> # <<r, 0>>
           /\ \A q \in Rank \ {r} : <<q, 0>> # <<r, 0>>
           /\ \A q \in Rank : <<q, 0>> \in Listener
           /\ \A q \in Others : <<0, q>> \in Listener
<1>1. /\ <<r, 0>> \in Listener /\ <<r, 0>>[1] = r /\ <<r, 0>>[2] = 0
      /\ \A s \in Others : <<0, s>> # <<r, 0>>
      /\ \A q \in Rank \ {r} : <<q, 0>> # <<r, 0>>
      /\ \A q \in Rank : <<q, 0>> \in Listener
      /\ \A q \in Others : <<0, q>> \in Listener
  BY PortFacts
<1> QED
  BY <1>1, PartnerFacts DEF Exchanging, DataState

\* The types of what the exchanges change.
LEMMA ExchangeTypes ==
    ASSUME Threads
    PROVE  /\ main \in [Rank -> MainPc] /\ calls \in [Rank -> Nat]
           /\ rcv_flag \in [Rank -> BOOLEAN] /\ rcv_cnt \in [Rank -> Nat]
           /\ srv \in [Listener -> SrvPc] /\ conn \in [Listener -> Seq(Message)]
           /\ DOMAIN buf = Rank
  BY MainTypes DEF Threads, TypeOK

\* The main threads' steps between two messages.
LEMMA ExchangeMain ==
    ASSUME Even, Threads, Timing, Exchanging, NEW r \in Rank,
           \/ /\ UNCHANGED calls
              /\ ExitBarrier(r) \/ DataWritten(r) \/ PostRecv(r) \/ RecvReturn(r)
           \/ MPI_Finalize(r)
    PROVE  lost' = lost /\ Exchanging'
<1>t. /\ main \in [Rank -> MainPc] /\ rcv_flag \in [Rank -> BOOLEAN]
  BY ExchangeTypes
<1>r. /\ ~barrier[r] /\ left[r] = 1
      /\ main[r] \in {"bar_exit", "app", "connect", "write", "post", "recv", "bar_sleep"}
      /\ srv[<<r, 0>>] \in {"accept", "spin", "test", "data_read", "clear"}
      /\ rcv_flag[r] => main[r] = "recv"
      /\ srv[<<r, 0>>] \in {"test", "data_read", "clear"} => rcv_flag[r]
      /\ main[r] \in {"post", "recv"} => rcv_cnt[r] = Sizes[Exchange(calls[r] - 1)]
  BY ExchangeRank
<1>1. CASE UNCHANGED calls /\ (ExitBarrier(r) \/ DataWritten(r) \/ RecvReturn(r))
  <2>1. /\ main[r] \in {"bar_exit", "write", "recv"} /\ main' = [main EXCEPT ![r] = "app"]
        /\ main[r] = "recv" => ~rcv_flag[r]
        /\ UNCHANGED <<barrier, left, glob, lost, calls, rcv_flag, rcv_cnt, buf, srv, conn>>
        /\ expired' \in {expired, expired \ {r}}
    BY <1>1 DEF ExitBarrier, DataWritten, RecvReturn, globals, srvVars, timeVars, WakeUp
  <2>2. main'[r] = "app" /\ \A q \in Rank \ {r} : main'[q] = main[q]
    BY <1>t, <2>1
  <2>3. Elsewhere(r)
    BY <2>1, <2>2 DEF Elsewhere
  <2>4. Sent(r)' = Sent(r) /\ Got(r)' = Got(r)
    BY <2>1, <2>2 DEF Sent, Got, Awaits
  <2> QED
    BY <1>r, <2>1, <2>2, <2>3, <2>4, NothingMoves
<1>2. CASE UNCHANGED calls /\ PostRecv(r)
  <2>1. /\ main[r] = "post" /\ main' = [main EXCEPT ![r] = "recv"]
        /\ rcv_flag' = [rcv_flag EXCEPT ![r] = TRUE]
        /\ UNCHANGED <<barrier, left, glob, lost, calls, rcv_cnt, buf, srv, conn, expired>>
    BY <1>2 DEF PostRecv, srvVars, timeVars
  <2>2. /\ main'[r] = "recv" /\ rcv_flag'[r]
        /\ \A q \in Rank \ {r} : main'[q] = main[q] /\ rcv_flag'[q] = rcv_flag[q]
    BY <1>t, <2>1
  <2>3. Elsewhere(r)
    BY <2>1, <2>2 DEF Elsewhere
  <2>4. srv'[<<r, 0>>] \in {"accept", "spin"}
    BY <1>r, <2>1
  <2>5. Sent(r)' = Sent(r) /\ Got(r)' = Got(r)
    BY <2>1, <2>2, <2>4 DEF Sent, Got, Awaits
  <2> QED
    BY <1>r, <2>1, <2>2, <2>3, <2>4, <2>5, NothingMoves
<1>3. CASE MPI_Finalize(r)
  <2>1. /\ main[r] = "app" /\ main' = [main EXCEPT ![r] = "bar_sleep"]
        /\ UNCHANGED <<barrier, left, glob, lost, calls, rcv_flag, rcv_cnt, buf, srv, conn,
                       expired>>
    BY <1>3 DEF MPI_Finalize, StartBarrier, globals, srvVars, timeVars
  <2>2. main'[r] = "bar_sleep" /\ \A q \in Rank \ {r} : main'[q] = main[q]
    BY <1>t, <2>1
  <2>3. r \notin expired'
    BY <2>1 DEF Timing, Sleepers, Asleep
  <2>4. Elsewhere(r)
    BY <2>1, <2>2, <2>3 DEF Elsewhere
  <2>5. Sent(r)' = Sent(r) /\ Got(r)' = Got(r)
    BY <2>1, <2>2 DEF Sent, Got, Awaits
  <2> QED
    BY <1>r, <2>1, <2>2, <2>4, <2>5, NothingMoves
<1> QED
  BY <1>1, <1>2, <1>3

\* A rank begins to send or to receive.
LEMMA ExchangeBegin ==
    ASSUME Even, Threads, Exchanging, NEW r \in Rank, Send(r) \/ Recv(r)
    PROVE  lost' = lost /\ Exchanging'
<1>t. /\ main \in [Rank -> MainPc] /\ rcv_cnt \in [Rank -> Nat] /\ calls \in [Rank -> Nat]
      /\ calls[r] \in Nat
  BY ExchangeTypes
<1>r. /\ srv[<<r, 0>>] \in {"accept", "spin", "test", "data_read", "clear"}
      /\ rcv_flag[r] => main[r] = "recv"
      /\ srv[<<r, 0>>] \in {"test", "data_read", "clear"} => rcv_flag[r]
      /\ Partner(r) # r
  BY ExchangeRank
<1>c. /\ Sends(r, calls[r]) \in Nat /\ Recvs(r, calls[r]) \in Nat
      /\ IsSend(r, calls[r]) => /\ Sends(r, calls[r] + 1) = Sends(r, calls[r]) + 1
                                /\ Recvs(r, calls[r] + 1) = Recvs(r, calls[r])
      /\ ~IsSend(r, calls[r]) => /\ Sends(r, calls[r] + 1) = Sends(r, calls[r])
                                 /\ Recvs(r, calls[r] + 1) = Recvs(r, calls[r]) + 1
      /\ (calls[r] + 1) - 1 = calls[r]
  BY <1>t, CallFacts
<1>w. /\ main[r] = "app" /\ calls' = [calls EXCEPT ![r] = @ + 1]
      /\ UNCHANGED <<barrier, left, glob, lost, rcv_flag, buf, srv, conn, expired>>
  BY DEF Send, Recv, Working, globals, srvVars, timeVars
<1>k. calls'[r] = calls[r] + 1 /\ \A q \in Rank \ {r} : calls'[q] = calls[q]
  BY <1>t, <1>w
<1>a. Sent(r) = Sends(r, calls[r]) /\ Got(r) = Recvs(r, calls[r])
  BY <1>c, <1>w DEF Sent, Got, Awaits
<1>1. CASE Send(r)
  <2>1. /\ IsSend(r, calls[r]) /\ main' = [main EXCEPT ![r] = "connect"] /\ rcv_cnt' = rcv_cnt
    BY <1>1, <1>r DEF Send, MPI_Send, StartClient, globals
  <2>2. main'[r] = "connect" /\ \A q \in Rank \ {r} : main'[q] = main[q]
    BY <1>t, <2>1
  <2>3. Elsewhere(r)
    BY <1>w, <1>k, <2>1, <2>2 DEF Elsewhere
  <2>4. Sent(r)' = Sends(r, calls[r] + 1) - 1 /\ Got(r)' = Recvs(r, calls[r] + 1)
    BY <1>k, <1>c, <2>1, <2>2 DEF Sent, Got, Awaits
  <2>5. Sent(r)' = Sent(r) /\ Got(r)' = Got(r)
    BY <1>a, <1>c, <2>1, <2>4
  <2> QED
    BY <1>r, <1>w, <2>2, <2>3, <2>5, NothingMoves
<1>2. CASE Recv(r)
  <2>1. /\ ~IsSend(r, calls[r]) /\ main' = [main EXCEPT ![r] = "post"]
        /\ rcv_cnt' = [rcv_cnt EXCEPT ![r] = Sizes[Exchange(calls[r])]]
    BY <1>2, <1>r DEF Recv, MPI_Recv
  <2>2. /\ main'[r] = "post" /\ rcv_cnt'[r] = Sizes[Exchange(calls[r])]
        /\ \A q \in Rank \ {r} : main'[q] = main[q] /\ rcv_cnt'[q] = rcv_cnt[q]
    BY <1>t, <2>1
  <2>3. Elsewhere(r)
    BY <1>w, <1>k, <2>2 DEF Elsewhere
  <2>4. Sent(r)' = Sends(r, calls[r] + 1) /\ Got(r)' = Recvs(r, calls[r] + 1) - 1
    BY <1>k, <1>c, <2>1, <2>2 DEF Sent, Got, Awaits
  <2>5. Sent(r)' = Sent(r) /\ Got(r)' = Got(r)
    BY <1>a, <1>c, <2>1, <2>4
  <2>6. rcv_cnt'[r] = Sizes[Exchange(calls'[r] - 1)]
    BY <1>k, <1>c, <2>2
  <2> QED
    BY <1>r, <1>w, <2>2, <2>3, <2>5, <2>6, NothingMoves
<1> QED
  BY <1>1, <1>2

\* The server threads' steps before and after a message is read.
LEMMA ExchangeServer ==
    ASSUME Even, Threads, Exchanging, NEW r \in Rank, UNCHANGED calls,
           \/ Accept(<<r, 0>>) \/ SpinEnd(<<r, 0>>) \/ Test(<<r, 0>>) \/ Clear(<<r, 0>>)
    PROVE  lost' = lost /\ Exchanging'
<1> DEFINE l == <<r, 0>>
<1>t. srv \in [Listener -> SrvPc] /\ rcv_flag \in [Rank -> BOOLEAN]
  BY ExchangeTypes
<1>r. /\ ~barrier[r]
      /\ srv[l] \in {"accept", "spin", "test", "data_read", "clear"}
      /\ rcv_flag[r] => main[r] = "recv"
      /\ srv[l] \in {"test", "data_read", "clear"} => rcv_flag[r]
      /\ main[r] \in {"post", "recv"} => rcv_cnt[r] = Sizes[Exchange(calls[r] - 1)]
      /\ l \in Listener /\ l[1] = r /\ l[2] = 0
      /\ \A s \in Others : <<0, s>> # l
      /\ \A q \in Rank \ {r} : <<q, 0>> # l
      /\ \A q \in Rank : <<q, 0>> \in Listener
      /\ \A q \in Others : <<0, q>> \in Listener
  BY ExchangeRank
<1> HIDE DEF l
<1>1. CASE Accept(l) \/ SpinEnd(l) \/ Test(l)
  <2>1. /\ UNCHANGED <<main, barrier, left, glob, lost, calls, rcv_flag, rcv_cnt, buf, conn,
                       expired>>
        /\ \/ srv[l] = "accept" /\ srv' = [srv EXCEPT ![l] = "spin"]
           \/ srv[l] = "spin" /\ SpinOver(l) /\ srv' = [srv EXCEPT ![l] = "test"]
           \/ srv[l] = "test" /\ srv' = [srv EXCEPT ![l] = "data_read"]
    BY <1>1, <1>r DEF Accept, SpinEnd, Test, mainVars, globals, timeVars
  <2>2. \A m \in Listener : m # l => srv'[m] = srv[m]
    BY <1>t, <2>1
  <2>3. Elsewhere(r)
    BY <1>r, <2>1, <2>2 DEF Elsewhere, l
  <2>4. /\ srv'[l] \in {"spin", "test", "data_read"} /\ srv[l] # "clear"
        /\ srv'[l] \in {"test", "data_read"} => rcv_flag[r]
    BY <1>t, <1>r, <2>1 DEF SpinOver
  <2>5. Sent(r)' = Sent(r) /\ Got(r)' = Got(r)
    BY <2>1, <2>4 DEF Sent, Got, Awaits, l
  <2> QED
    BY <1>r, <2>1, <2>3, <2>4, <2>5, NothingMoves DEF l
<1>2. CASE Clear(l)
  <2>1. /\ UNCHANGED <<main, barrier, left, glob, lost, calls, rcv_cnt, buf, conn, expired>>
        /\ srv[l] = "clear" /\ srv' = [srv EXCEPT ![l] = "accept"]
        /\ rcv_flag' = [rcv_flag EXCEPT ![r] = FALSE]
    BY <1>2, <1>r DEF Clear, mainVars, timeVars
  <2>2. /\ \A m \in Listener : m # l => srv'[m] = srv[m]
        /\ \A q \in Rank \ {r} : rcv_flag'[q] = rcv_flag[q]
        /\ srv'[l] = "accept" /\ ~rcv_flag'[r]
    BY <1>t, <1>r, <2>1
  <2>3. Elsewhere(r)
    BY <1>r, <2>1, <2>2 DEF Elsewhere, l
  <2>5. Sent(r)' = Sent(r) /\ Got(r)' = Got(r)
    BY <2>1, <2>2 DEF Sent, Got, Awaits, l
  <2> QED
    BY <1>r, <2>1, <2>2, <2>3, <2>5, NothingMoves DEF l
<1> QED
  BY <1>1, <1>2 DEF l

\* A message is sent when the one before has been read.
LEMMA ExchangeConnect ==
    ASSUME Even, Threads, Exchanging, NEW r \in Rank, Connect(r), UNCHANGED calls
    PROVE  lost' = lost /\ Exchanging'
<1> DEFINE p == Partner(r)
<1>t. main \in [Rank -> MainPc] /\ conn \in [Listener -> Seq(Message)]
  BY ExchangeTypes
<1>p. p \in Rank /\ p # r /\ Partner(p) = r /\ (r < Half <=> ~(p < Half))
  BY Pairs, PartnerFacts
<1>l. /\ <<p, 0>> \in Listener
      /\ \A s \in Others : <<0, s>> # <<p, 0>> /\ <<0, s>> \in Listener
      /\ \A q \in Rank : q # p => <<q, 0>> # <<p, 0>>
      /\ \A q \in Rank : <<q, 0>> \in Listener
  BY <1>p, PortFacts
<1>r. ~barrier[r] /\ (rcv_flag[r] => main[r] = "recv") /\ main[r] = "connect"
  BY ExchangeRank DEF Connect
<1>c. /\ Exchange(calls[r] - 1) = Sent(r) + 1 /\ Sent(r) \in Int /\ Got(r) \in Int
      /\ r < Half => Got(r) = Sent(r)
      /\ ~(r < Half) => Got(r) = Sent(r) + 1
  BY <1>r, Counts
<1>d. /\ Sent(p) \in Int /\ Got(p) \in Int
      /\ p < Half => Sent(p) <= Got(p) + 1
      /\ ~(p < Half) => Sent(p) <= Got(p)
  BY <1>p, Counts
<1>w. Got(p) <= Sent(r) /\ Sent(r) <= Got(p) + 1 /\ Got(r) <= Sent(p)
  <2>1. Got(p) <= Sent(Partner(p)) /\ Sent(Partner(p)) <= Got(p) + 1
    BY <1>p, Window
  <2>2. Got(r) <= Sent(Partner(r))
    BY Window
  <2> QED
    BY <1>p, <2>1, <2>2
<1>s. DataState(r) /\ DataState(p)
  BY <1>p DEF Exchanging
<1>o. out[r].to = <<p, 0>> /\ out[r].msg = Data(r, Sent(r) + 1)
  <2>1. out[r] = Expected(r)
    BY <1>r DEF Threads, Outgoing, Clienting
  <2> QED
    BY <1>r, <1>c, <2>1 DEF Expected
<1> HIDE DEF p
<1>e. Got(p) = Sent(r)
  BY <1>p, <1>c, <1>d, <1>w
<1>1. /\ main' = [main EXCEPT ![r] = "write"]
      /\ conn' = [conn EXCEPT ![<<p, 0>>] = Append(@, Data(r, Sent(r) + 1))]
      /\ UNCHANGED <<barrier, left, glob, lost, calls, rcv_flag, rcv_cnt, srv, buf, expired>>
  BY <1>o DEF Connect, globals, timeVars
<1>2. /\ main'[r] = "write" /\ \A q \in Rank \ {r} : main'[q] = main[q]
      /\ \A m \in Listener : m # <<p, 0>> => conn'[m] = conn[m]
  BY <1>t, <1>1
<1>3. conn'[<<p, 0>>] = <<Data(r, Sent(r) + 1)>>
  <2>1. conn[<<p, 0>>] = << >>
    BY <1>e, <1>s, <1>p DEF DataState
  <2> QED
    BY <1>t, <1>l, <1>1, <2>1, OneMessage
<1>4. /\ Sent(r)' = Sends(r, calls[r]) /\ Sent(r) = Sends(r, calls[r]) - 1
      /\ Got(r)' = Got(r)
  <2>1. ~Awaits(r) /\ ~Awaits(r)'
    BY <1>r, <1>2 DEF Awaits
  <2>2. Sends(r, calls[r]) \in Nat /\ Recvs(r, calls[r]) \in Nat
    BY ExchangeTypes, CallFacts
  <2> QED
    BY <1>r, <1>1, <1>2, <2>1, <2>2 DEF Sent, Got
<1>5. Sent(p)' = Sent(p) /\ Got(p)' = Got(p)
  BY <1>p, <1>1, <1>2 DEF Sent, Got, Awaits
<1>6. Sent(r)' = Sent(r) + 1 /\ Sent(r)' # Got(p)
  <2>1. Sends(r, calls[r]) \in Nat
    BY ExchangeTypes, CallFacts
  <2> QED
    BY <1>4, <1>e, <2>1
<1>7. DataState(p)'
  BY <1>c, <1>d, <1>e, <1>p, <1>s, <1>1, <1>2, <1>3, <1>5, <1>6 DEF DataState
<1>8. DataState(r)'
  <2>1. conn'[<<r, 0>>] = conn[<<r, 0>>] /\ Partner(r) = p
    BY <1>l, <1>p, <1>2 DEF p
  <2> QED
    BY <1>r, <1>s, <1>1, <1>2, <1>4, <1>5, <2>1 DEF DataState
<1>9. Elsewhere(r)
  BY <1>l, <1>1, <1>2 DEF Elsewhere, p
<1> QED
  BY <1>1, <1>7, <1>8, <1>9, ExchangeLocal DEF p

\* The server thread reads the message that MPI_Recv waits for.
LEMMA ExchangeRead ==
    ASSUME Even, Threads, Exchanging, NEW r \in Rank, DataRead(<<r, 0>>), UNCHANGED calls
    PROVE  lost' = lost /\ Exchanging'
<1> DEFINE p == Partner(r)
           l == <<r, 0>>
           m == Data(p, Got(r) + 1)
<1>t. /\ srv \in [Listener -> SrvPc] /\ conn \in [Listener -> Seq(Message)]
      /\ DOMAIN buf = Rank
  BY ExchangeTypes
<1>p. p \in Rank /\ p # r /\ Partner(p) = r
  BY Pairs, PartnerFacts
<1>l. /\ l \in Listener /\ l[1] = r
      /\ \A s \in Others : <<0, s>> # l /\ <<0, s>> \in Listener
      /\ \A q \in Rank : q # r => <<q, 0>> # l
      /\ \A q \in Rank : <<q, 0>> \in Listener
  BY PortFacts
<1>r. srv[l] = "data_read" /\ rcv_flag[r] /\ main[r] = "recv"
  BY ExchangeRank DEF DataRead
<1>a. Awaits(r) /\ conn[l] # << >>
  BY <1>r, <1>l DEF Awaits, Threads, Serving
<1>c. /\ Exchange(calls[r] - 1) = Got(r) + 1 /\ Sent(r) \in Int /\ Got(r) \in Int
      /\ calls[r] - 1 \in Nat /\ calls[r] - 1 < 2 * Len(Sizes)
  BY <1>r, <1>a, Counts
<1>d. Sent(p) \in Int /\ Got(p) \in Int
  BY <1>p, Counts
<1>w. Got(r) <= Sent(p) /\ Sent(p) <= Got(r) + 1
  BY Window
<1>s. DataState(r) /\ DataState(p)
  BY <1>p DEF Exchanging
<1>m. conn[l] = <<m>> /\ Sent(p) = Got(r) + 1 /\ rcv_cnt[r] = Sizes[Got(r) + 1]
  <2>1. Sent(p) # Got(r)
    BY <1>s, <1>a DEF DataState
  <2> QED
    BY <1>s, <1>c, <1>d, <1>w, <1>r, <2>1 DEF DataState
<1>z. rcv_cnt[r] \in Nat /\ rcv_cnt[r] > 0
  BY <1>c, <1>m, ExchangeRange
<1> HIDE DEF p, l, m
<1>h. /\ Head(conn[l]) = m /\ Tail(conn[l]) = << >>
      /\ m.src = p /\ m.kind = "data" /\ m.n = Got(r) + 1 /\ m.bytes = rcv_cnt[r]
  BY <1>m, OneMessage DEF m, Data
<1>1. /\ conn' = [conn EXCEPT ![l] = << >>]
      /\ srv' = [srv EXCEPT ![l] = "clear"]
      /\ buf' = [buf EXCEPT ![r] = Copied(m, rcv_cnt[r])]
      /\ lost' = lost
      /\ UNCHANGED <<main, barrier, left, glob, calls, rcv_flag, rcv_cnt, expired>>
  <2>1. DataRead(l)
    BY DEF l
  <2>2. ~(m.bytes < rcv_cnt[r]) /\ rcv_cnt[r] # 0
    BY <1>h, <1>z
  <2> QED
    BY <1>h, <1>l, <2>1, <2>2 DEF DataRead, DropHead, mainVars, globals, timeVars
<1>2. /\ conn'[l] = << >> /\ srv'[l] = "clear"
      /\ \A k \in Listener : k # l => conn'[k] = conn[k] /\ srv'[k] = srv[k]
      /\ buf'[r].src = p /\ buf'[r].n = Got(r) + 1
      /\ \A q \in Rank \ {r} : buf'[q] = buf[q]
  <2>1. buf'[r] = Copied(m, rcv_cnt[r]) /\ \A q \in Rank \ {r} : buf'[q] = buf[q]
    BY <1>t, <1>1
  <2> QED
    BY <1>t, <1>l, <1>h, <1>1, <2>1 DEF Copied
<1>3. Got(r)' = Got(r) + 1 /\ Sent(r)' = Sent(r)
  <2>1. ~Awaits(r)'
    BY <1>r, <1>1, <1>2 DEF Awaits, l
  <2>2. Sends(r, calls[r]) \in Nat /\ Recvs(r, calls[r]) \in Nat
    BY ExchangeTypes, CallFacts
  <2> QED
    BY <1>a, <1>r, <1>1, <2>1, <2>2 DEF Sent, Got
<1>4. srv'[<<p, 0>>] = srv[<<p, 0>>] /\ conn'[<<p, 0>>] = conn[<<p, 0>>]
  BY <1>p, <1>l, <1>2
<1>5. Sent(p)' = Sent(p) /\ Got(p)' = Got(p)
  BY <1>1, <1>4 DEF Sent, Got, Awaits
<1>6. DataState(r)'
  <2>1. Partner(r) = p
    BY DEF p
  <2> QED
    BY <1>r, <1>s, <1>c, <1>d, <1>m, <1>1, <1>2, <1>3, <1>5, <2>1 DEF DataState, l
<1>7. DataState(p)'
  BY <1>p, <1>s, <1>1, <1>2, <1>3, <1>4, <1>5 DEF DataState
<1>8. Elsewhere(r)
  BY <1>l, <1>1, <1>2 DEF Elsewhere
<1> QED
  BY <1>1, <1>6, <1>7, <1>8, ExchangeLocal DEF p

\* A rank in its second barrier has sent and got every message.
LEMMA AllExchanged ==
    ASSUME Threads, Exchanging, NEW r \in Rank, main[r] = "bar_sleep"
    PROVE  Sent(r) = Len(Sizes) /\ Got(r) = Len(Sizes)
<1>1. calls[r] = 2 * Len(Sizes) /\ Len(Sizes) \in Nat
  BY ExchangeRank, ZeroRank DEF Threads, Control
<1>2. Sends(r, 2 * Len(Sizes)) = Len(Sizes) /\ Recvs(r, 2 * Len(Sizes)) = Len(Sizes)
  <2>1. /\ (2 * Len(Sizes) + 1) \div 2 = Len(Sizes)
        /\ (2 * Len(Sizes)) \div 2 = Len(Sizes)
    BY <1>1
  <2> QED
    BY <2>1 DEF Sends, Recvs
<1> QED
  BY <1>1, <1>2 DEF Sent, Got, Awaits

\* What an idle rank waits for: its message to be read, its partner's to come,
\* or the end of a second.
LEMMA ExchangeIdle ==
    ASSUME Even, Threads, Exchanging, Quiet, lost = {}, NEW r \in Rank
    PROVE  /\ \/ /\ main[r] = "write"
                 /\ Sent(r) = Got(Partner(r)) + 1 /\ Sent(r) <= Len(Sizes)
                 /\ r < Half => Got(r) = Sent(r) - 1
                 /\ ~(r < Half) => Got(r) = Sent(r)
              \/ /\ main[r] = "recv"
                 /\ Sent(Partner(r)) = Got(r) /\ Got(r) + 1 <= Len(Sizes)
                 /\ r < Half => Sent(r) = Got(r) + 1
                 /\ ~(r < Half) => Sent(r) = Got(r)
              \/ /\ main[r] = "bar_sleep"
                 /\ Sent(r) = Len(Sizes) /\ Got(r) = Len(Sizes)
           /\ srv[<<r, 0>>] \in {"accept", "spin"}
           /\ srv[<<r, 0>>] = "accept" => conn[<<r, 0>>] = << >>
<1> DEFINE p == Partner(r)
<1>p. p \in Rank /\ Partner(p) = r
  BY Pairs
<1>i. MainIdle(r) /\ SrvIdle(<<r, 0>>)
  BY ExchangeRank DEF Quiet
<1>s. DataState(r) /\ DataState(p)
  BY <1>p DEF Exchanging
<1>v. /\ srv[<<r, 0>>] \in {"accept", "spin"}
      /\ srv[<<r, 0>>] = "accept" => conn[<<r, 0>>] = << >>
      /\ srv[<<r, 0>>] = "spin" => ~rcv_flag[r]
  BY <1>i, ExchangeRank DEF SrvIdle, SpinOver
<1>n. Len(Sizes) \in Nat /\ \A c \in Nat : c < 2 * Len(Sizes) => Exchange(c) <= Len(Sizes)
  BY ZeroRank, ExchangeRange
<1>e. main[r] \in {"write", "recv", "bar_sleep"}
  <2>1. /\ main[r] \in {"bar_exit", "app", "connect", "write", "post", "recv", "bar_sleep"}
        /\ main[r] = "bar_exit" => r \in expired
    BY DEF Exchanging
  <2> QED
    BY <1>i, <2>1, IdleFacts
<1>1. CASE main[r] = "write"
  <2>1. conn[<<p, 0>>] # << >>
    <3>1. Unread(r)
      BY <1>1, <1>i, IdleFacts DEF WriteDone
    <3>2. out[r].to = <<p, 0>>
      <4>1. out[r] = Expected(r) /\ ~barrier[r]
        BY <1>1, ExchangeRank DEF Threads, Outgoing, Clienting
      <4> QED
        BY <4>1 DEF Expected
    <3>3. conn[<<p, 0>>] \in Seq(Message)
      BY <1>p, ExchangeRank, ExchangeTypes
    <3>4. Len(conn[<<p, 0>>]) # 0
      BY <3>1, <3>2 DEF Unread
    <3> QED
      BY <3>3, <3>4
  <2>2. Sent(r) # Got(p)
    BY <1>s, <1>p, <2>1 DEF DataState
  <2>3. /\ Exchange(calls[r] - 1) = Sent(r) /\ Sent(r) \in Int /\ Got(r) \in Int
        /\ r < Half => Got(r) = Sent(r) - 1
        /\ ~(r < Half) => Got(r) = Sent(r)
        /\ calls[r] - 1 \in Nat /\ calls[r] - 1 < 2 * Len(Sizes)
    BY <1>1, Counts
  <2>4. Got(p) \in Int /\ Got(p) <= Sent(r) /\ Sent(r) <= Got(p) + 1
    BY <1>p, Counts, Window
  <2>5. Sent(r) = Got(p) + 1
    BY <2>2, <2>3, <2>4
  <2>6. Sent(r) <= Len(Sizes)
    BY <1>n, <2>3
  <2> QED
    BY <1>1, <1>v, <2>3, <2>5, <2>6
<1>2. CASE main[r] = "recv"
  <2>1. rcv_flag[r]
    BY <1>2, <1>i, IdleFacts
  <2>2. srv[<<r, 0>>] = "accept" /\ conn[<<r, 0>>] = << >>
    BY <1>v, <2>1
  <2>3. Awaits(r)
    BY <1>2, <2>1, <2>2 DEF Awaits
  <2>4. Sent(p) = Got(r)
    <3>1. <<Data(p, Got(r) + 1)>> # << >>
      BY OneMessage
    <3> QED
      BY <1>s, <2>2, <3>1 DEF DataState
  <2>5. /\ Exchange(calls[r] - 1) = Got(r) + 1
        /\ r < Half => Sent(r) = Got(r) + 1
        /\ ~(r < Half) => Sent(r) = Got(r)
        /\ calls[r] - 1 \in Nat /\ calls[r] - 1 < 2 * Len(Sizes)
    BY <1>2, <2>3, Counts
  <2>6. Got(r) + 1 <= Len(Sizes)
    BY <1>n, <2>5
  <2> QED
    BY <1>2, <1>v, <2>4, <2>5, <2>6
<1>3. CASE main[r] = "bar_sleep"
  BY <1>3, <1>v, AllExchanged
<1> QED
  BY <1>e, <1>1, <1>2, <1>3

\* Two partners never wait for each other, so a second passes only when both
\* are through with their exchanges.
LEMMA NobodyWaits ==
    ASSUME Even, Threads, Exchanging, Quiet, lost = {}, NEW r \in Rank
    PROVE  main[r] = "bar_sleep"
<1>1. ASSUME NEW u \in Rank, u < Half
      PROVE  main[u] = "bar_sleep" /\ main[Partner(u)] = "bar_sleep"
  <2> DEFINE w == Partner(u)
  <2>1. w \in Rank /\ Partner(w) = u /\ ~(w < Half)
    BY <1>1, Pairs
  <2>2. /\ Sent(u) \in Int /\ Got(u) \in Int /\ Sent(w) \in Int /\ Got(w) \in Int
        /\ Len(Sizes) \in Nat
    BY <2>1, Counts, ZeroRank
  <2>3. \/ /\ main[u] = "write" /\ Sent(u) = Got(w) + 1 /\ Sent(u) <= Len(Sizes)
           /\ Got(u) = Sent(u) - 1
        \/ /\ main[u] = "recv" /\ Sent(w) = Got(u) /\ Got(u) + 1 <= Len(Sizes)
           /\ Sent(u) = Got(u) + 1
        \/ main[u] = "bar_sleep" /\ Sent(u) = Len(Sizes) /\ Got(u) = Len(Sizes)
    BY <1>1, ExchangeIdle
  <2>4. \/ /\ main[w] = "write" /\ Sent(w) = Got(u) + 1 /\ Sent(w) <= Len(Sizes)
           /\ Got(w) = Sent(w)
        \/ /\ main[w] = "recv" /\ Sent(u) = Got(w) /\ Got(w) + 1 <= Len(Sizes)
           /\ Sent(w) = Got(w)
        \/ main[w] = "bar_sleep" /\ Sent(w) = Len(Sizes) /\ Got(w) = Len(Sizes)
    <3>1. \/ /\ main[w] = "write"
             /\ Sent(w) = Got(Partner(w)) + 1 /\ Sent(w) <= Len(Sizes)
             /\ Got(w) = Sent(w)
          \/ /\ main[w] = "recv"
             /\ Sent(Partner(w)) = Got(w) /\ Got(w) + 1 <= Len(Sizes)
             /\ Sent(w) = Got(w)
          \/ main[w] = "bar_sleep" /\ Sent(w) = Len(Sizes) /\ Got(w) = Len(Sizes)
      BY <2>1, ExchangeIdle
    <3> QED
      BY <2>1, <3>1
  <2> HIDE DEF w
  <2> QED
    BY <2>2, <2>3, <2>4 DEF w
<1>2. CASE r < Half
  BY <1>1, <1>2
<1>3. CASE ~(r < Half)
  <2>1. Partner(r) \in Rank /\ Partner(r) < Half /\ Partner(Partner(r)) = r
    BY <1>3, Pairs
  <2> QED
    BY <1>1, <2>1
<1> QED
  BY <1>2, <1>3

\* With the second before the second barrier every rank may enter it.
LEMMA ExchangeTick ==
    ASSUME Even, Threads, Exchanging, lost = {}, Tick, UNCHANGED calls
    PROVE  lost' = lost /\ Second'
<1>q. Quiet
  BY DEF Tick
<1>1. /\ expired' = Sleepers
      /\ UNCHANGED <<main, entered, left, barrier, rcv_flag, glob, srv, conn, lost>>
  BY DEF Tick, mainVars, globals, srvVars
<1>2. \A r \in Rank : main[r] = "bar_sleep"
  BY <1>q, NobodyWaits
<1>3. ASSUME NEW r \in Rank
      PROVE  conn[<<r, 0>>] = << >> /\ srv[<<r, 0>>] = "accept" /\ ~rcv_flag[r] /\ left[r] = 1
  <2>1. Sent(Partner(r)) = Got(r)
    <3>1. Partner(r) \in Rank
      BY Pairs
    <3> QED
      BY <1>2, <3>1, AllExchanged
  <2>2. conn[<<r, 0>>] = << >>
    BY <2>1 DEF Exchanging, DataState
  <2>3. srv[<<r, 0>>] # "spin"
    BY <2>2, ExchangeRank DEF Threads, Serving
  <2> QED
    BY <1>q, <1>2, <2>2, <2>3, ExchangeRank, ExchangeIdle
<1>4. \A r \in Others : /\ conn[<<0, r>>] = << >> /\ srv[<<0, r>>] = "accept"
                        /\ glob[r][0] # 0 /\ glob[0][r] # r /\ r \in Rank
  BY PortFacts DEF Exchanging
<1>5. 0 \in Rank
  BY PortFacts
<1>6. ASSUME NEW r \in Others PROVE ArrivalState(r)'
  BY <1>1, <1>2, <1>4 DEF ArrivalState
<1>7. Collecting'
  BY <1>1, <1>2, <1>3, <1>4, <1>5, <1>6 DEF Collecting
<1>8. \A r \in Rank : r \in expired'
  BY <1>1, <1>2 DEF Sleepers, Asleep
<1> QED
  BY <1>1, <1>2, <1>3, <1>7, <1>8 DEF Second

\* The exchanges go on until every rank is before its second barrier.
LEMMA ExchangingStep ==
    ASSUME Timely, Even, Threads, Timing, Exchanging, lost = {}, [Next]_vars
    PROVE  lost' = lost /\ (Exchanging' \/ Second')
<1>1. CASE UNCHANGED vars
  <2>1. UNCHANGED <<main, left, barrier, rcv_flag, rcv_cnt, glob, buf, srv, conn, lost,
                    expired, calls>>
    BY <1>1, VarsDef
  <2>2. \A r \in Rank : Sent(r)' = Sent(r) /\ Got(r)' = Got(r) /\ Partner(r) \in Rank
    BY <2>1, PartnerFacts DEF Sent, Got, Awaits
  <2>3. \A r \in Rank : DataState(r) => DataState(r)'
    BY <2>1, <2>2 DEF DataState
  <2> QED
    BY <2>1, <2>3 DEF Exchanging
<1>2. ASSUME NEW r \in Rank, UNCHANGED calls,
             \/ ExitBarrier(r) \/ Connect(r) \/ DataWritten(r)
             \/ PostRecv(r) \/ RecvReturn(r)
      PROVE  lost' = lost /\ Exchanging'
  BY <1>2, ExchangeMain, ExchangeConnect
<1>3. ASSUME NEW r \in Rank, UNCHANGED calls,
             \/ Accept(<<r, 0>>) \/ SpinEnd(<<r, 0>>) \/ Test(<<r, 0>>)
             \/ DataRead(<<r, 0>>) \/ Clear(<<r, 0>>)
      PROVE  lost' = lost /\ Exchanging'
  BY <1>3, ExchangeServer, ExchangeRead
<1>4. ASSUME NEW r \in Rank, Send(r) \/ Recv(r) PROVE lost' = lost /\ Exchanging'
  BY <1>4, ExchangeBegin
<1>5. ASSUME NEW r \in Rank, MPI_Finalize(r) PROVE lost' = lost /\ Exchanging'
  BY <1>5, ExchangeMain
<1>6. ASSUME UNCHANGED calls, Tick PROVE lost' = lost /\ Second'
  BY <1>6, ExchangeTick
<1> QED
  BY ExchangeSteps, <1>1, <1>2, <1>3, <1>4, <1>5, <1>6

----------------------------------------------------------------------------
(* Leaving.  *)

\* What may happen after the second barrier.
LEMMA LeaveSteps ==
    ASSUME Threads, Leaving, [Next]_vars
    PROVE
           \/ \E r \in Rank : (ExitBarrier(r) /\ UNCHANGED calls) \/ Exit(r)
           \/ UNCHANGED vars
<1> DEFINE G ==
           \/ \E r \in Rank : (ExitBarrier(r) /\ UNCHANGED calls) \/ Exit(r)
           \/ UNCHANGED vars
<1>z. 0 \in Rank
  BY PortFacts
<1>m. \A q \in Rank : /\ left[q] = 2 /\ main[q] \in {"bar_exit", "app", "exited"}
                      /\ main[q] = "bar_exit" => q \in expired
  BY DEF Leaving
<1>l. \A l \in Listener : conn[l] = << >> /\ srv[l] \in {"accept", "closed"}
  BY DEF Leaving
<1>k. ~Tick
  <2> SUFFICES ASSUME Tick PROVE FALSE
    OBVIOUS
  <2>1. \A q \in Rank : main[q] = "exited"
    <3>1. ASSUME NEW q \in Rank PROVE main[q] = "exited"
      <4>1. MainIdle(q)
        BY DEF Tick, Quiet
      <4> QED
        BY <1>m, <4>1, IdleFacts
    <3> QED
      BY <3>1
  <2> QED
    BY <2>1 DEF Tick, Sleepers, Asleep, AllUp
<1>1. ASSUME NEW q \in Rank, Launch(q), UNCHANGED calls PROVE G
  BY <1>1, <1>m, <1>z DEF Launch
<1>2. ASSUME NEW q \in Rank, InitWake(q), UNCHANGED calls PROVE G
  BY <1>2, <1>m, <1>z DEF InitWake
<1>3. ASSUME NEW q \in Rank, EnterBarrier(q), UNCHANGED calls PROVE G
  BY <1>3, <1>m, <1>z DEF EnterBarrier
<1>4. ASSUME NEW q \in Rank, Connect(q), UNCHANGED calls PROVE G
  BY <1>4, <1>m, <1>z DEF Connect
<1>5. ASSUME NEW q \in Rank, Refused(q), UNCHANGED calls PROVE G
  BY <1>5, <1>m, <1>z DEF Refused
<1>6. ASSUME NEW q \in Rank, Retry(q), UNCHANGED calls PROVE G
  BY <1>6, <1>m, <1>z DEF Retry
<1>7. ASSUME NEW q \in Rank, GiveUp(q), UNCHANGED calls PROVE G
  BY <1>7, <1>m, <1>z DEF GiveUp
<1>8. ASSUME NEW q \in Rank, ArrivalWritten(q), UNCHANGED calls PROVE G
  BY <1>8, <1>m, <1>z DEF ArrivalWritten
<1>9. ASSUME NEW q \in Rank, AckSeen(q), UNCHANGED calls PROVE G
  BY <1>9, <1>m, <1>z DEF AckSeen
<1>10. ASSUME NEW q \in Rank, Reset(q), UNCHANGED calls PROVE G
  BY <1>10, <1>m, <1>z DEF Reset
<1>11. ASSUME NEW q \in Rank, Lower(q), UNCHANGED calls PROVE G
  BY <1>11, <1>m, <1>z DEF Lower
<1>12. ASSUME NEW q \in Rank, ExitBarrier(q), UNCHANGED calls PROVE G
  BY <1>12
<1>13. ASSUME NEW q \in Rank, DataWritten(q), UNCHANGED calls PROVE G
  BY <1>13, <1>m, <1>z DEF DataWritten
<1>14. ASSUME NEW q \in Rank, PostRecv(q), UNCHANGED calls PROVE G
  BY <1>14, <1>m, <1>z DEF PostRecv
<1>15. ASSUME NEW q \in Rank, RecvReturn(q), UNCHANGED calls PROVE G
  BY <1>15, <1>m, <1>z DEF RecvReturn
<1>16. ASSUME NEW q \in Rank, Send(q) PROVE G
  BY <1>16, <1>m DEF Send, Working
<1>17. ASSUME NEW q \in Rank, Recv(q) PROVE G
  BY <1>17, <1>m DEF Recv, Working
<1>18. ASSUME NEW q \in Rank, MPI_Finalize(q) PROVE G
  BY <1>18, <1>m, <1>z DEF MPI_Finalize
<1>19. ASSUME NEW q \in Rank, Exit(q) PROVE G
  BY <1>19
<1>20. ASSUME WaitArrival, UNCHANGED calls PROVE G
  BY <1>20, <1>m, <1>z DEF WaitArrival
<1>21. ASSUME AckWritten, UNCHANGED calls PROVE G
  BY <1>21, <1>m, <1>z DEF AckWritten
<1>22. ASSUME Tick, UNCHANGED calls PROVE G
  BY <1>22, <1>k DEF Tick
<1>23. ASSUME NEW l \in Listener, Bind(l), UNCHANGED calls PROVE G
  BY <1>23, <1>l DEF Bind
<1>24. ASSUME NEW l \in Listener, Accept(l), UNCHANGED calls PROVE G
  BY <1>24, <1>l DEF Accept
<1>25. ASSUME NEW l \in Listener, SpinEnd(l), UNCHANGED calls PROVE G
  BY <1>25, <1>l DEF SpinEnd
<1>26. ASSUME NEW l \in Listener, Test(l), UNCHANGED calls PROVE G
  BY <1>26, <1>l DEF Test
<1>27. ASSUME NEW l \in Listener, BarrierRead(l), UNCHANGED calls PROVE G
  BY <1>27, <1>l DEF BarrierRead
<1>28. ASSUME NEW l \in Listener, DataRead(l), UNCHANGED calls PROVE G
  BY <1>28, <1>l DEF DataRead
<1>29. ASSUME NEW l \in Listener, Clear(l), UNCHANGED calls PROVE G
  BY <1>29, <1>l DEF Clear
<1>30. CASE UNCHANGED vars
  BY <1>30
<1> QED
  BY Steps, <1>1, <1>2, <1>3, <1>4, <1>5, <1>6, <1>7, <1>8, <1>9, <1>10, <1>11,
     <1>12, <1>13, <1>14, <1>15, <1>16, <1>17, <1>18, <1>19, <1>20, <1>21, <1>22,
     <1>23, <1>24, <1>25, <1>26, <1>27, <1>28, <1>29, <1>30

\* The processes end one by one.
LEMMA LeavingStep ==
    ASSUME Threads, Leaving, [Next]_vars
    PROVE  lost' = lost /\ Leaving'
<1>t. main \in [Rank -> MainPc]
  BY MainTypes DEF Threads
<1>1. CASE UNCHANGED vars
  <2>1. UNCHANGED <<main, left, conn, srv, expired, lost>>
    BY <1>1, VarsDef
  <2> QED
    BY <2>1 DEF Leaving
<1>2. ASSUME NEW r \in Rank, ExitBarrier(r) PROVE lost' = lost /\ Leaving'
  <2>1. /\ main' = [main EXCEPT ![r] = "app"] /\ expired' = expired \ {r}
        /\ UNCHANGED <<left, conn, srv, lost>>
    BY <1>2 DEF ExitBarrier, WakeUp, srvVars
  <2>2. main'[r] = "app" /\ \A q \in Rank \ {r} : main'[q] = main[q]
    BY <1>t, <2>1
  <2> QED
    BY <2>1, <2>2 DEF Leaving
<1>3. ASSUME NEW r \in Rank, Exit(r) PROVE lost' = lost /\ Leaving'
  <2>1. /\ main' = [main EXCEPT ![r] = "exited"]
        /\ \A l \in Listener : /\ srv'[l] \in {srv[l], "closed"}
                              /\ conn'[l] \in {conn[l], << >>}
        /\ UNCHANGED <<left, lost, expired>>
    BY <1>3 DEF Exit, Terminate, timeVars
  <2>2. main'[r] = "exited" /\ \A q \in Rank \ {r} : main'[q] = main[q]
    BY <1>t, <2>1
  <2>3. \A q \in Rank : /\ left'[q] = 2 /\ main'[q] \in {"bar_exit", "app", "exited"}
                        /\ main'[q] = "bar_exit" => q \in expired'
    BY <2>1, <2>2 DEF Leaving
  <2>4. \A l \in Listener : conn'[l] = << >> /\ srv'[l] \in {"accept", "closed"}
    BY <2>1 DEF Leaving
  <2> QED
    BY <2>1, <2>3, <2>4 DEF Leaving
<1> QED
  BY LeaveSteps, <1>1, <1>2, <1>3

----------------------------------------------------------------------------
(* The phases in turn.  *)

\* The invariant of the benchmark with sleeps that suffice.
TimelyInv == IndInv /\ Timing /\ Ports /\ Phases

\* Rank 0 does not come out of fewer barriers than it has come out of.
LEMMA LeftGrows ==
    ASSUME Threads, [Next]_vars
    PROVE  left'[0] \in Nat /\ left'[0] >= left[0]
<1>t. left \in [Rank -> Nat] /\ 0 \in Rank
  BY MainTypes, ZeroRank DEF Threads
<1>1. left' = left \/ \E r \in Rank : left' = [left EXCEPT ![r] = @ + 1]
  BY OnlyBarrier DEF EnterBarrier, Lower
<1> QED
  BY <1>t, <1>1

\* The first barrier is collected from the start.
LEMMA PhasesInit == Init => Timing /\ Ports /\ Phases
<1> SUFFICES ASSUME Init PROVE Timing /\ Ports /\ Phases
  OBVIOUS
<1>1. /\ main = [r \in Rank |-> "down"] /\ expired = {} /\ lost = {}
      /\ srv = [l \in Listener |-> "none"] /\ conn = [l \in Listener |-> << >>]
      /\ rcv_flag = [r \in Rank |-> FALSE] /\ left = [r \in Rank |-> 0]
      /\ glob = [r \in Rank |-> [s \in Rank |-> -1]]
  BY DEF Init, LibInit
<1>2. /\ 0 \in Rank /\ \A l \in Listener : l[1] \in Rank
      /\ \A r \in Rank : <<r, 0>> \in Listener
      /\ \A r \in Others : r \in Rank /\ r # 0 /\ r \in Nat /\ <<0, r>> \in Listener
  BY PortFacts, ListenerFacts
<1>3. Timing
  BY <1>1 DEF Timing
<1>4. Ports
  BY <1>1, <1>2 DEF Ports, PortOf, Ended
<1>5. ASSUME NEW r \in Others PROVE ArrivalState(r)
  <2>1. glob[0][r] = -1 /\ glob[r][0] = -1
    BY <1>1, <1>2
  <2> QED
    BY <1>1, <1>2, <2>1 DEF ArrivalState
<1>6. Forming
  BY <1>1, <1>2, <1>5 DEF Forming, Collecting
<1> QED
  BY <1>1, <1>3, <1>4, <1>6 DEF Phases

\* A phase goes on or gives way to the next.
LEMMA PhasesStep ==
    ASSUME Timely, BarrierSize <= SockBuf, Threads, Recorded, Timing, Ports, Phases,
           [Next]_vars
    PROVE  Phases'
<1>g. left'[0] \in Nat /\ left'[0] >= left[0] /\ left[0] \in Nat
  BY LeftGrows, MainTypes, ZeroRank DEF Threads
<1>1. CASE lost = {} /\ Forming
  BY <1>1, FormingStep DEF Phases
<1>2. CASE lost = {} /\ Closing
  BY <1>2, ClosingStep DEF Phases
<1>3. CASE left[0] >= 1 /\ (Even => lost = {} /\ (Exchanging \/ Second \/ Leaving))
  <2>1. left'[0] >= 1
    BY <1>3, <1>g
  <2>2. ASSUME Even PROVE lost' = {} /\ (Exchanging' \/ Second' \/ Leaving' \/ Closing')
    <3>1. CASE Exchanging
      BY <1>3, <2>2, <3>1, ExchangingStep
    <3>2. CASE Second
      BY <1>3, <2>2, <3>2, SecondStep
    <3>3. CASE Leaving
      BY <1>3, <2>2, <3>3, LeavingStep
    <3> QED
      BY <1>3, <2>2, <3>1, <3>2, <3>3
  <2>3. Even' <=> Even
    BY DEF Even
  <2> QED
    BY <2>1, <2>2, <2>3 DEF Phases
<1> QED
  BY <1>1, <1>2, <1>3 DEF Phases

\* When a second outlasts every burst of steps and a barrier message fits the
\* socket buffers, the benchmark is always in one of its phases.
THEOREM TimelyInductive ==
    ASSUME Timely, BarrierSize <= SockBuf
    PROVE  Spec => []TimelyInv
<1>1. Init => TimelyInv
  BY IndInvInit, PhasesInit DEF TimelyInv
<1>2. TimelyInv /\ [Next]_vars => TimelyInv'
  <2> SUFFICES ASSUME TimelyInv, [Next]_vars PROVE TimelyInv'
    OBVIOUS
  <2>1. Threads /\ Recorded
    BY DEF TimelyInv, IndInv, Threads
  <2>2. IndInv'
    BY IndInvStep DEF TimelyInv
  <2>3. Timing' /\ Ports' /\ Phases'
    BY <2>1, TimingStep, PortsStep, PhasesStep DEF TimelyInv
  <2> QED
    BY <2>2, <2>3 DEF TimelyInv
<1> QED
  BY <1>1, <1>2, PTL DEF Spec

\* Rank 0 clears buff_glob_0 (lines 436-439) when every rank is in the same
\* barrier: no arrival of the next one is wiped, for any number of ranks.
THEOREM NoArrivalIsEarly ==
    ASSUME Timely, BarrierSize <= SockBuf
    PROVE  Spec => []NoEarlyArrival
<1>1. TimelyInv => NoEarlyArrival
  <2> SUFFICES ASSUME TimelyInv, main[0] = "reset", NEW r \in Rank
               PROVE  entered[r] = entered[0]
    BY DEF NoEarlyArrival
  <2>1. Threads /\ Arrivals /\ Recorded /\ 0 \in Rank /\ 1 \in Others
    BY ZeroRank, OthersFacts DEF TimelyInv, IndInv, Threads
  <2>2. CASE Forming \/ Second
    BY <2>2 DEF Forming, Second, Collecting
  <2>3. CASE Closing
    BY <2>3 DEF Closing
  <2>4. CASE left[0] >= 1
    <3>1. barrier[0]
      BY <2>1 DEF Threads, Control
    <3>2. /\ entered[0] = left[0] + 1 /\ entered[0] \in Nat /\ left[0] \in Nat
          /\ entered[r] <= 2 /\ entered[r] \in Nat /\ entered[0] <= 2
      BY <2>1, <3>1, BarrierCount
    <3>3. AckSent(1) <= entered[r] /\ AckSent(1) = entered[0]
      BY <2>1, AckBound DEF AckSent
    <3> QED
      BY <2>4, <3>2, <3>3
  <2> QED
    BY <2>2, <2>3, <2>4 DEF TimelyInv, Phases
<1> QED
  BY <1>1, TimelyInductive, PTL

\* Between the barriers and in them no message is read by the wrong branch of
\* server_1 (lines 190-311).
THEOREM NoMessageIsLost ==
    ASSUME Timely, BarrierSize <= SockBuf, Even
    PROVE  Spec => []NothingLost
<1>1. TimelyInv => NothingLost
  BY DEF TimelyInv, Phases, NothingLost
<1> QED
  BY <1>1, TimelyInductive, PTL

\* After each MPI_Recv (lines 479-503) the buffer holds the message of this
\* exchange from this partner.
THEOREM MessagesAreRight ==
    ASSUME Timely, BarrierSize <= SockBuf, Even
    PROVE  Spec => []RightMessage
<1>1. TimelyInv => RightMessage
  <2> SUFFICES ASSUME TimelyInv, NEW r \in Rank, main[r] = "app", left[r] = 1, calls[r] > 0,
                      ~IsSend(r, calls[r] - 1)
               PROVE  buf[r].src = Partner(r) /\ buf[r].n = Exchange(calls[r] - 1)
    BY DEF RightMessage
  <2>1. Threads /\ 0 \in Rank /\ (r = 0 \/ r \in Others)
    BY ZeroRank DEF TimelyInv, IndInv, Threads, Others
  <2>2. ~Forming /\ ~Second
    BY <2>1 DEF Forming, Second, Collecting
  <2>3. ~Closing
    BY <2>1 DEF Closing, AckState
  <2>4. ~Leaving
    BY DEF Leaving
  <2>5. Exchanging
    BY <2>2, <2>3, <2>4 DEF TimelyInv, Phases
  <2>6. Exchange(calls[r] - 1) = Recvs(r, calls[r]) /\ Recvs(r, calls[r]) \in Nat
    <3>1. calls[r] - 1 \in Nat /\ calls[r] = (calls[r] - 1) + 1 /\ calls[r] \in Nat
      BY <2>1, ExchangeTypes
    <3> QED
      BY <3>1, CallFacts
  <2>7. Exchange(calls[r] - 1) > 0
    BY <2>1, ExchangeTypes, DivFacts DEF Exchange
  <2>8. Got(r) = Exchange(calls[r] - 1)
    BY <2>6 DEF Got, Awaits
  <2> QED
    BY <2>5, <2>7, <2>8 DEF Exchanging, DataState
<1> QED
  BY <1>1, TimelyInductive, PTL

\* No server thread is left in a read loop at the end of a short message
\* (lines 206-216, 245-254 and 289-302).
THEOREM NoServerIsStuck ==
    ASSUME Timely, BarrierSize <= SockBuf, Even
    PROVE  Spec => []NoServerStuck
<1>1. TimelyInv => NoServerStuck
  <2> SUFFICES ASSUME TimelyInv, NEW l \in Listener PROVE srv[l] # "stuck"
    BY DEF NoServerStuck
  <2>1. CASE l[1] \in Rank /\ l = <<l[1], 0>>
    <3> DEFINE r == l[1]
    <3>1. r = 0 \/ r \in Others
      BY <2>1 DEF Others
    <3>2. CASE Forming \/ Second
      BY <2>1, <3>2 DEF Forming, Second, Collecting
    <3>3. CASE Closing
      BY <2>1, <3>1, <3>3 DEF Closing
    <3>4. CASE Exchanging
      BY <2>1, <3>4 DEF Exchanging, DataState
    <3>5. CASE Leaving
      BY <3>5 DEF Leaving
    <3> QED
      BY <3>2, <3>3, <3>4, <3>5 DEF TimelyInv, Phases
  <2>2. CASE l[2] \in Others /\ l = <<0, l[2]>>
    <3>2. CASE Forming \/ Second
      BY <2>2, <3>2 DEF Forming, Second, Collecting, ArrivalState
    <3>3. CASE Closing
      BY <2>2, <3>3 DEF Closing
    <3>4. CASE Exchanging
      BY <2>2, <3>4 DEF Exchanging
    <3>5. CASE Leaving
      BY <3>5 DEF Leaving
    <3> QED
      BY <3>2, <3>3, <3>4, <3>5 DEF TimelyInv, Phases
  <2> QED
    BY <2>1, <2>2, PortFacts
<1> QED
  BY <1>1, TimelyInductive, PTL
============================================================================
