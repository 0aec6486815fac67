---------------------------- MODULE MyRttBarrier ----------------------------
(***************************************************************************)
(* MPI_Barrier of my_mpi.c under my_rtt.c keeps the ranks in step, for     *)
(* every number of ranks, every list of message sizes and every            *)
(* scheduling.  First the types of the variables, what is true of each     *)
(* thread on its own, and what one step may change; then each conjunct of  *)
(* the inductive invariant of MyRttInv survives a step of any thread, and  *)
(* the abstract barrier follows from it.                                   *)
(***************************************************************************)
EXTENDS MyRttInv, TLAPS

----------------------------------------------------------------------------
(* Arithmetic and sequences.  *)

\* Half splits the ranks in my_rtt.c (lines 32-41).
LEMMA HalfRank ==
    Half \in Nat /\ Half >= 1 /\ Half < NumProc /\ 2 * Half <= NumProc
  BY NumProcAssumption DEF Half

\* The remainder of a division by d is below d.
LEMMA ModRange == \A r \in Nat, d \in Nat \ {0} : r % d \in 0 .. d - 1
  OBVIOUS

\* Every rank has a partner other than itself, and only rank 0 has rank Half.
LEMMA PartnerFacts ==
    ASSUME NEW r \in Rank
    PROVE  /\ Partner(r) \in Rank
           /\ Partner(r) # r
           /\ Partner(r) = Half <=> r = 0
  BY HalfRank, NumProcAssumption, ModRange DEF Partner, Rank

\* Halving a call number (Exchange counts the pairs of calls).
LEMMA DivFacts ==
    \A c \in Nat : /\ c \div 2 \in Nat
                   /\ c % 2 = 0 => c = 2 * (c \div 2)
                   /\ c % 2 # 0 => c = 2 * (c \div 2) + 1
  OBVIOUS

\* A call of the driver belongs to one of the exchanges.
LEMMA ExchangeRange ==
    ASSUME NEW c \in Nat, c < 2 * Len(Sizes)
    PROVE  Exchange(c) \in 1 .. Len(Sizes) /\ Sizes[Exchange(c)] \in Nat \ {0}
<1>1. Len(Sizes) \in Nat
  BY SizesAssumption
<1>2. Exchange(c) \in 1 .. Len(Sizes)
  BY <1>1, DivFacts DEF Exchange
<1> QED
  BY <1>2, SizesAssumption

\* The tail of a sequence is the sequence shifted by one.
LEMMA TailFacts ==
    ASSUME NEW S, NEW s \in Seq(S), s # << >>
    PROVE  /\ Head(s) = s[1] /\ Head(s) \in S
           /\ Tail(s) \in Seq(S)
           /\ Len(Tail(s)) = Len(s) - 1
           /\ \A k \in 1 .. Len(Tail(s)) : Tail(s)[k] = s[k + 1] /\ k + 1 \in 1 .. Len(s)
  OBVIOUS

\* Appending leaves the earlier elements where they are.
LEMMA AppendFacts ==
    ASSUME NEW S, NEW s \in Seq(S), NEW m \in S
    PROVE  /\ Append(s, m) \in Seq(S)
           /\ Len(Append(s, m)) = Len(s) + 1
           /\ Append(s, m)[Len(s) + 1] = m
           /\ \A k \in 1 .. Len(s) : Append(s, m)[k] = s[k]
  OBVIOUS

\* Rank 0 exists and is not one of the others.
LEMMA ZeroRank ==
    0 \in Rank /\ (\A r \in Others : r \in Rank /\ r # 0) /\ Len(Sizes) \in Nat
  BY NumProcAssumption, SizesAssumption DEF Rank, Others

\* The loops of rank 0 run over 1 .. NumProc - 1.
LEMMA OthersFacts ==
    /\ 1 \in Others
    /\ \A k \in Others : k < NumProc - 1 => k + 1 \in Others
    /\ \A k \in Others : ~(k < NumProc - 1) => k = NumProc - 1
  BY NumProcAssumption DEF Rank, Others

\* The ports of the ranks.
LEMMA ListenerFacts ==
    /\ \A r \in Rank : <<r, 0>> \in Listener
    /\ \A r \in Others : <<0, r>> \in Listener
    /\ \A l \in Listener : l[1] \in Rank /\ l[2] \in Rank /\ l = <<l[1], l[2]>>
  BY ZeroRank DEF Listener

\* What the barrier sends is a message.
LEMMA BarrierMsgType ==
    ASSUME NEW r \in Rank, NEW k \in Nat
    PROVE  BarrierMsg(r, k) \in Message
  BY DEF BarrierMsg, Message, BarrierSize, IntSize

\* What the driver sends is a message.
LEMMA DataType ==
    ASSUME NEW r \in Rank, NEW k \in 1 .. Len(Sizes)
    PROVE  Data(r, k) \in Message
<1>1. k \in Nat /\ Sizes[k] \in Nat
  BY SizesAssumption
<1> QED
  BY <1>1 DEF Data, Message

----------------------------------------------------------------------------
(* The part of the invariant about each thread on its own.  *)

Threads == TypeOK /\ Control /\ Outgoing /\ Serving

\* The variables as one tuple of variables.
LEMMA VarsDef ==
    ASSUME UNCHANGED vars
    PROVE  UNCHANGED <<main, i, ctr, out, entered, left, barrier, rcv_flag, rcv_cnt,
                       glob, buf, srv, conn, lost, expired, clock, calls>>
  BY DEF vars, libVars, mainVars, globals, srvVars, timeVars

\* Every step is one of these.
LEMMA Steps ==
    ASSUME [Next]_vars
    PROVE  \/ \E r \in Rank :
                \/ UNCHANGED calls /\ \/ Launch(r) \/ InitWake(r) \/ EnterBarrier(r)
                                      \/ Connect(r) \/ Refused(r) \/ Retry(r) \/ GiveUp(r)
                                      \/ ArrivalWritten(r) \/ AckSeen(r) \/ Reset(r)
                                      \/ Lower(r) \/ ExitBarrier(r) \/ DataWritten(r)
                                      \/ PostRecv(r) \/ RecvReturn(r)
                \/ Send(r) \/ Recv(r) \/ MPI_Finalize(r) \/ Exit(r)
           \/ UNCHANGED calls /\ (WaitArrival \/ AckWritten \/ Tick)
           \/ UNCHANGED calls /\ \E l \in Listener :
                \/ Bind(l) \/ Accept(l) \/ SpinEnd(l) \/ Test(l)
                \/ BarrierRead(l) \/ DataRead(l) \/ Clear(l)
           \/ UNCHANGED vars
  BY DEF Next, LibNext, MainStep, SrvStep, DriverStep

\* Where the main threads are and what they have counted stays consistent.
LEMMA ControlStep == Threads /\ [Next]_vars => Control'
<1> SUFFICES ASSUME Threads, [Next]_vars PROVE Control'
  OBVIOUS
<1> USE DEF Threads, TypeOK, Control, mainVars, globals, srvVars, timeVars,
            Clienting, StartClient
<1>1. ASSUME NEW r \in Rank, Launch(r), UNCHANGED calls PROVE Control'
  <2>1. CASE r = 0
    BY <1>1, <2>1, SMTT(60) DEF Launch, StartBarrier, SpawnServers
  <2>2. CASE ~(r = 0)
    BY <1>1, <2>2, SMTT(60) DEF Launch
  <2> QED
    BY <2>1, <2>2
<1>2. ASSUME NEW r \in Rank, InitWake(r), UNCHANGED calls PROVE Control'
  BY <1>2 DEF InitWake, StartBarrier, SpawnServers, WakeUp
<1>3. ASSUME NEW r \in Rank, EnterBarrier(r), UNCHANGED calls PROVE Control'
  <2>1. CASE r = 0
    BY <1>3, <2>1, SMTT(60) DEF EnterBarrier, WakeUp
  <2>2. CASE ~(r = 0)
    BY <1>3, <2>2, SMTT(60) DEF EnterBarrier, WakeUp, MaxTries
  <2> QED
    BY <2>1, <2>2
<1>4. ASSUME NEW r \in Rank, Connect(r), UNCHANGED calls PROVE Control'
  BY <1>4 DEF Connect
<1>5. ASSUME NEW r \in Rank, Refused(r), UNCHANGED calls PROVE Control'
  BY <1>5 DEF Refused
<1>6. ASSUME NEW r \in Rank, Retry(r), UNCHANGED calls PROVE Control'
  BY <1>6 DEF Retry, WakeUp
<1>7. ASSUME NEW r \in Rank, GiveUp(r), UNCHANGED calls PROVE Control'
  BY <1>7 DEF GiveUp, WakeUp, Terminate
<1>8. ASSUME NEW r \in Rank, ArrivalWritten(r), UNCHANGED calls PROVE Control'
  BY <1>8 DEF ArrivalWritten
<1>9. ASSUME NEW r \in Rank, AckSeen(r), UNCHANGED calls PROVE Control'
  BY <1>9 DEF AckSeen
<1>10. ASSUME NEW r \in Rank, Reset(r), UNCHANGED calls PROVE Control'
  BY <1>10 DEF Reset
<1>11. ASSUME NEW r \in Rank, Lower(r), UNCHANGED calls PROVE Control'
  BY <1>11 DEF Lower
<1>12. ASSUME NEW r \in Rank, ExitBarrier(r), UNCHANGED calls PROVE Control'
  BY <1>12 DEF ExitBarrier, WakeUp
<1>13. ASSUME NEW r \in Rank, DataWritten(r), UNCHANGED calls PROVE Control'
  BY <1>13 DEF DataWritten
<1>14. ASSUME NEW r \in Rank, PostRecv(r), UNCHANGED calls PROVE Control'
  BY <1>14 DEF PostRecv
<1>15. ASSUME NEW r \in Rank, RecvReturn(r), UNCHANGED calls PROVE Control'
  BY <1>15 DEF RecvReturn
<1>16. ASSUME NEW r \in Rank, Send(r) PROVE Control'
  <2>1. calls'[r] - 1 = calls[r]
    BY <1>16 DEF Send
  <2>2. Partner(r) # r
    BY PartnerFacts
  <2> QED
    BY <1>16, <2>1, <2>2, SMTT(60) DEF Send, Working, MPI_Send, MaxTries
<1>17. ASSUME NEW r \in Rank, Recv(r) PROVE Control'
  <2>1. calls'[r] - 1 = calls[r]
    BY <1>17 DEF Recv
  <2>2. Partner(r) # r
    BY PartnerFacts
  <2> QED
    BY <1>17, <2>1, <2>2, SMTT(60) DEF Recv, Working, MPI_Recv
<1>18. ASSUME NEW r \in Rank, MPI_Finalize(r) PROVE Control'
  BY <1>18 DEF MPI_Finalize, StartBarrier
<1>19. ASSUME NEW r \in Rank, Exit(r) PROVE Control'
  BY <1>19 DEF Exit, Terminate
<1>20. ASSUME WaitArrival, UNCHANGED calls PROVE Control'
  <2>1. CASE i < NumProc - 1
    BY <1>20, <2>1, SMT DEF WaitArrival
  <2>2. CASE ~(i < NumProc - 1)
    BY <1>20, <2>2, SMTT(60) DEF WaitArrival, SendAck, MaxTries
  <2> QED
    BY <2>1, <2>2
<1>21. ASSUME AckWritten, UNCHANGED calls PROVE Control'
  <2>1. CASE i < NumProc - 1
    BY <1>21, <2>1, SMTT(60) DEF AckWritten, SendAck, MaxTries
  <2>2. CASE ~(i < NumProc - 1)
    BY <1>21, <2>2, SMTT(60) DEF AckWritten
  <2> QED
    BY <2>1, <2>2
<1>22. ASSUME Tick, UNCHANGED calls PROVE Control'
  BY <1>22 DEF Tick
<1>23. ASSUME NEW l \in Listener, Bind(l), UNCHANGED calls PROVE Control'
  BY <1>23 DEF Bind
<1>24. ASSUME NEW l \in Listener, Accept(l), UNCHANGED calls PROVE Control'
  BY <1>24 DEF Accept
<1>25. ASSUME NEW l \in Listener, SpinEnd(l), UNCHANGED calls PROVE Control'
  BY <1>25 DEF SpinEnd
<1>26. ASSUME NEW l \in Listener, Test(l), UNCHANGED calls PROVE Control'
  BY <1>26 DEF Test, DropHead
<1>27. ASSUME NEW l \in Listener, BarrierRead(l), UNCHANGED calls PROVE Control'
  BY <1>27 DEF BarrierRead, DropHead
<1>28. ASSUME NEW l \in Listener, DataRead(l), UNCHANGED calls PROVE Control'
  BY <1>28 DEF DataRead, DropHead
<1>29. ASSUME NEW l \in Listener, Clear(l), UNCHANGED calls PROVE Control'
  BY <1>29 DEF Clear
<1>30. CASE UNCHANGED vars
  BY <1>30, VarsDef
<1>31. QED
  BY Steps, <1>1, <1>2, <1>3, <1>4, <1>5, <1>6, <1>7, <1>8, <1>9, <1>10,
     <1>11, <1>12, <1>13, <1>14, <1>15, <1>16, <1>17, <1>18, <1>19, <1>20,
     <1>21, <1>22, <1>23, <1>24, <1>25, <1>26, <1>27, <1>28, <1>29, <1>30

\* A step that starts no client() and leaves the running ones alone keeps Outgoing.
LEMMA OutgoingKept ==
    ASSUME Outgoing,
           \A q \in Rank : main'[q] \in Clienting =>
               /\ main[q] \in Clienting
               /\ out'[q] = out[q] /\ barrier'[q] = barrier[q]
               /\ entered'[q] = entered[q] /\ calls'[q] = calls[q]
               /\ q = 0 => i' = i
    PROVE  Outgoing'
<1>1. ASSUME NEW q \in Rank, main'[q] \in Clienting PROVE out'[q] = Expected(q)'
  <2>1. out[q] = Expected(q)
    BY <1>1 DEF Outgoing
  <2>2. Expected(q)' = Expected(q)
    BY <1>1 DEF Expected
  <2> QED
    BY <1>1, <2>1, <2>2
<1> QED
  BY <1>1 DEF Outgoing

\* A step of r that starts a client() with the expected message keeps Outgoing.
LEMMA OutgoingStarted ==
    ASSUME NEW r \in Rank, Outgoing, out'[r] = Expected(r)',
           \A q \in Rank \ {r} :
               /\ main'[q] = main[q] /\ out'[q] = out[q] /\ barrier'[q] = barrier[q]
               /\ entered'[q] = entered[q] /\ calls'[q] = calls[q]
               /\ q = 0 => i' = i
    PROVE  Outgoing'
<1>1. ASSUME NEW q \in Rank \ {r}, main'[q] \in Clienting PROVE out'[q] = Expected(q)'
  <2>1. out[q] = Expected(q)
    BY <1>1 DEF Outgoing
  <2>2. Expected(q)' = Expected(q)
    BY <1>1 DEF Expected
  <2> QED
    BY <1>1, <2>1, <2>2
<1> QED
  BY <1>1 DEF Outgoing

\* A client() call keeps its listener and message until it returns.
LEMMA OutgoingStep == Threads /\ [Next]_vars => Outgoing'
<1> SUFFICES ASSUME Threads, [Next]_vars PROVE Outgoing'
  OBVIOUS
<1> USE DEF Threads, TypeOK, mainVars, globals, srvVars, timeVars, Clienting,
            StartClient
<1>1. ASSUME NEW r \in Rank, Launch(r), UNCHANGED calls PROVE Outgoing'
  <2>1. CASE r = 0
    BY <1>1, <2>1, OutgoingKept DEF Launch, StartBarrier, SpawnServers
  <2>2. CASE ~(r = 0)
    BY <1>1, <2>2, OutgoingKept DEF Launch
  <2> QED
    BY <2>1, <2>2
<1>2. ASSUME NEW r \in Rank, InitWake(r), UNCHANGED calls PROVE Outgoing'
  BY <1>2, OutgoingKept DEF InitWake, StartBarrier, SpawnServers, WakeUp
<1>3. ASSUME NEW r \in Rank, EnterBarrier(r), UNCHANGED calls PROVE Outgoing'
  <2>1. CASE r = 0
    BY <1>3, <2>1, OutgoingKept DEF EnterBarrier, WakeUp
  <2>2. CASE r # 0
    <3>1. out'[r] = Expected(r)'
      BY <1>3, <2>2 DEF EnterBarrier, Expected
    <3> QED
      BY <1>3, <2>2, <3>1, OutgoingStarted DEF EnterBarrier, WakeUp
  <2> QED
    BY <2>1, <2>2
<1>4. ASSUME NEW r \in Rank, Connect(r), UNCHANGED calls PROVE Outgoing'
  BY <1>4, OutgoingKept DEF Connect
<1>5. ASSUME NEW r \in Rank, Refused(r), UNCHANGED calls PROVE Outgoing'
  BY <1>5, OutgoingKept DEF Refused
<1>6. ASSUME NEW r \in Rank, Retry(r), UNCHANGED calls PROVE Outgoing'
  BY <1>6, OutgoingKept DEF Retry, WakeUp
<1>7. ASSUME NEW r \in Rank, GiveUp(r), UNCHANGED calls PROVE Outgoing'
  BY <1>7, OutgoingKept DEF GiveUp, WakeUp, Terminate
<1>8. ASSUME NEW r \in Rank, ArrivalWritten(r), UNCHANGED calls PROVE Outgoing'
  BY <1>8, OutgoingKept DEF ArrivalWritten
<1>9. ASSUME NEW r \in Rank, AckSeen(r), UNCHANGED calls PROVE Outgoing'
  BY <1>9, OutgoingKept DEF AckSeen
<1>10. ASSUME NEW r \in Rank, Reset(r), UNCHANGED calls PROVE Outgoing'
  BY <1>10, OutgoingKept DEF Reset
<1>11. ASSUME NEW r \in Rank, Lower(r), UNCHANGED calls PROVE Outgoing'
  BY <1>11, OutgoingKept DEF Lower
<1>12. ASSUME NEW r \in Rank, ExitBarrier(r), UNCHANGED calls PROVE Outgoing'
  BY <1>12, OutgoingKept DEF ExitBarrier, WakeUp
<1>13. ASSUME NEW r \in Rank, DataWritten(r), UNCHANGED calls PROVE Outgoing'
  BY <1>13, OutgoingKept DEF DataWritten
<1>14. ASSUME NEW r \in Rank, PostRecv(r), UNCHANGED calls PROVE Outgoing'
  BY <1>14, OutgoingKept DEF PostRecv
<1>15. ASSUME NEW r \in Rank, RecvReturn(r), UNCHANGED calls PROVE Outgoing'
  BY <1>15, OutgoingKept DEF RecvReturn
<1>16. ASSUME NEW r \in Rank, Send(r) PROVE Outgoing'
  <2>1. Partner(r) # r /\ ~barrier[r]
    BY <1>16, PartnerFacts DEF Send, Working, Control
  <2>2. out'[r] = Expected(r)'
    <3>1. calls'[r] - 1 = calls[r] /\ ~barrier'[r]
      BY <1>16, <2>1 DEF Send
    <3> QED
      BY <1>16, <2>1, <3>1 DEF Send, MPI_Send, Expected
  <2> QED
    BY <1>16, <2>1, <2>2, OutgoingStarted DEF Send, MPI_Send
<1>17. ASSUME NEW r \in Rank, Recv(r) PROVE Outgoing'
  <2>1. Partner(r) # r
    BY PartnerFacts
  <2> QED
    BY <1>17, <2>1, OutgoingKept DEF Recv, MPI_Recv
<1>18. ASSUME NEW r \in Rank, MPI_Finalize(r) PROVE Outgoing'
  BY <1>18, OutgoingKept DEF MPI_Finalize, StartBarrier
<1>19. ASSUME NEW r \in Rank, Exit(r) PROVE Outgoing'
  BY <1>19, OutgoingKept DEF Exit, Terminate
<1>20. ASSUME WaitArrival, UNCHANGED calls PROVE Outgoing'
  <2>1. CASE i < NumProc - 1
    BY <1>20, <2>1, OutgoingKept DEF WaitArrival
  <2>2. CASE ~(i < NumProc - 1)
    <3>1. 0 \in Rank /\ barrier[0]
      BY <1>20, ZeroRank DEF WaitArrival, Control
    <3>2. out'[0] = Expected(0)'
      BY <1>20, <2>2, <3>1 DEF WaitArrival, SendAck, Expected
    <3> QED
      BY <1>20, <2>2, <3>1, <3>2, OutgoingStarted DEF WaitArrival, SendAck
  <2> QED
    BY <2>1, <2>2
<1>21. ASSUME AckWritten, UNCHANGED calls PROVE Outgoing'
  <2>1. CASE i < NumProc - 1
    <3>1. 0 \in Rank /\ barrier[0]
      BY <1>21, ZeroRank DEF AckWritten
    <3>2. out'[0] = Expected(0)'
      BY <1>21, <2>1, <3>1 DEF AckWritten, SendAck, Expected
    <3> QED
      BY <1>21, <2>1, <3>1, <3>2, OutgoingStarted DEF AckWritten, SendAck
  <2>2. CASE ~(i < NumProc - 1)
    BY <1>21, <2>2, OutgoingKept DEF AckWritten
  <2> QED
    BY <2>1, <2>2
<1>22. ASSUME Tick, UNCHANGED calls PROVE Outgoing'
  BY <1>22, OutgoingKept DEF Tick
<1>23. ASSUME NEW l \in Listener, Bind(l), UNCHANGED calls PROVE Outgoing'
  BY <1>23, OutgoingKept DEF Bind
<1>24. ASSUME NEW l \in Listener, Accept(l), UNCHANGED calls PROVE Outgoing'
  BY <1>24, OutgoingKept DEF Accept
<1>25. ASSUME NEW l \in Listener, SpinEnd(l), UNCHANGED calls PROVE Outgoing'
  BY <1>25, OutgoingKept DEF SpinEnd
<1>26. ASSUME NEW l \in Listener, Test(l), UNCHANGED calls PROVE Outgoing'
  BY <1>26, OutgoingKept DEF Test, DropHead
<1>27. ASSUME NEW l \in Listener, BarrierRead(l), UNCHANGED calls PROVE Outgoing'
  BY <1>27, OutgoingKept DEF BarrierRead, DropHead
<1>28. ASSUME NEW l \in Listener, DataRead(l), UNCHANGED calls PROVE Outgoing'
  BY <1>28, OutgoingKept DEF DataRead, DropHead
<1>29. ASSUME NEW l \in Listener, Clear(l), UNCHANGED calls PROVE Outgoing'
  BY <1>29, OutgoingKept DEF Clear
<1>30. CASE UNCHANGED vars
  BY <1>30, VarsDef, OutgoingKept
<1>31. QED
  BY Steps, <1>1, <1>2, <1>3, <1>4, <1>5, <1>6, <1>7, <1>8, <1>9, <1>10,
     <1>11, <1>12, <1>13, <1>14, <1>15, <1>16, <1>17, <1>18, <1>19, <1>20,
     <1>21, <1>22, <1>23, <1>24, <1>25, <1>26, <1>27, <1>28, <1>29, <1>30

\* A server thread past accept() keeps its connection until it drops it.
LEMMA ServingStep == Threads /\ [Next]_vars => Serving'
<1> SUFFICES ASSUME Threads, [Next]_vars PROVE Serving'
  OBVIOUS
<1> USE DEF Threads, TypeOK, Serving, Listener, ListenersOf, mainVars, globals,
            srvVars, timeVars, StartClient
<1>1. ASSUME NEW r \in Rank, Launch(r), UNCHANGED calls PROVE Serving'
  BY <1>1 DEF Launch, StartBarrier, SpawnServers
<1>2. ASSUME NEW r \in Rank, InitWake(r), UNCHANGED calls PROVE Serving'
  BY <1>2 DEF InitWake, StartBarrier, SpawnServers, WakeUp
<1>3. ASSUME NEW r \in Rank, EnterBarrier(r), UNCHANGED calls PROVE Serving'
  BY <1>3 DEF EnterBarrier, WakeUp
<1>4. ASSUME NEW r \in Rank, Connect(r), UNCHANGED calls PROVE Serving'
  <2> DEFINE to == out[r].to
             All == Message \cup {NoMsg}
  <2>1. to \in Listener /\ conn[to] \in Seq(All) /\ out[r].msg \in All
    OBVIOUS
  <2>2. Append(conn[to], out[r].msg) # << >>
    BY <2>1, AppendFacts
  <2> QED
    BY <1>4, <2>1, <2>2 DEF Connect
<1>5. ASSUME NEW r \in Rank, Refused(r), UNCHANGED calls PROVE Serving'
  BY <1>5 DEF Refused
<1>6. ASSUME NEW r \in Rank, Retry(r), UNCHANGED calls PROVE Serving'
  BY <1>6 DEF Retry, WakeUp
<1>7. ASSUME NEW r \in Rank, GiveUp(r), UNCHANGED calls PROVE Serving'
  BY <1>7 DEF GiveUp, WakeUp, Terminate
<1>8. ASSUME NEW r \in Rank, ArrivalWritten(r), UNCHANGED calls PROVE Serving'
  BY <1>8 DEF ArrivalWritten
<1>9. ASSUME NEW r \in Rank, AckSeen(r), UNCHANGED calls PROVE Serving'
  BY <1>9 DEF AckSeen
<1>10. ASSUME NEW r \in Rank, Reset(r), UNCHANGED calls PROVE Serving'
  BY <1>10 DEF Reset
<1>11. ASSUME NEW r \in Rank, Lower(r), UNCHANGED calls PROVE Serving'
  BY <1>11 DEF Lower
<1>12. ASSUME NEW r \in Rank, ExitBarrier(r), UNCHANGED calls PROVE Serving'
  BY <1>12 DEF ExitBarrier, WakeUp
<1>13. ASSUME NEW r \in Rank, DataWritten(r), UNCHANGED calls PROVE Serving'
  BY <1>13 DEF DataWritten
<1>14. ASSUME NEW r \in Rank, PostRecv(r), UNCHANGED calls PROVE Serving'
  BY <1>14 DEF PostRecv
<1>15. ASSUME NEW r \in Rank, RecvReturn(r), UNCHANGED calls PROVE Serving'
  BY <1>15 DEF RecvReturn
<1>16. ASSUME NEW r \in Rank, Send(r) PROVE Serving'
  BY <1>16 DEF Send, Working, MPI_Send
<1>17. ASSUME NEW r \in Rank, Recv(r) PROVE Serving'
  BY <1>17 DEF Recv, Working, MPI_Recv
<1>18. ASSUME NEW r \in Rank, MPI_Finalize(r) PROVE Serving'
  BY <1>18 DEF MPI_Finalize, StartBarrier
<1>19. ASSUME NEW r \in Rank, Exit(r) PROVE Serving'
  BY <1>19 DEF Exit, Terminate
<1>20. ASSUME WaitArrival, UNCHANGED calls PROVE Serving'
  BY <1>20 DEF WaitArrival, SendAck
<1>21. ASSUME AckWritten, UNCHANGED calls PROVE Serving'
  BY <1>21 DEF AckWritten, SendAck
<1>22. ASSUME Tick, UNCHANGED calls PROVE Serving'
  BY <1>22 DEF Tick
<1>23. ASSUME NEW l \in Listener, Bind(l), UNCHANGED calls PROVE Serving'
  BY <1>23 DEF Bind
<1>24. ASSUME NEW l \in Listener, Accept(l), UNCHANGED calls PROVE Serving'
  BY <1>24 DEF Accept
<1>25. ASSUME NEW l \in Listener, SpinEnd(l), UNCHANGED calls PROVE Serving'
  BY <1>25 DEF SpinEnd
<1>26. ASSUME NEW l \in Listener, Test(l), UNCHANGED calls PROVE Serving'
  BY <1>26 DEF Test, DropHead
<1>27. ASSUME NEW l \in Listener, BarrierRead(l), UNCHANGED calls PROVE Serving'
  BY <1>27 DEF BarrierRead, DropHead
<1>28. ASSUME NEW l \in Listener, DataRead(l), UNCHANGED calls PROVE Serving'
  BY <1>28 DEF DataRead, DropHead
<1>29. ASSUME NEW l \in Listener, Clear(l), UNCHANGED calls PROVE Serving'
  BY <1>29 DEF Clear
<1>30. CASE UNCHANGED vars
  BY <1>30, VarsDef
<1>31. QED
  BY Steps, <1>1, <1>2, <1>3, <1>4, <1>5, <1>6, <1>7, <1>8, <1>9, <1>10,
     <1>11, <1>12, <1>13, <1>14, <1>15, <1>16, <1>17, <1>18, <1>19, <1>20,
     <1>21, <1>22, <1>23, <1>24, <1>25, <1>26, <1>27, <1>28, <1>29, <1>30

\* What a client() call sends is a message.
LEMMA ExpectedType ==
    ASSUME TypeOK, Control, NEW r \in Rank, main[r] \in Clienting
    PROVE  Expected(r).msg \in Message
<1>1. CASE ~barrier[r]
  <2>1. calls[r] - 1 \in Nat /\ calls[r] - 1 < 2 * Len(Sizes)
    <3>1. calls[r] > 0
      BY <1>1 DEF Control
    <3>2. calls[r] \in 0 .. 2 * Len(Sizes) /\ Len(Sizes) \in Nat
      BY ZeroRank DEF TypeOK
    <3> QED
      BY <3>1, <3>2
  <2>2. Exchange(calls[r] - 1) \in 1 .. Len(Sizes)
    BY <2>1, ExchangeRange
  <2> QED
    BY <1>1, <2>2, DataType DEF Expected
<1>2. CASE barrier[r]
  <2>1. entered[r] \in Nat /\ entered[0] \in Nat /\ 0 \in Rank
    BY ZeroRank DEF TypeOK
  <2> QED
    BY <1>2, <2>1, BarrierMsgType DEF Expected
<1> QED
  BY <1>1, <1>2 DEF TypeOK

\* An acknowledgement is a well-formed client() call.
LEMMA AckType ==
    ASSUME TypeOK, NEW k \in Others, SendAck(k)
    PROVE  /\ main' = [main EXCEPT ![0] = "connect"] /\ i' \in Others
           /\ main' \in [Rank -> MainPc]
           /\ ctr' \in [Rank -> 0 .. MaxTries]
           /\ out' \in [Rank -> [to : Listener, msg : Message \cup {NoMsg}]]
<1>1. BarrierMsg(0, entered[0]) \in Message /\ <<k, 0>> \in Listener /\ 0 \in Rank
  BY BarrierMsgType, ListenerFacts, ZeroRank DEF TypeOK
<1>2. 0 \in 0 .. MaxTries /\ "connect" \in MainPc
  BY DEF MaxTries, MainPc
<1> QED
  BY <1>1, <1>2 DEF TypeOK, SendAck, StartClient

\* A quarter of a count is a count.
LEMMA DivFour == \A c \in Nat : c \div 4 \in Nat
  OBVIOUS

\* Every step keeps the types.
LEMMA TypeStep == Threads /\ [Next]_vars => TypeOK'
<1> SUFFICES ASSUME Threads, [Next]_vars PROVE TypeOK'
  OBVIOUS
<1> USE DEF Threads, TypeOK, ListenersOf, mainVars, globals, srvVars, timeVars,
            StartClient, MainPc, SrvPc, Asleep, Ended
<1>1. ASSUME NEW r \in Rank, Launch(r), UNCHANGED calls PROVE TypeOK'
  <2>1. main' \in [Rank -> MainPc]
    <3>1. \/ main' = [main EXCEPT ![r] = "bar_sleep"]
          \/ main' = [main EXCEPT ![r] = "init_sleep"]
      BY <1>1 DEF Launch, StartBarrier
    <3> QED
      BY <3>1
  <2>2. srv' \in [Listener -> SrvPc]
    BY <1>1 DEF Launch, SpawnServers
  <2> QED
    BY <1>1, <2>1, <2>2 DEF Launch
<1>2. ASSUME NEW r \in Rank, InitWake(r), UNCHANGED calls PROVE TypeOK'
  BY <1>2 DEF InitWake, StartBarrier, SpawnServers, WakeUp
<1>3. ASSUME NEW r \in Rank, EnterBarrier(r), UNCHANGED calls PROVE TypeOK'
  <2>1. main' \in [Rank -> MainPc]
    <3>1. \/ main' = [main EXCEPT ![r] = "wait"]
          \/ main' = [main EXCEPT ![r] = "connect"]
      BY <1>3 DEF EnterBarrier
    <3> QED
      BY <3>1
  <2>2. i' \in Others
    BY <1>3, OthersFacts DEF EnterBarrier
  <2>3. ctr' \in [Rank -> 0 .. MaxTries]
    <3>1. ctr' = ctr \/ ctr' = [ctr EXCEPT ![r] = 0]
      BY <1>3 DEF EnterBarrier
    <3>2. 0 \in 0 .. MaxTries
      BY DEF MaxTries
    <3> QED
      BY <3>1, <3>2
  <2>4. out' \in [Rank -> [to : Listener, msg : Message \cup {NoMsg}]]
    <3>1. CASE r = 0
      BY <1>3, <3>1 DEF EnterBarrier
    <3>2. CASE r # 0
      <4>1. r \in Others /\ entered[r] + 1 \in Nat
        BY <3>2 DEF Others
      <4>2. BarrierMsg(r, entered[r] + 1) \in Message /\ <<0, r>> \in Listener
        BY <4>1, BarrierMsgType, ListenerFacts
      <4>3. out' = [out EXCEPT ![r] = [to |-> <<0, r>>, msg |-> BarrierMsg(r, entered[r] + 1)]]
        BY <1>3, <3>2 DEF EnterBarrier
      <4> QED
        BY <4>2, <4>3
    <3> QED
      BY <3>1, <3>2
  <2>5. entered' \in [Rank -> Nat] /\ barrier' \in [Rank -> BOOLEAN]
    BY <1>3 DEF EnterBarrier
  <2> QED
    BY <1>3, <2>1, <2>2, <2>3, <2>4, <2>5 DEF EnterBarrier, WakeUp
<1>4. ASSUME NEW r \in Rank, Connect(r), UNCHANGED calls PROVE TypeOK'
  <2>1. out[r].msg \in Message /\ out[r].to \in Listener
    BY <1>4, ExpectedType DEF Connect, Outgoing, Clienting
  <2>2. Append(conn[out[r].to], out[r].msg) \in Seq(Message)
    BY <2>1, AppendFacts
  <2> QED
    BY <1>4, <2>1, <2>2 DEF Connect, MainPc
<1>5. ASSUME NEW r \in Rank, Refused(r), UNCHANGED calls PROVE TypeOK'
  <2>1. ctr[r] < MaxTries
    BY <1>5 DEF Refused, Control
  <2>2. ctr[r] + 1 \in 0 .. MaxTries
    <3>1. ctr[r] \in 0 .. MaxTries
      OBVIOUS
    <3> HIDE DEF TypeOK, Threads
    <3> QED
      BY <2>1, <3>1 DEF MaxTries
  <2> QED
    BY <1>5, <2>2 DEF Refused
<1>6. ASSUME NEW r \in Rank, Retry(r), UNCHANGED calls PROVE TypeOK'
  BY <1>6 DEF Retry, WakeUp
<1>7. ASSUME NEW r \in Rank, GiveUp(r), UNCHANGED calls PROVE TypeOK'
  <2>1. << >> \in Seq(Message)
    OBVIOUS
  <2>2. conn' \in [Listener -> Seq(Message)] /\ srv' \in [Listener -> SrvPc]
    BY <1>7, <2>1 DEF GiveUp, Terminate
  <2> QED
    BY <1>7, <2>2 DEF GiveUp, WakeUp, Terminate
<1>8. ASSUME NEW r \in Rank, ArrivalWritten(r), UNCHANGED calls PROVE TypeOK'
  BY <1>8 DEF ArrivalWritten
<1>9. ASSUME NEW r \in Rank, AckSeen(r), UNCHANGED calls PROVE TypeOK'
  BY <1>9 DEF AckSeen
<1>10. ASSUME NEW r \in Rank, Reset(r), UNCHANGED calls PROVE TypeOK'
  BY <1>10 DEF Reset
<1>11. ASSUME NEW r \in Rank, Lower(r), UNCHANGED calls PROVE TypeOK'
  <2>1. left' \in [Rank -> Nat] /\ barrier' \in [Rank -> BOOLEAN] /\ main' \in [Rank -> MainPc]
    BY <1>11 DEF Lower
  <2> QED
    BY <1>11, <2>1 DEF Lower
<1>12. ASSUME NEW r \in Rank, ExitBarrier(r), UNCHANGED calls PROVE TypeOK'
  BY <1>12 DEF ExitBarrier, WakeUp
<1>13. ASSUME NEW r \in Rank, DataWritten(r), UNCHANGED calls PROVE TypeOK'
  BY <1>13 DEF DataWritten
<1>14. ASSUME NEW r \in Rank, PostRecv(r), UNCHANGED calls PROVE TypeOK'
  BY <1>14 DEF PostRecv
<1>15. ASSUME NEW r \in Rank, RecvReturn(r), UNCHANGED calls PROVE TypeOK'
  BY <1>15 DEF RecvReturn
<1>16. ASSUME NEW r \in Rank, Send(r) PROVE TypeOK'
  <2>1. calls[r] \in Nat /\ calls[r] < 2 * Len(Sizes) /\ calls[r] + 1 \in 0 .. 2 * Len(Sizes)
    <3>1. calls[r] \in 0 .. 2 * Len(Sizes) /\ Len(Sizes) \in Nat
      BY ZeroRank
    <3>2. calls[r] < 2 * Len(Sizes)
      BY <1>16 DEF Send, Working
    <3> QED
      BY <3>1, <3>2
  <2>2. Data(r, Exchange(calls[r])) \in Message
    BY <2>1, ExchangeRange, DataType
  <2>3. <<Partner(r), 0>> \in Listener /\ Partner(r) # r
    BY PartnerFacts, ListenerFacts
  <2>4. 0 \in 0 .. MaxTries
    BY DEF MaxTries
  <2> HIDE DEF Listener
  <2>5. out' \in [Rank -> [to : Listener, msg : Message \cup {NoMsg}]]
    <3>1. out' = [out EXCEPT ![r] = [to |-> <<Partner(r), 0>>,
                                     msg |-> Data(r, Exchange(calls[r]))]]
      BY <1>16, <2>3 DEF Send, MPI_Send
    <3> QED
      BY <2>2, <2>3, <3>1
  <2> QED
    BY <1>16, <2>1, <2>3, <2>4, <2>5 DEF Send, MPI_Send
<1>17. ASSUME NEW r \in Rank, Recv(r) PROVE TypeOK'
  <2>1. calls[r] \in Nat /\ calls[r] < 2 * Len(Sizes) /\ calls[r] + 1 \in 0 .. 2 * Len(Sizes)
    <3>1. calls[r] \in 0 .. 2 * Len(Sizes) /\ Len(Sizes) \in Nat
      BY ZeroRank
    <3>2. calls[r] < 2 * Len(Sizes)
      BY <1>17 DEF Recv, Working
    <3> QED
      BY <3>1, <3>2
  <2>2. Sizes[Exchange(calls[r])] \in Nat
    BY <2>1, ExchangeRange
  <2> QED
    BY <1>17, <2>1, <2>2 DEF Recv, MPI_Recv
<1>18. ASSUME NEW r \in Rank, MPI_Finalize(r) PROVE TypeOK'
  BY <1>18 DEF MPI_Finalize, StartBarrier
<1>19. ASSUME NEW r \in Rank, Exit(r) PROVE TypeOK'
  <2>1. << >> \in Seq(Message)
    OBVIOUS
  <2>2. conn' \in [Listener -> Seq(Message)] /\ srv' \in [Listener -> SrvPc]
    BY <1>19, <2>1 DEF Exit, Terminate
  <2> QED
    BY <1>19, <2>2 DEF Exit, Terminate
<1>20. ASSUME WaitArrival, UNCHANGED calls PROVE TypeOK'
  <2>1. CASE i < NumProc - 1
    BY <1>20, <2>1, OthersFacts DEF WaitArrival
  <2>2. CASE ~(i < NumProc - 1)
    BY <1>20, <2>2, OthersFacts, AckType DEF WaitArrival
  <2> QED
    BY <2>1, <2>2
<1>21. ASSUME AckWritten, UNCHANGED calls PROVE TypeOK'
  <2>1. CASE i < NumProc - 1
    BY <1>21, <2>1, OthersFacts, AckType DEF AckWritten
  <2>2. CASE ~(i < NumProc - 1)
    BY <1>21, <2>2, ZeroRank DEF AckWritten
  <2> QED
    BY <2>1, <2>2
<1>22. ASSUME Tick, UNCHANGED calls PROVE TypeOK'
  <2>1. clock' \in 0 .. MaxSkew
    BY <1>22, MaxSkewAssumption DEF Tick
  <2>2. expired' \subseteq Rank
    BY <1>22 DEF Tick, Sleepers
  <2> QED
    BY <1>22, <2>1, <2>2 DEF Tick
<1>23. ASSUME NEW l \in Listener, Bind(l), UNCHANGED calls PROVE TypeOK'
  BY <1>23 DEF Bind
<1>24. ASSUME NEW l \in Listener, Accept(l), UNCHANGED calls PROVE TypeOK'
  BY <1>24 DEF Accept
<1>25. ASSUME NEW l \in Listener, SpinEnd(l), UNCHANGED calls PROVE TypeOK'
  BY <1>25 DEF SpinEnd
<1>26. ASSUME NEW l \in Listener, Test(l), UNCHANGED calls PROVE TypeOK'
  <2>1. Head(conn[l]) \in Message /\ Tail(conn[l]) \in Seq(Message)
    BY <1>26, TailFacts DEF Test, Serving
  <2>2. conn' \in [Listener -> Seq(Message)] \/ conn' = conn
    BY <1>26, <2>1 DEF Test, DropHead
  <2> QED
    BY <1>26, <2>1, <2>2 DEF Test
<1>27. ASSUME NEW l \in Listener, BarrierRead(l), UNCHANGED calls PROVE TypeOK'
  <2>1. Head(conn[l]) \in Message /\ Tail(conn[l]) \in Seq(Message)
    BY <1>27, TailFacts DEF BarrierRead, Serving
  <2>2. conn' \in [Listener -> Seq(Message)]
    BY <1>27, <2>1 DEF BarrierRead, DropHead
  <2>3. lost' \subseteq Message /\ srv' \in [Listener -> SrvPc]
    BY <1>27, <2>1 DEF BarrierRead
  <2>4. glob' \in [Rank -> [Rank -> Rank \cup {-1}]]
    <3>1. Head(conn[l]).first \in Rank
      BY <2>1 DEF Message
    <3>2. l[1] \in Rank /\ l[2] \in Rank
      BY ListenerFacts
    <3>3. \/ glob' = glob
          \/ glob' = [glob EXCEPT ![l[1]][l[2]] = Head(conn[l]).first]
      BY <1>27 DEF BarrierRead
    <3>4. [glob[l[1]] EXCEPT ![l[2]] = Head(conn[l]).first] \in [Rank -> Rank \cup {-1}]
      BY <3>1, <3>2
    <3>5. \/ glob' = glob
          \/ glob' = [glob EXCEPT ![l[1]] = [glob[l[1]] EXCEPT ![l[2]] = Head(conn[l]).first]]
      BY <3>3
    <3>6. glob \in [Rank -> [Rank -> Rank \cup {-1}]]
      OBVIOUS
    <3> HIDE DEF TypeOK, Threads
    <3> DEFINE S == [Rank -> Rank \cup {-1}]
    <3>7. glob \in [Rank -> S] /\ [glob[l[1]] EXCEPT ![l[2]] = Head(conn[l]).first] \in S
      BY <3>4, <3>6
    <3> HIDE DEF S
    <3>8. glob' \in [Rank -> S]
      BY <3>2, <3>5, <3>7
    <3> QED
      BY <3>8 DEF S
  <2> QED
    BY <1>27, <2>2, <2>3, <2>4 DEF BarrierRead
<1>28. ASSUME NEW l \in Listener, DataRead(l), UNCHANGED calls PROVE TypeOK'
  <2>1. Head(conn[l]) \in Message /\ Tail(conn[l]) \in Seq(Message)
    BY <1>28, TailFacts DEF DataRead, Serving
  <2>2. conn' \in [Listener -> Seq(Message)]
    BY <1>28, <2>1 DEF DataRead, DropHead
  <2>3. lost' \subseteq Message /\ srv' \in [Listener -> SrvPc]
    BY <1>28, <2>1 DEF DataRead
  <2>4. Copied(Head(conn[l]), rcv_cnt[l[1]]) \in [src : Rank \cup {-1}, n : Nat, bytes : Nat]
    BY <2>1, ListenerFacts, DivFour DEF Copied, IntSize, Message
  <2>5. buf' \in [Rank -> [src : Rank \cup {-1}, n : Nat, bytes : Nat]]
    BY <1>28, <2>4 DEF DataRead
  <2> QED
    BY <1>28, <2>2, <2>3, <2>5 DEF DataRead
<1>29. ASSUME NEW l \in Listener, Clear(l), UNCHANGED calls PROVE TypeOK'
  BY <1>29 DEF Clear
<1>30. CASE UNCHANGED vars
  BY <1>30, VarsDef
<1>31. QED
  BY Steps, <1>1, <1>2, <1>3, <1>4, <1>5, <1>6, <1>7, <1>8, <1>9, <1>10,
     <1>11, <1>12, <1>13, <1>14, <1>15, <1>16, <1>17, <1>18, <1>19, <1>20,
     <1>21, <1>22, <1>23, <1>24, <1>25, <1>26, <1>27, <1>28, <1>29, <1>30

----------------------------------------------------------------------------
(* The theorems of this module.  *)

\* No process has started and nothing has been sent.
LEMMA ThreadsInit == Init => Threads
<1> SUFFICES ASSUME Init PROVE Threads
  OBVIOUS
<1> USE DEF Init, LibInit
<1>1. TypeOK
  <2>1. 1 \in Others /\ 0 \in 0 .. MaxTries /\ 0 \in 0 .. MaxSkew /\ 0 \in 0 .. 2 * Len(Sizes)
    BY OthersFacts, ZeroRank, MaxSkewAssumption DEF MaxTries
  <2>2. \A r \in Rank : <<r, 0>> \in Listener
    BY ListenerFacts
  <2> QED
    BY <2>1, <2>2 DEF TypeOK, MainPc, SrvPc, NoCopy
<1>2. Control
  BY DEF Control, Clienting
<1>3. Outgoing
  BY DEF Outgoing, Clienting
<1>4. Serving
  BY DEF Serving
<1> QED
  BY <1>1, <1>2, <1>3, <1>4 DEF Threads

\* Program counters, counters and outgoing messages stay consistent.
THEOREM ThreadsInv == Spec => []Threads
<1>1. Threads /\ [Next]_vars => Threads'
  BY TypeStep, ControlStep, OutgoingStep, ServingStep DEF Threads
<1> QED
  BY <1>1, ThreadsInit, PTL DEF Spec

\* Every variable of the library and its driver keeps its type.
THEOREM TypeCorrect == Spec => []TypeOK
<1>1. Threads => TypeOK
  BY DEF Threads
<1> QED
  BY <1>1, ThreadsInv, PTL

----------------------------------------------------------------------------
(* What a step may do to the quantities of MyRttInv: buff_glob_0, the      *)
(* connections, and the episodes and data each rank has sent and seen.     *)

\* Rank Half is not rank 0.
LEMMA HalfOther == Half \in Others /\ Half \in Rank /\ Half # 0 /\ Half \in Nat /\ 0 < Half
  BY HalfRank, NumProcAssumption DEF Others, Rank

\* Halving the number of calls after one more of them.
LEMMA Parity ==
    \A c \in Nat : /\ c \div 2 \in Nat /\ (c + 1) \div 2 \in Nat /\ ((c + 1) + 1) \div 2 \in Nat
                   /\ c % 2 = 0 => /\ (c + 1) \div 2 = c \div 2
                                   /\ ((c + 1) + 1) \div 2 = (c \div 2) + 1
                   /\ c % 2 # 0 => /\ (c + 1) \div 2 = (c \div 2) + 1
                                   /\ ((c + 1) + 1) \div 2 = (c + 1) \div 2
                   /\ (2 * c + 1) \div 2 = c
  OBVIOUS

\* The types of the main threads' variables.
LEMMA MainTypes ==
    ASSUME TypeOK
    PROVE  /\ main \in [Rank -> MainPc] /\ barrier \in [Rank -> BOOLEAN]
           /\ entered \in [Rank -> Nat] /\ left \in [Rank -> Nat]
           /\ calls \in [Rank -> Nat] /\ rcv_flag \in [Rank -> BOOLEAN]
           /\ glob \in [Rank -> [Rank -> Rank \cup {-1}]]
           /\ srv \in [Listener -> SrvPc]
<1>1. calls \in [Rank -> Nat]
  <2>1. 0 .. 2 * Len(Sizes) \subseteq Nat
    BY ZeroRank
  <2> QED
    BY <2>1 DEF TypeOK
<1> QED
  BY <1>1 DEF TypeOK

\* buff_glob_0 changes by a reset of its own rank or a barrier message.
LEMMA GlobEffect ==
    ASSUME Threads, NEW h \in Rank, NEW p \in Rank, [Next]_vars
    PROVE  \/ glob'[h][p] = glob[h][p]
           \/ Reset(h) /\ glob'[h][p] = -1
           \/ /\ <<h, p>> \in Listener /\ BarrierRead(<<h, p>>)
              /\ glob'[h][p] = Head(conn[<<h, p>>]).first
<1> DEFINE G ==
           \/ glob'[h][p] = glob[h][p]
           \/ Reset(h) /\ glob'[h][p] = -1
           \/ /\ <<h, p>> \in Listener /\ BarrierRead(<<h, p>>)
              /\ glob'[h][p] = Head(conn[<<h, p>>]).first
<1> USE DEF Threads, TypeOK, mainVars, globals, srvVars, timeVars, StartClient
<1>1. ASSUME NEW q \in Rank, Launch(q), UNCHANGED calls PROVE G
  BY <1>1 DEF Launch, StartBarrier, SpawnServers
<1>2. ASSUME NEW q \in Rank, InitWake(q), UNCHANGED calls PROVE G
  BY <1>2 DEF InitWake, StartBarrier, SpawnServers, WakeUp
<1>3. ASSUME NEW q \in Rank, EnterBarrier(q), UNCHANGED calls PROVE G
  BY <1>3 DEF EnterBarrier, WakeUp
<1>4. ASSUME NEW q \in Rank, Connect(q), UNCHANGED calls PROVE G
  BY <1>4 DEF Connect
<1>5. ASSUME NEW q \in Rank, Refused(q), UNCHANGED calls PROVE G
  BY <1>5 DEF Refused
<1>6. ASSUME NEW q \in Rank, Retry(q), UNCHANGED calls PROVE G
  BY <1>6 DEF Retry, WakeUp
<1>7. ASSUME NEW q \in Rank, GiveUp(q), UNCHANGED calls PROVE G
  BY <1>7 DEF GiveUp, WakeUp, Terminate
<1>8. ASSUME NEW q \in Rank, ArrivalWritten(q), UNCHANGED calls PROVE G
  BY <1>8 DEF ArrivalWritten
<1>9. ASSUME NEW q \in Rank, AckSeen(q), UNCHANGED calls PROVE G
  BY <1>9 DEF AckSeen
<1>10. ASSUME NEW q \in Rank, Reset(q), UNCHANGED calls PROVE G
  BY <1>10 DEF Reset
<1>11. ASSUME NEW q \in Rank, Lower(q), UNCHANGED calls PROVE G
  BY <1>11 DEF Lower
<1>12. ASSUME NEW q \in Rank, ExitBarrier(q), UNCHANGED calls PROVE G
  BY <1>12 DEF ExitBarrier, WakeUp
<1>13. ASSUME NEW q \in Rank, DataWritten(q), UNCHANGED calls PROVE G
  BY <1>13 DEF DataWritten
<1>14. ASSUME NEW q \in Rank, PostRecv(q), UNCHANGED calls PROVE G
  BY <1>14 DEF PostRecv
<1>15. ASSUME NEW q \in Rank, RecvReturn(q), UNCHANGED calls PROVE G
  BY <1>15 DEF RecvReturn
<1>16. ASSUME NEW q \in Rank, Send(q) PROVE G
  BY <1>16 DEF Send, Working, MPI_Send
<1>17. ASSUME NEW q \in Rank, Recv(q) PROVE G
  BY <1>17 DEF Recv, Working, MPI_Recv
<1>18. ASSUME NEW q \in Rank, MPI_Finalize(q) PROVE G
  BY <1>18 DEF MPI_Finalize, StartBarrier
<1>19. ASSUME NEW q \in Rank, Exit(q) PROVE G
  BY <1>19 DEF Exit, Terminate
<1>20. ASSUME WaitArrival, UNCHANGED calls PROVE G
  BY <1>20 DEF WaitArrival, SendAck
<1>21. ASSUME AckWritten, UNCHANGED calls PROVE G
  BY <1>21 DEF AckWritten, SendAck
<1>22. ASSUME Tick, UNCHANGED calls PROVE G
  BY <1>22 DEF Tick
<1>23. ASSUME NEW m \in Listener, Bind(m), UNCHANGED calls PROVE G
  BY <1>23 DEF Bind
<1>24. ASSUME NEW m \in Listener, Accept(m), UNCHANGED calls PROVE G
  BY <1>24 DEF Accept
<1>25. ASSUME NEW m \in Listener, SpinEnd(m), UNCHANGED calls PROVE G
  BY <1>25 DEF SpinEnd
<1>26. ASSUME NEW m \in Listener, Test(m), UNCHANGED calls PROVE G
  BY <1>26 DEF Test, DropHead
<1>27. ASSUME NEW m \in Listener, BarrierRead(m), UNCHANGED calls PROVE G
  <2>1. m = <<m[1], m[2]>> /\ m[1] \in Rank /\ m[2] \in Rank
    BY ListenerFacts
  <2>2. glob \in [Rank -> [Rank -> Rank \cup {-1}]]
    OBVIOUS
  <2>3. \/ glob' = glob
        \/ glob' = [glob EXCEPT ![m[1]][m[2]] = Head(conn[m]).first]
    BY <1>27 DEF BarrierRead
  <2> HIDE DEF Threads, TypeOK
  <2>4. CASE h = m[1] /\ p = m[2]
    <3>1. m = <<h, p>>
      BY <2>1, <2>4
    <3>2. glob'[h][p] = glob[h][p] \/ glob'[h][p] = Head(conn[m]).first
      BY <2>1, <2>2, <2>3, <2>4
    <3> QED
      BY <1>27, <3>1, <3>2
  <2>5. CASE ~(h = m[1] /\ p = m[2])
    <3>1. glob'[h][p] = glob[h][p]
      BY <2>1, <2>2, <2>3, <2>5
    <3> QED
      BY <3>1
  <2> QED
    BY <2>4, <2>5
<1>28. ASSUME NEW m \in Listener, DataRead(m), UNCHANGED calls PROVE G
  BY <1>28 DEF DataRead, DropHead
<1>29. ASSUME NEW m \in Listener, Clear(m), UNCHANGED calls PROVE G
  BY <1>29 DEF Clear
<1>30. ASSUME UNCHANGED vars PROVE G
  BY <1>30, VarsDef
<1> HIDE DEF G, Threads, TypeOK, mainVars, globals, srvVars, timeVars, StartClient
<1>31. G
  BY Steps, <1>1, <1>2, <1>3, <1>4, <1>5, <1>6, <1>7, <1>8, <1>9, <1>10,
     <1>11, <1>12, <1>13, <1>14, <1>15, <1>16, <1>17, <1>18, <1>19, <1>20,
     <1>21, <1>22, <1>23, <1>24, <1>25, <1>26, <1>27, <1>28, <1>29, <1>30
<1> QED
  BY <1>31 DEF G

\* Connections are appended by connect() and dropped from the front, or all
\* at once.
LEMMA ConnEffect ==
    ASSUME Threads, NEW l \in Listener, [Next]_vars
    PROVE  \/ conn'[l] = conn[l]
           \/ conn[l] # << >> /\ conn'[l] = Tail(conn[l])
           \/ conn'[l] = << >>
           \/ \E r \in Rank : /\ Connect(r) /\ out[r] = Expected(r) /\ out[r].to = l
                              /\ out[r].msg \in Message
                              /\ conn'[l] = Append(conn[l], out[r].msg)
<1> DEFINE G ==
           \/ conn'[l] = conn[l]
           \/ conn[l] # << >> /\ conn'[l] = Tail(conn[l])
           \/ conn'[l] = << >>
           \/ \E r \in Rank : /\ Connect(r) /\ out[r] = Expected(r) /\ out[r].to = l
                              /\ out[r].msg \in Message
                              /\ conn'[l] = Append(conn[l], out[r].msg)
<1> USE DEF Threads, TypeOK, mainVars, globals, srvVars, timeVars, StartClient,
            ListenersOf
<1>1. ASSUME NEW q \in Rank, Launch(q), UNCHANGED calls PROVE G
  BY <1>1 DEF Launch, StartBarrier, SpawnServers
<1>2. ASSUME NEW q \in Rank, InitWake(q), UNCHANGED calls PROVE G
  BY <1>2 DEF InitWake, StartBarrier, SpawnServers, WakeUp
<1>3. ASSUME NEW q \in Rank, EnterBarrier(q), UNCHANGED calls PROVE G
  BY <1>3 DEF EnterBarrier, WakeUp
<1>4. ASSUME NEW q \in Rank, Connect(q), UNCHANGED calls PROVE G
  <2>1. out[q] = Expected(q) /\ out[q].msg \in Message
    BY <1>4, ExpectedType DEF Connect, Outgoing, Clienting
  <2> QED
    BY <1>4, <2>1 DEF Connect
<1>5. ASSUME NEW q \in Rank, Refused(q), UNCHANGED calls PROVE G
  BY <1>5 DEF Refused
<1>6. ASSUME NEW q \in Rank, Retry(q), UNCHANGED calls PROVE G
  BY <1>6 DEF Retry, WakeUp
<1>7. ASSUME NEW q \in Rank, GiveUp(q), UNCHANGED calls PROVE G
  BY <1>7 DEF GiveUp, WakeUp, Terminate
<1>8. ASSUME NEW q \in Rank, ArrivalWritten(q), UNCHANGED calls PROVE G
  BY <1>8 DEF ArrivalWritten
<1>9. ASSUME NEW q \in Rank, AckSeen(q), UNCHANGED calls PROVE G
  BY <1>9 DEF AckSeen
<1>10. ASSUME NEW q \in Rank, Reset(q), UNCHANGED calls PROVE G
  BY <1>10 DEF Reset
<1>11. ASSUME NEW q \in Rank, Lower(q), UNCHANGED calls PROVE G
  BY <1>11 DEF Lower
<1>12. ASSUME NEW q \in Rank, ExitBarrier(q), UNCHANGED calls PROVE G
  BY <1>12 DEF ExitBarrier, WakeUp
<1>13. ASSUME NEW q \in Rank, DataWritten(q), UNCHANGED calls PROVE G
  BY <1>13 DEF DataWritten
<1>14. ASSUME NEW q \in Rank, PostRecv(q), UNCHANGED calls PROVE G
  BY <1>14 DEF PostRecv
<1>15. ASSUME NEW q \in Rank, RecvReturn(q), UNCHANGED calls PROVE G
  BY <1>15 DEF RecvReturn
<1>16. ASSUME NEW q \in Rank, Send(q) PROVE G
  BY <1>16 DEF Send, Working, MPI_Send
<1>17. ASSUME NEW q \in Rank, Recv(q) PROVE G
  BY <1>17 DEF Recv, Working, MPI_Recv
<1>18. ASSUME NEW q \in Rank, MPI_Finalize(q) PROVE G
  BY <1>18 DEF MPI_Finalize, StartBarrier
<1>19. ASSUME NEW q \in Rank, Exit(q) PROVE G
  BY <1>19 DEF Exit, Terminate
<1>20. ASSUME WaitArrival, UNCHANGED calls PROVE G
  BY <1>20 DEF WaitArrival, SendAck
<1>21. ASSUME AckWritten, UNCHANGED calls PROVE G
  BY <1>21 DEF AckWritten, SendAck
<1>22. ASSUME Tick, UNCHANGED calls PROVE G
  BY <1>22 DEF Tick
<1>23. ASSUME NEW m \in Listener, Bind(m), UNCHANGED calls PROVE G
  BY <1>23 DEF Bind
<1>24. ASSUME NEW m \in Listener, Accept(m), UNCHANGED calls PROVE G
  BY <1>24 DEF Accept
<1>25. ASSUME NEW m \in Listener, SpinEnd(m), UNCHANGED calls PROVE G
  BY <1>25 DEF SpinEnd
<1>26. ASSUME NEW m \in Listener, Test(m), UNCHANGED calls PROVE G
  <2>1. conn[m] # << >>
    BY <1>26 DEF Test, Serving
  <2> QED
    BY <1>26, <2>1 DEF Test, DropHead
<1>27. ASSUME NEW m \in Listener, BarrierRead(m), UNCHANGED calls PROVE G
  <2>1. conn[m] # << >>
    BY <1>27 DEF BarrierRead, Serving
  <2> QED
    BY <1>27, <2>1 DEF BarrierRead, DropHead
<1>28. ASSUME NEW m \in Listener, DataRead(m), UNCHANGED calls PROVE G
  <2>1. conn[m] # << >>
    BY <1>28 DEF DataRead, Serving
  <2> QED
    BY <1>28, <2>1 DEF DataRead, DropHead
<1>29. ASSUME NEW m \in Listener, Clear(m), UNCHANGED calls PROVE G
  BY <1>29 DEF Clear
<1>30. ASSUME UNCHANGED vars PROVE G
  BY <1>30, VarsDef
<1> HIDE DEF G, Threads, TypeOK, mainVars, globals, srvVars, timeVars, StartClient,
             ListenersOf
<1>31. G
  BY Steps, <1>1, <1>2, <1>3, <1>4, <1>5, <1>6, <1>7, <1>8, <1>9, <1>10,
     <1>11, <1>12, <1>13, <1>14, <1>15, <1>16, <1>17, <1>18, <1>19, <1>20,
     <1>21, <1>22, <1>23, <1>24, <1>25, <1>26, <1>27, <1>28, <1>29, <1>30
<1> QED
  BY <1>31 DEF G

\* Only the reset of buff_glob_0 moves rank 0 to the next episode.
LEMMA GatheringEffect ==
    ASSUME Threads, [Next]_vars
    PROVE  \/ Gathering' = Gathering
           \/ Reset(0) /\ Gathering' = Gathering + 1
<1> DEFINE G ==
           \/ Gathering' = Gathering
           \/ Reset(0) /\ Gathering' = Gathering + 1
<1> USE DEF Threads, TypeOK, mainVars, globals, srvVars, timeVars, StartClient,
            Control, Gathering, Clienting
<1>1. ASSUME NEW q \in Rank, Launch(q), UNCHANGED calls PROVE G
  BY <1>1, ZeroRank DEF Launch, StartBarrier, SpawnServers
<1>2. ASSUME NEW q \in Rank, InitWake(q), UNCHANGED calls PROVE G
  BY <1>2, ZeroRank DEF InitWake, StartBarrier, SpawnServers, WakeUp
<1>3. ASSUME NEW q \in Rank, EnterBarrier(q), UNCHANGED calls PROVE G
  BY <1>3, ZeroRank DEF EnterBarrier, WakeUp
<1>4. ASSUME NEW q \in Rank, Connect(q), UNCHANGED calls PROVE G
  BY <1>4, ZeroRank DEF Connect
<1>5. ASSUME NEW q \in Rank, Refused(q), UNCHANGED calls PROVE G
  BY <1>5, ZeroRank DEF Refused
<1>6. ASSUME NEW q \in Rank, Retry(q), UNCHANGED calls PROVE G
  BY <1>6, ZeroRank DEF Retry, WakeUp
<1>7. ASSUME NEW q \in Rank, GiveUp(q), UNCHANGED calls PROVE G
  BY <1>7, ZeroRank DEF GiveUp, WakeUp, Terminate
<1>8. ASSUME NEW q \in Rank, ArrivalWritten(q), UNCHANGED calls PROVE G
  BY <1>8, ZeroRank DEF ArrivalWritten
<1>9. ASSUME NEW q \in Rank, AckSeen(q), UNCHANGED calls PROVE G
  BY <1>9, ZeroRank DEF AckSeen
<1>10. ASSUME NEW q \in Rank, Reset(q), UNCHANGED calls PROVE G
  BY <1>10, ZeroRank DEF Reset
<1>11. ASSUME NEW q \in Rank, Lower(q), UNCHANGED calls PROVE G
  BY <1>11, ZeroRank DEF Lower
<1>12. ASSUME NEW q \in Rank, ExitBarrier(q), UNCHANGED calls PROVE G
  BY <1>12, ZeroRank DEF ExitBarrier, WakeUp
<1>13. ASSUME NEW q \in Rank, DataWritten(q), UNCHANGED calls PROVE G
  BY <1>13, ZeroRank DEF DataWritten
<1>14. ASSUME NEW q \in Rank, PostRecv(q), UNCHANGED calls PROVE G
  BY <1>14, ZeroRank DEF PostRecv
<1>15. ASSUME NEW q \in Rank, RecvReturn(q), UNCHANGED calls PROVE G
  BY <1>15, ZeroRank DEF RecvReturn
<1>16. ASSUME NEW q \in Rank, Send(q) PROVE G
  BY <1>16, ZeroRank DEF Send, Working, MPI_Send
<1>17. ASSUME NEW q \in Rank, Recv(q) PROVE G
  BY <1>17, ZeroRank DEF Recv, Working, MPI_Recv
<1>18. ASSUME NEW q \in Rank, MPI_Finalize(q) PROVE G
  BY <1>18, ZeroRank DEF MPI_Finalize, StartBarrier
<1>19. ASSUME NEW q \in Rank, Exit(q) PROVE G
  BY <1>19, ZeroRank DEF Exit, Terminate
<1>20. ASSUME WaitArrival, UNCHANGED calls PROVE G
  BY <1>20, ZeroRank DEF WaitArrival, SendAck
<1>21. ASSUME AckWritten, UNCHANGED calls PROVE G
  BY <1>21, ZeroRank DEF AckWritten, SendAck
<1>22. ASSUME Tick, UNCHANGED calls PROVE G
  BY <1>22, ZeroRank DEF Tick
<1>23. ASSUME NEW m \in Listener, Bind(m), UNCHANGED calls PROVE G
  BY <1>23, ZeroRank DEF Bind
<1>24. ASSUME NEW m \in Listener, Accept(m), UNCHANGED calls PROVE G
  BY <1>24, ZeroRank DEF Accept
<1>25. ASSUME NEW m \in Listener, SpinEnd(m), UNCHANGED calls PROVE G
  BY <1>25, ZeroRank DEF SpinEnd
<1>26. ASSUME NEW m \in Listener, Test(m), UNCHANGED calls PROVE G
  BY <1>26, ZeroRank DEF Test, DropHead
<1>27. ASSUME NEW m \in Listener, BarrierRead(m), UNCHANGED calls PROVE G
  BY <1>27, ZeroRank DEF BarrierRead, DropHead
<1>28. ASSUME NEW m \in Listener, DataRead(m), UNCHANGED calls PROVE G
  BY <1>28, ZeroRank DEF DataRead, DropHead
<1>29. ASSUME NEW m \in Listener, Clear(m), UNCHANGED calls PROVE G
  BY <1>29, ZeroRank DEF Clear
<1>30. ASSUME UNCHANGED vars PROVE G
  BY <1>30, VarsDef
<1> HIDE DEF G, Threads, TypeOK, mainVars, globals, srvVars, timeVars, StartClient,
             Control, Gathering, Clienting
<1>31. G
  BY Steps, <1>1, <1>2, <1>3, <1>4, <1>5, <1>6, <1>7, <1>8, <1>9, <1>10,
     <1>11, <1>12, <1>13, <1>14, <1>15, <1>16, <1>17, <1>18, <1>19, <1>20,
     <1>21, <1>22, <1>23, <1>24, <1>25, <1>26, <1>27, <1>28, <1>29, <1>30
<1> QED
  BY <1>31 DEF G

\* The arrivals a rank has sent grow by one with its connection, or not at
\* all.
LEMMA SentEffect ==
    ASSUME Threads, NEW r \in Others, [Next]_vars
    PROVE  \/ ArrivalSent(r)' = ArrivalSent(r)
           \/ ArrivalSent(r)' = ArrivalSent(r) + 1
<1> DEFINE G ==
           \/ ArrivalSent(r)' = ArrivalSent(r)
           \/ ArrivalSent(r)' = ArrivalSent(r) + 1
<1> USE DEF mainVars, globals, srvVars, timeVars, StartClient, Clienting,
            ArrivalSent
<1>i. i \in Others
  BY DEF Threads, TypeOK
<1>n. NumProc \in Nat /\ (\A k \in Others : k \in Rank /\ k \in Nat /\ k # 0 /\ k <= NumProc - 1)
  BY NumProcAssumption DEF Others, Rank
<1>m. /\ main \in [Rank -> MainPc] /\ barrier \in [Rank -> BOOLEAN]
      /\ entered \in [Rank -> Nat] /\ 0 \in Rank
  BY ZeroRank DEF Threads, TypeOK
<1>t. /\ main \in [Rank -> MainPc] /\ barrier \in [Rank -> BOOLEAN]
      /\ entered \in [Rank -> Nat] /\ 0 \in Rank
      /\ r \in Rank /\ r \in Nat /\ r # 0 /\ r <= NumProc - 1
      /\ i \in Rank /\ i \in Nat /\ i # 0 /\ i <= NumProc - 1 /\ NumProc \in Nat
  BY <1>i, <1>n, <1>m
<1>c. \A q \in Rank : barrier[q] => main[q] \in Clienting \cup
                              {"wait", "spin_ack", "reset", "lower", "dead"}
  BY DEF Threads, Control
<1>w. main[0] = "wait" => barrier[0]
  BY <1>t DEF Threads, Control

<1>1. ASSUME NEW q \in Rank, Launch(q), UNCHANGED calls PROVE G
  BY <1>1, <1>t, <1>c DEF Launch, StartBarrier, SpawnServers
<1>2. ASSUME NEW q \in Rank, InitWake(q), UNCHANGED calls PROVE G
  BY <1>2, <1>t, <1>c DEF InitWake, StartBarrier, SpawnServers, WakeUp
<1>3. ASSUME NEW q \in Rank, EnterBarrier(q), UNCHANGED calls PROVE G
  BY <1>3, <1>t, <1>c DEF EnterBarrier, WakeUp
<1>4. ASSUME NEW q \in Rank, Connect(q), UNCHANGED calls PROVE G
  BY <1>4, <1>t, <1>c DEF Connect
<1>5. ASSUME NEW q \in Rank, Refused(q), UNCHANGED calls PROVE G
  BY <1>5, <1>t, <1>c DEF Refused
<1>6. ASSUME NEW q \in Rank, Retry(q), UNCHANGED calls PROVE G
  BY <1>6, <1>t, <1>c DEF Retry, WakeUp
<1>7. ASSUME NEW q \in Rank, GiveUp(q), UNCHANGED calls PROVE G
  BY <1>7, <1>t, <1>c DEF GiveUp, WakeUp, Terminate
<1>8. ASSUME NEW q \in Rank, ArrivalWritten(q), UNCHANGED calls PROVE G
  BY <1>8, <1>t, <1>c DEF ArrivalWritten
<1>9. ASSUME NEW q \in Rank, AckSeen(q), UNCHANGED calls PROVE G
  BY <1>9, <1>t, <1>c DEF AckSeen
<1>10. ASSUME NEW q \in Rank, Reset(q), UNCHANGED calls PROVE G
  BY <1>10, <1>t, <1>c DEF Reset
<1>11. ASSUME NEW q \in Rank, Lower(q), UNCHANGED calls PROVE G
  BY <1>11, <1>t, <1>c DEF Lower
<1>12. ASSUME NEW q \in Rank, ExitBarrier(q), UNCHANGED calls PROVE G
  BY <1>12, <1>t, <1>c DEF ExitBarrier, WakeUp
<1>13. ASSUME NEW q \in Rank, DataWritten(q), UNCHANGED calls PROVE G
  BY <1>13, <1>t, <1>c DEF DataWritten
<1>14. ASSUME NEW q \in Rank, PostRecv(q), UNCHANGED calls PROVE G
  BY <1>14, <1>t, <1>c DEF PostRecv
<1>15. ASSUME NEW q \in Rank, RecvReturn(q), UNCHANGED calls PROVE G
  BY <1>15, <1>t, <1>c DEF RecvReturn
<1>16. ASSUME NEW q \in Rank, Send(q) PROVE G
  BY <1>16, <1>t, <1>c DEF Send, Working, MPI_Send
<1>17. ASSUME NEW q \in Rank, Recv(q) PROVE G
  BY <1>17, <1>t, <1>c DEF Recv, Working, MPI_Recv
<1>18. ASSUME NEW q \in Rank, MPI_Finalize(q) PROVE G
  BY <1>18, <1>t, <1>c DEF MPI_Finalize, StartBarrier
<1>19. ASSUME NEW q \in Rank, Exit(q) PROVE G
  BY <1>19, <1>t, <1>c DEF Exit, Terminate
<1>20. ASSUME WaitArrival, UNCHANGED calls PROVE G
  BY <1>20, <1>t, <1>c DEF WaitArrival, SendAck
<1>21. ASSUME AckWritten, UNCHANGED calls PROVE G
  BY <1>21, <1>t, <1>c DEF AckWritten, SendAck
<1>22. ASSUME Tick, UNCHANGED calls PROVE G
  BY <1>22, <1>t, <1>c DEF Tick
<1>23. ASSUME NEW m \in Listener, Bind(m), UNCHANGED calls PROVE G
  BY <1>23, <1>t, <1>c DEF Bind
<1>24. ASSUME NEW m \in Listener, Accept(m), UNCHANGED calls PROVE G
  BY <1>24, <1>t, <1>c DEF Accept
<1>25. ASSUME NEW m \in Listener, SpinEnd(m), UNCHANGED calls PROVE G
  BY <1>25, <1>t, <1>c DEF SpinEnd
<1>26. ASSUME NEW m \in Listener, Test(m), UNCHANGED calls PROVE G
  BY <1>26, <1>t, <1>c DEF Test, DropHead
<1>27. ASSUME NEW m \in Listener, BarrierRead(m), UNCHANGED calls PROVE G
  BY <1>27, <1>t, <1>c DEF BarrierRead, DropHead
<1>28. ASSUME NEW m \in Listener, DataRead(m), UNCHANGED calls PROVE G
  BY <1>28, <1>t, <1>c DEF DataRead, DropHead
<1>29. ASSUME NEW m \in Listener, Clear(m), UNCHANGED calls PROVE G
  BY <1>29, <1>t, <1>c DEF Clear
<1>30. ASSUME UNCHANGED vars PROVE G
  BY <1>30, VarsDef
<1> HIDE DEF G, mainVars, globals, srvVars, timeVars, StartClient, Clienting,
             ArrivalSent
<1>31. G
  BY Steps, <1>1, <1>2, <1>3, <1>4, <1>5, <1>6, <1>7, <1>8, <1>9, <1>10,
     <1>11, <1>12, <1>13, <1>14, <1>15, <1>16, <1>17, <1>18, <1>19, <1>20,
     <1>21, <1>22, <1>23, <1>24, <1>25, <1>26, <1>27, <1>28, <1>29, <1>30
<1> QED
  BY <1>31 DEF G

\* The acknowledgements sent to a rank grow with the connection to it.
LEMMA AckEffect ==
    ASSUME Threads, NEW r \in Others, [Next]_vars
    PROVE  \/ AckSent(r)' = AckSent(r)
           \/ /\ Connect(0) /\ barrier[0] /\ r = i
              /\ AckSent(r) = entered[0] - 1 /\ AckSent(r)' = entered[0]
<1> DEFINE G ==
           \/ AckSent(r)' = AckSent(r)
           \/ /\ Connect(0) /\ barrier[0] /\ r = i
              /\ AckSent(r) = entered[0] - 1 /\ AckSent(r)' = entered[0]
<1> USE DEF mainVars, globals, srvVars, timeVars, StartClient, Clienting, AckSent
<1>i. i \in Others
  BY DEF Threads, TypeOK
<1>n. NumProc \in Nat /\ (\A k \in Others : k \in Rank /\ k \in Nat /\ k # 0 /\ k <= NumProc - 1)
  BY NumProcAssumption DEF Others, Rank
<1>m. /\ main \in [Rank -> MainPc] /\ barrier \in [Rank -> BOOLEAN]
      /\ entered \in [Rank -> Nat] /\ 0 \in Rank
  BY ZeroRank DEF Threads, TypeOK
<1>t. /\ main \in [Rank -> MainPc] /\ barrier \in [Rank -> BOOLEAN]
      /\ entered \in [Rank -> Nat] /\ 0 \in Rank
      /\ r \in Rank /\ r \in Nat /\ r # 0 /\ r <= NumProc - 1
      /\ i \in Rank /\ i \in Nat /\ i # 0 /\ i <= NumProc - 1 /\ NumProc \in Nat
  BY <1>i, <1>n, <1>m
<1>c. \A q \in Rank : barrier[q] => main[q] \in Clienting \cup
                              {"wait", "spin_ack", "reset", "lower", "dead"}
  BY DEF Threads, Control
<1>w. main[0] = "wait" => barrier[0]
  BY <1>t DEF Threads, Control

<1>1. ASSUME NEW q \in Rank, Launch(q), UNCHANGED calls PROVE G
  BY <1>1, <1>t, <1>c, <1>w DEF Launch, StartBarrier, SpawnServers
<1>2. ASSUME NEW q \in Rank, InitWake(q), UNCHANGED calls PROVE G
  BY <1>2, <1>t, <1>c, <1>w DEF InitWake, StartBarrier, SpawnServers, WakeUp
<1>3. ASSUME NEW q \in Rank, EnterBarrier(q), UNCHANGED calls PROVE G
  BY <1>3, <1>t, <1>c, <1>w DEF EnterBarrier, WakeUp
<1>4. ASSUME NEW q \in Rank, Connect(q), UNCHANGED calls PROVE G
  <2>1. CASE q = 0 /\ barrier[0]
    BY <1>4, <1>t, <2>1 DEF Connect
  <2>2. CASE ~(q = 0 /\ barrier[0])
    BY <1>4, <1>t, <1>c, <2>2, SMTT(30) DEF Connect
  <2> QED
    BY <2>1, <2>2
<1>5. ASSUME NEW q \in Rank, Refused(q), UNCHANGED calls PROVE G
  BY <1>5, <1>t, <1>c, <1>w DEF Refused
<1>6. ASSUME NEW q \in Rank, Retry(q), UNCHANGED calls PROVE G
  BY <1>6, <1>t, <1>c, <1>w DEF Retry, WakeUp
<1>7. ASSUME NEW q \in Rank, GiveUp(q), UNCHANGED calls PROVE G
  BY <1>7, <1>t, <1>c, <1>w DEF GiveUp, WakeUp, Terminate
<1>8. ASSUME NEW q \in Rank, ArrivalWritten(q), UNCHANGED calls PROVE G
  BY <1>8, <1>t, <1>c, <1>w DEF ArrivalWritten
<1>9. ASSUME NEW q \in Rank, AckSeen(q), UNCHANGED calls PROVE G
  BY <1>9, <1>t, <1>c, <1>w DEF AckSeen
<1>10. ASSUME NEW q \in Rank, Reset(q), UNCHANGED calls PROVE G
  BY <1>10, <1>t, <1>c, <1>w DEF Reset
<1>11. ASSUME NEW q \in Rank, Lower(q), UNCHANGED calls PROVE G
  BY <1>11, <1>t, <1>c, <1>w DEF Lower
<1>12. ASSUME NEW q \in Rank, ExitBarrier(q), UNCHANGED calls PROVE G
  BY <1>12, <1>t, <1>c, <1>w DEF ExitBarrier, WakeUp
<1>13. ASSUME NEW q \in Rank, DataWritten(q), UNCHANGED calls PROVE G
  BY <1>13, <1>t, <1>c, <1>w DEF DataWritten
<1>14. ASSUME NEW q \in Rank, PostRecv(q), UNCHANGED calls PROVE G
  BY <1>14, <1>t, <1>c, <1>w DEF PostRecv
<1>15. ASSUME NEW q \in Rank, RecvReturn(q), UNCHANGED calls PROVE G
  BY <1>15, <1>t, <1>c, <1>w DEF RecvReturn
<1>16. ASSUME NEW q \in Rank, Send(q) PROVE G
  BY <1>16, <1>t, <1>c, <1>w DEF Send, Working, MPI_Send
<1>17. ASSUME NEW q \in Rank, Recv(q) PROVE G
  BY <1>17, <1>t, <1>c, <1>w DEF Recv, Working, MPI_Recv
<1>18. ASSUME NEW q \in Rank, MPI_Finalize(q) PROVE G
  BY <1>18, <1>t, <1>c, <1>w DEF MPI_Finalize, StartBarrier
<1>19. ASSUME NEW q \in Rank, Exit(q) PROVE G
  BY <1>19, <1>t, <1>c, <1>w DEF Exit, Terminate
<1>20. ASSUME WaitArrival, UNCHANGED calls PROVE G
  BY <1>20, <1>t, <1>c, <1>w DEF WaitArrival, SendAck
<1>21. ASSUME AckWritten, UNCHANGED calls PROVE G
  BY <1>21, <1>t, <1>c, <1>w DEF AckWritten, SendAck
<1>22. ASSUME Tick, UNCHANGED calls PROVE G
  BY <1>22, <1>t, <1>c, <1>w DEF Tick
<1>23. ASSUME NEW m \in Listener, Bind(m), UNCHANGED calls PROVE G
  BY <1>23, <1>t, <1>c, <1>w DEF Bind
<1>24. ASSUME NEW m \in Listener, Accept(m), UNCHANGED calls PROVE G
  BY <1>24, <1>t, <1>c, <1>w DEF Accept
<1>25. ASSUME NEW m \in Listener, SpinEnd(m), UNCHANGED calls PROVE G
  BY <1>25, <1>t, <1>c, <1>w DEF SpinEnd
<1>26. ASSUME NEW m \in Listener, Test(m), UNCHANGED calls PROVE G
  BY <1>26, <1>t, <1>c, <1>w DEF Test, DropHead
<1>27. ASSUME NEW m \in Listener, BarrierRead(m), UNCHANGED calls PROVE G
  BY <1>27, <1>t, <1>c, <1>w DEF BarrierRead, DropHead
<1>28. ASSUME NEW m \in Listener, DataRead(m), UNCHANGED calls PROVE G
  BY <1>28, <1>t, <1>c, <1>w DEF DataRead, DropHead
<1>29. ASSUME NEW m \in Listener, Clear(m), UNCHANGED calls PROVE G
  BY <1>29, <1>t, <1>c, <1>w DEF Clear
<1>30. ASSUME UNCHANGED vars PROVE G
  BY <1>30, VarsDef
<1> HIDE DEF G, mainVars, globals, srvVars, timeVars, StartClient, Clienting,
             AckSent
<1>31. G
  BY Steps, <1>1, <1>2, <1>3, <1>4, <1>5, <1>6, <1>7, <1>8, <1>9, <1>10,
     <1>11, <1>12, <1>13, <1>14, <1>15, <1>16, <1>17, <1>18, <1>19, <1>20,
     <1>21, <1>22, <1>23, <1>24, <1>25, <1>26, <1>27, <1>28, <1>29, <1>30
<1> QED
  BY <1>31 DEF G

\* The data messages rank 0 has sent grow by one with its connection.
LEMMA DataSentEffect ==
    ASSUME Threads, [Next]_vars
    PROVE  \/ DataSent' = DataSent
           \/ Connect(0) /\ ~barrier[0] /\ DataSent' = DataSent + 1
<1> DEFINE G ==
           \/ DataSent' = DataSent
           \/ Connect(0) /\ ~barrier[0] /\ DataSent' = DataSent + 1
<1> USE DEF mainVars, globals, srvVars, timeVars, StartClient, Clienting, DataSent
<1>z. 0 \in Rank /\ 0 < Half /\ Partner(0) # 0
  BY ZeroRank, HalfOther, PartnerFacts
<1>t. /\ main \in [Rank -> MainPc] /\ barrier \in [Rank -> BOOLEAN]
      /\ entered \in [Rank -> Nat] /\ left \in [Rank -> Nat]
      /\ calls \in [Rank -> Nat]
  BY MainTypes DEF Threads
<1>c. /\ barrier[0] => main[0] \in {"connect", "write", "retry", "wait", "spin_ack", "reset", "lower", "dead"}
      /\ main[0] \in {"wait", "reset", "lower"} => barrier[0]
      /\ left[0] = 0 => calls[0] = 0
      /\ main[0] = "lower" => entered[0] = left[0] + 1
      /\ ~barrier[0] /\ main[0] \in {"connect", "write", "retry"} => left[0] = 1
  BY <1>z DEF Threads, Control, Clienting
<1>p. /\ (0 + 1) \div 2 = 0 /\ calls[0] \in Nat
      /\ \A c \in Nat : /\ (c + 1) \div 2 \in Nat
                        /\ c % 2 = 0 => ((c + 1) + 1) \div 2 = ((c + 1) \div 2) + 1
                        /\ c % 2 # 0 => ((c + 1) + 1) \div 2 = (c + 1) \div 2
  BY Parity, <1>t, <1>z

<1>1. ASSUME NEW q \in Rank, Launch(q), UNCHANGED calls PROVE G
  BY <1>1, <1>t, <1>z, <1>c, <1>p DEF Launch, StartBarrier, SpawnServers
<1>2. ASSUME NEW q \in Rank, InitWake(q), UNCHANGED calls PROVE G
  BY <1>2, <1>t, <1>z, <1>c, <1>p DEF InitWake, StartBarrier, SpawnServers, WakeUp
<1>3. ASSUME NEW q \in Rank, EnterBarrier(q), UNCHANGED calls PROVE G
  BY <1>3, <1>t, <1>z, <1>c, <1>p DEF EnterBarrier, WakeUp
<1>4. ASSUME NEW q \in Rank, Connect(q), UNCHANGED calls PROVE G
  <2>1. CASE q = 0 /\ ~barrier[0]
    BY <1>4, <2>1, <1>t, <1>z, <1>c, <1>p DEF Connect
  <2>2. CASE ~(q = 0 /\ ~barrier[0])
    BY <1>4, <2>2, <1>t, <1>z, SMTT(30) DEF Connect
  <2> QED
    BY <2>1, <2>2
<1>5. ASSUME NEW q \in Rank, Refused(q), UNCHANGED calls PROVE G
  BY <1>5, <1>t, <1>z, <1>c, <1>p DEF Refused
<1>6. ASSUME NEW q \in Rank, Retry(q), UNCHANGED calls PROVE G
  BY <1>6, <1>t, <1>z, <1>c, <1>p DEF Retry, WakeUp
<1>7. ASSUME NEW q \in Rank, GiveUp(q), UNCHANGED calls PROVE G
  BY <1>7, <1>t, <1>z, <1>c, <1>p DEF GiveUp, WakeUp, Terminate
<1>8. ASSUME NEW q \in Rank, ArrivalWritten(q), UNCHANGED calls PROVE G
  BY <1>8, <1>t, <1>z, <1>c, <1>p DEF ArrivalWritten
<1>9. ASSUME NEW q \in Rank, AckSeen(q), UNCHANGED calls PROVE G
  BY <1>9, <1>t, <1>z, <1>c, <1>p DEF AckSeen
<1>10. ASSUME NEW q \in Rank, Reset(q), UNCHANGED calls PROVE G
  BY <1>10, <1>t, <1>z, <1>c, <1>p DEF Reset
<1>11. ASSUME NEW q \in Rank, Lower(q), UNCHANGED calls PROVE G
  BY <1>11, <1>t, <1>z, <1>c, <1>p DEF Lower
<1>12. ASSUME NEW q \in Rank, ExitBarrier(q), UNCHANGED calls PROVE G
  BY <1>12, <1>t, <1>z, <1>c, <1>p DEF ExitBarrier, WakeUp
<1>13. ASSUME NEW q \in Rank, DataWritten(q), UNCHANGED calls PROVE G
  BY <1>13, <1>t, <1>z, <1>c, <1>p DEF DataWritten
<1>14. ASSUME NEW q \in Rank, PostRecv(q), UNCHANGED calls PROVE G
  BY <1>14, <1>t, <1>z, <1>c, <1>p DEF PostRecv
<1>15. ASSUME NEW q \in Rank, RecvReturn(q), UNCHANGED calls PROVE G
  BY <1>15, <1>t, <1>z, <1>c, <1>p DEF RecvReturn
<1>16. ASSUME NEW q \in Rank, Send(q) PROVE G
  <2>1. CASE q = 0
    <3>1. /\ main[0] = "app" /\ main[0]' = "connect" /\ barrier' = barrier /\ left' = left
          /\ calls'[0] = calls[0] + 1 /\ left[0] = 1
      BY <1>16, <2>1, <1>t, <1>z DEF Send, Working, MPI_Send
    <3>2. calls[0] % 2 = 0
      BY <1>16, <2>1, <1>z DEF Send, IsSend
    <3> QED
      BY <3>1, <3>2, <1>z, <1>c, <1>p
  <2>2. CASE q # 0
    BY <1>16, <2>2, <1>t, <1>z DEF Send, Working, MPI_Send
  <2> QED
    BY <2>1, <2>2
<1>17. ASSUME NEW q \in Rank, Recv(q) PROVE G
  <2>1. CASE q = 0
    <3>1. /\ main[0] = "app" /\ main[0]' = "post" /\ barrier' = barrier /\ left' = left
          /\ calls'[0] = calls[0] + 1 /\ left[0] = 1
      BY <1>17, <2>1, <1>t, <1>z DEF Recv, Working, MPI_Recv
    <3>2. calls[0] % 2 # 0
      BY <1>17, <2>1, <1>z DEF Recv, IsSend
    <3> QED
      BY <3>1, <3>2, <1>z, <1>c, <1>p
  <2>2. CASE q # 0
    BY <1>17, <2>2, <1>t, <1>z DEF Recv, Working, MPI_Recv
  <2> QED
    BY <2>1, <2>2
<1>18. ASSUME NEW q \in Rank, MPI_Finalize(q) PROVE G
  BY <1>18, <1>t, <1>z, <1>c, <1>p DEF MPI_Finalize, StartBarrier
<1>19. ASSUME NEW q \in Rank, Exit(q) PROVE G
  BY <1>19, <1>t, <1>z, <1>c, <1>p DEF Exit, Terminate
<1>20. ASSUME WaitArrival, UNCHANGED calls PROVE G
  BY <1>20, <1>t, <1>z, <1>c, <1>p DEF WaitArrival, SendAck
<1>21. ASSUME AckWritten, UNCHANGED calls PROVE G
  BY <1>21, <1>t, <1>z, <1>c, <1>p DEF AckWritten, SendAck
<1>22. ASSUME Tick, UNCHANGED calls PROVE G
  BY <1>22, <1>t, <1>z, <1>c, <1>p DEF Tick
<1>23. ASSUME NEW m \in Listener, Bind(m), UNCHANGED calls PROVE G
  BY <1>23, <1>t, <1>z, <1>c, <1>p DEF Bind
<1>24. ASSUME NEW m \in Listener, Accept(m), UNCHANGED calls PROVE G
  BY <1>24, <1>t, <1>z, <1>c, <1>p DEF Accept
<1>25. ASSUME NEW m \in Listener, SpinEnd(m), UNCHANGED calls PROVE G
  BY <1>25, <1>t, <1>z, <1>c, <1>p DEF SpinEnd
<1>26. ASSUME NEW m \in Listener, Test(m), UNCHANGED calls PROVE G
  BY <1>26, <1>t, <1>z, <1>c, <1>p DEF Test, DropHead
<1>27. ASSUME NEW m \in Listener, BarrierRead(m), UNCHANGED calls PROVE G
  BY <1>27, <1>t, <1>z, <1>c, <1>p DEF BarrierRead, DropHead
<1>28. ASSUME NEW m \in Listener, DataRead(m), UNCHANGED calls PROVE G
  BY <1>28, <1>t, <1>z, <1>c, <1>p DEF DataRead, DropHead
<1>29. ASSUME NEW m \in Listener, Clear(m), UNCHANGED calls PROVE G
  BY <1>29, <1>t, <1>z, <1>c, <1>p DEF Clear
<1>30. ASSUME UNCHANGED vars PROVE G
  BY <1>30, VarsDef
<1> HIDE DEF G, mainVars, globals, srvVars, timeVars, StartClient, Clienting,
             DataSent
<1>31. G
  BY Steps, <1>1, <1>2, <1>3, <1>4, <1>5, <1>6, <1>7, <1>8, <1>9, <1>10,
     <1>11, <1>12, <1>13, <1>14, <1>15, <1>16, <1>17, <1>18, <1>19, <1>20,
     <1>21, <1>22, <1>23, <1>24, <1>25, <1>26, <1>27, <1>28, <1>29, <1>30
<1> QED
  BY <1>31 DEF G

\* A rank sees the end of an episode by a message with a zero, read in the
\* barrier.
LEMMA SeenEffect ==
    ASSUME Threads, NEW r \in Others, [Next]_vars
    PROVE  \/ Seen(r)' \in Int /\ Seen(r)' <= Seen(r)
           \/ EnterBarrier(r) /\ glob[r][0] = 0
           \/ /\ BarrierRead(<<r, 0>>) /\ Head(conn[<<r, 0>>]).first = 0
              /\ barrier[r] /\ Seen(r)' = entered[r]
<1> DEFINE G ==
           \/ Seen(r)' \in Int /\ Seen(r)' <= Seen(r)
           \/ EnterBarrier(r) /\ glob[r][0] = 0
           \/ /\ BarrierRead(<<r, 0>>) /\ Head(conn[<<r, 0>>]).first = 0
              /\ barrier[r] /\ Seen(r)' = entered[r]
<1> USE DEF mainVars, globals, srvVars, timeVars, StartClient, Clienting, Seen
<1>t. /\ main \in [Rank -> MainPc] /\ barrier \in [Rank -> BOOLEAN]
      /\ entered \in [Rank -> Nat] /\ 0 \in Rank /\ r \in Rank /\ r # 0
      /\ glob \in [Rank -> [Rank -> Rank \cup {-1}]]
  BY ZeroRank, MainTypes DEF Threads
<1>c. /\ barrier[r] => main[r] \in {"connect", "write", "retry", "wait", "spin_ack", "reset", "lower", "dead"}
      /\ main[r] \in {"wait", "spin_ack", "reset", "lower"} => barrier[r]
  BY <1>t DEF Threads, Control, Clienting

<1>1. ASSUME NEW q \in Rank, Launch(q), UNCHANGED calls PROVE G
  BY <1>1, <1>t, <1>c DEF Launch, StartBarrier, SpawnServers
<1>2. ASSUME NEW q \in Rank, InitWake(q), UNCHANGED calls PROVE G
  BY <1>2, <1>t, <1>c DEF InitWake, StartBarrier, SpawnServers, WakeUp
<1>3. ASSUME NEW q \in Rank, EnterBarrier(q), UNCHANGED calls PROVE G
  <2>1. CASE q = r
    <3>1. CASE glob[r][0] = 0
      BY <1>3, <2>1, <3>1
    <3>2. CASE glob[r][0] # 0
      <4>1. /\ main[r] = "bar_sleep" /\ glob' = glob
            /\ entered'[r] = entered[r] + 1
            /\ barrier'[r] = TRUE
        BY <1>3, <2>1, <1>t DEF EnterBarrier
      <4>2. main'[r] = "connect"
        BY <1>3, <2>1, <1>t DEF EnterBarrier
      <4>3. Seen(r) = entered[r]
        BY <4>1, <1>c, <1>t
      <4>4. Seen(r)' = entered[r]
        BY <4>1, <4>2, <3>2, <1>t
      <4> QED
        BY <4>3, <4>4, <1>t
    <3> QED
      BY <3>1, <3>2
  <2>2. CASE q # r
    <3>1. /\ main'[r] = main[r] /\ glob' = glob
          /\ entered'[r] = entered[r] /\ barrier'[r] = barrier[r]
      <4>1. CASE q = 0
        BY <1>3, <2>2, <4>1, <1>t DEF EnterBarrier
      <4>2. CASE q # 0
        BY <1>3, <2>2, <4>2, <1>t DEF EnterBarrier
      <4> QED
        BY <4>1, <4>2
    <3> QED
      BY <3>1, <1>t, SMTT(30)
  <2> QED
    BY <2>1, <2>2
<1>4. ASSUME NEW q \in Rank, Connect(q), UNCHANGED calls PROVE G
  BY <1>4, <1>t, <1>c DEF Connect
<1>5. ASSUME NEW q \in Rank, Refused(q), UNCHANGED calls PROVE G
  BY <1>5, <1>t, <1>c DEF Refused
<1>6. ASSUME NEW q \in Rank, Retry(q), UNCHANGED calls PROVE G
  BY <1>6, <1>t, <1>c DEF Retry, WakeUp
<1>7. ASSUME NEW q \in Rank, GiveUp(q), UNCHANGED calls PROVE G
  BY <1>7, <1>t, <1>c DEF GiveUp, WakeUp, Terminate
<1>8. ASSUME NEW q \in Rank, ArrivalWritten(q), UNCHANGED calls PROVE G
  BY <1>8, <1>t, <1>c DEF ArrivalWritten
<1>9. ASSUME NEW q \in Rank, AckSeen(q), UNCHANGED calls PROVE G
  BY <1>9, <1>t, <1>c DEF AckSeen
<1>10. ASSUME NEW q \in Rank, Reset(q), UNCHANGED calls PROVE G
  BY <1>10, <1>t, <1>c DEF Reset
<1>11. ASSUME NEW q \in Rank, Lower(q), UNCHANGED calls PROVE G
  BY <1>11, <1>t, <1>c DEF Lower
<1>12. ASSUME NEW q \in Rank, ExitBarrier(q), UNCHANGED calls PROVE G
  BY <1>12, <1>t, <1>c DEF ExitBarrier, WakeUp
<1>13. ASSUME NEW q \in Rank, DataWritten(q), UNCHANGED calls PROVE G
  BY <1>13, <1>t, <1>c DEF DataWritten
<1>14. ASSUME NEW q \in Rank, PostRecv(q), UNCHANGED calls PROVE G
  BY <1>14, <1>t, <1>c DEF PostRecv
<1>15. ASSUME NEW q \in Rank, RecvReturn(q), UNCHANGED calls PROVE G
  BY <1>15, <1>t, <1>c DEF RecvReturn
<1>16. ASSUME NEW q \in Rank, Send(q) PROVE G
  BY <1>16, <1>t, <1>c DEF Send, Working, MPI_Send
<1>17. ASSUME NEW q \in Rank, Recv(q) PROVE G
  BY <1>17, <1>t, <1>c DEF Recv, Working, MPI_Recv
<1>18. ASSUME NEW q \in Rank, MPI_Finalize(q) PROVE G
  BY <1>18, <1>t, <1>c DEF MPI_Finalize, StartBarrier
<1>19. ASSUME NEW q \in Rank, Exit(q) PROVE G
  BY <1>19, <1>t, <1>c DEF Exit, Terminate
<1>20. ASSUME WaitArrival, UNCHANGED calls PROVE G
  BY <1>20, <1>t, <1>c DEF WaitArrival, SendAck
<1>21. ASSUME AckWritten, UNCHANGED calls PROVE G
  BY <1>21, <1>t, <1>c DEF AckWritten, SendAck
<1>22. ASSUME Tick, UNCHANGED calls PROVE G
  BY <1>22, <1>t, <1>c DEF Tick
<1>23. ASSUME NEW m \in Listener, Bind(m), UNCHANGED calls PROVE G
  BY <1>23, <1>t, <1>c DEF Bind
<1>24. ASSUME NEW m \in Listener, Accept(m), UNCHANGED calls PROVE G
  BY <1>24, <1>t, <1>c DEF Accept
<1>25. ASSUME NEW m \in Listener, SpinEnd(m), UNCHANGED calls PROVE G
  BY <1>25, <1>t, <1>c DEF SpinEnd
<1>26. ASSUME NEW m \in Listener, Test(m), UNCHANGED calls PROVE G
  BY <1>26, <1>t, <1>c DEF Test, DropHead
<1>27. ASSUME NEW m \in Listener, BarrierRead(m), UNCHANGED calls PROVE G
  <2>1. /\ main' = main /\ entered' = entered /\ barrier' = barrier
    BY <1>27 DEF BarrierRead
  <2>2. CASE glob'[r][0] = glob[r][0]
    BY <2>1, <2>2, <1>t
  <2>3. CASE glob'[r][0] # glob[r][0]
    <3>1. /\ BarrierRead(<<r, 0>>) /\ glob'[r][0] = Head(conn[<<r, 0>>]).first
      BY GlobEffect, <1>27, <1>t, <2>3, <2>1 DEF Reset
    <3>2. CASE barrier[r] /\ Head(conn[<<r, 0>>]).first = 0 /\ main[r] \notin {"reset", "lower"}
      BY <3>1, <3>2, <2>1, <1>t
    <3>3. CASE ~(barrier[r] /\ Head(conn[<<r, 0>>]).first = 0 /\ main[r] \notin {"reset", "lower"})
      BY <3>1, <3>3, <2>1, <1>t
    <3> QED
      BY <3>2, <3>3
  <2> QED
    BY <2>2, <2>3
<1>28. ASSUME NEW m \in Listener, DataRead(m), UNCHANGED calls PROVE G
  BY <1>28, <1>t, <1>c DEF DataRead, DropHead
<1>29. ASSUME NEW m \in Listener, Clear(m), UNCHANGED calls PROVE G
  BY <1>29, <1>t, <1>c DEF Clear
<1>30. ASSUME UNCHANGED vars PROVE G
  BY <1>30, VarsDef, <1>t
<1> HIDE DEF G, mainVars, globals, srvVars, timeVars, StartClient, Clienting, Seen
<1>31. G
  BY Steps, <1>1, <1>2, <1>3, <1>4, <1>5, <1>6, <1>7, <1>8, <1>9, <1>10,
     <1>11, <1>12, <1>13, <1>14, <1>15, <1>16, <1>17, <1>18, <1>19, <1>20,
     <1>21, <1>22, <1>23, <1>24, <1>25, <1>26, <1>27, <1>28, <1>29, <1>30
<1> QED
  BY <1>31 DEF G

\* A receive of rank Half uses up the message its server thread reads.
LEMMA TakenEffect ==
    ASSUME Threads, [Next]_vars
    PROVE  \/ Taken(Half)' \in Int /\ Taken(Half)' <= Taken(Half)
           \/ DataRead(<<Half, 0>>) /\ Taken(Half)' = Taken(Half) + 1
           \/ /\ BarrierRead(<<Half, 0>>) /\ Head(conn[<<Half, 0>>]).first = 0
              /\ main[Half] = "lower" \/ ~barrier[Half]
              /\ Taken(Half)' = Taken(Half) + 1
<1> DEFINE G ==
           \/ Taken(Half)' \in Int /\ Taken(Half)' <= Taken(Half)
           \/ DataRead(<<Half, 0>>) /\ Taken(Half)' = Taken(Half) + 1
           \/ /\ BarrierRead(<<Half, 0>>) /\ Head(conn[<<Half, 0>>]).first = 0
              /\ main[Half] = "lower" \/ ~barrier[Half]
              /\ Taken(Half)' = Taken(Half) + 1
<1> USE DEF mainVars, globals, srvVars, timeVars, StartClient, Clienting, Taken
<1>h. 0 \in Rank /\ Half \in Rank /\ Half # 0 /\ <<Half, 0>> \in Listener /\ Partner(Half) # Half
  BY ZeroRank, HalfOther, ListenerFacts, PartnerFacts
<1>t. /\ main \in [Rank -> MainPc] /\ barrier \in [Rank -> BOOLEAN]
      /\ calls \in [Rank -> Nat] /\ rcv_flag \in [Rank -> BOOLEAN]
      /\ glob \in [Rank -> [Rank -> Rank \cup {-1}]]
      /\ srv \in [Listener -> SrvPc]
  BY MainTypes DEF Threads
<1>c. /\ barrier[Half] => main[Half] \in {"connect", "write", "retry", "wait", "spin_ack", "reset", "lower", "dead"}
      /\ main[Half] \in {"wait", "spin_ack", "reset", "lower"} => barrier[Half]
  BY <1>h DEF Threads, Control, Clienting
<1>p. /\ calls[Half] \in Nat
      /\ \A c \in Nat : /\ (c + 1) \div 2 \in Nat
                        /\ c % 2 = 0 => ((c + 1) + 1) \div 2 = ((c + 1) \div 2) + 1
                        /\ c % 2 # 0 => ((c + 1) + 1) \div 2 = (c + 1) \div 2
  BY Parity, <1>t, <1>h

<1>1. ASSUME NEW q \in Rank, Launch(q), UNCHANGED calls PROVE G
  BY <1>1, <1>t, <1>h, <1>c, <1>p DEF Launch, StartBarrier, SpawnServers
<1>2. ASSUME NEW q \in Rank, InitWake(q), UNCHANGED calls PROVE G
  BY <1>2, <1>t, <1>h, <1>c, <1>p DEF InitWake, StartBarrier, SpawnServers, WakeUp
<1>3. ASSUME NEW q \in Rank, EnterBarrier(q), UNCHANGED calls PROVE G
  BY <1>3, <1>t, <1>h, <1>c, <1>p DEF EnterBarrier, WakeUp
<1>4. ASSUME NEW q \in Rank, Connect(q), UNCHANGED calls PROVE G
  BY <1>4, <1>t, <1>h, <1>c, <1>p DEF Connect
<1>5. ASSUME NEW q \in Rank, Refused(q), UNCHANGED calls PROVE G
  BY <1>5, <1>t, <1>h, <1>c, <1>p DEF Refused
<1>6. ASSUME NEW q \in Rank, Retry(q), UNCHANGED calls PROVE G
  BY <1>6, <1>t, <1>h, <1>c, <1>p DEF Retry, WakeUp
<1>7. ASSUME NEW q \in Rank, GiveUp(q), UNCHANGED calls PROVE G
  BY <1>7, <1>t, <1>h, <1>c, <1>p DEF GiveUp, WakeUp, Terminate
<1>8. ASSUME NEW q \in Rank, ArrivalWritten(q), UNCHANGED calls PROVE G
  BY <1>8, <1>t, <1>h, <1>c, <1>p DEF ArrivalWritten
<1>9. ASSUME NEW q \in Rank, AckSeen(q), UNCHANGED calls PROVE G
  BY <1>9, <1>t, <1>h, <1>c, <1>p DEF AckSeen
<1>10. ASSUME NEW q \in Rank, Reset(q), UNCHANGED calls PROVE G
  BY <1>10, <1>t, <1>h, <1>c, <1>p DEF Reset
<1>11. ASSUME NEW q \in Rank, Lower(q), UNCHANGED calls PROVE G
  BY <1>11, <1>t, <1>h, <1>c, <1>p DEF Lower
<1>12. ASSUME NEW q \in Rank, ExitBarrier(q), UNCHANGED calls PROVE G
  BY <1>12, <1>t, <1>h, <1>c, <1>p DEF ExitBarrier, WakeUp
<1>13. ASSUME NEW q \in Rank, DataWritten(q), UNCHANGED calls PROVE G
  BY <1>13, <1>t, <1>h, <1>c, <1>p DEF DataWritten
<1>14. ASSUME NEW q \in Rank, PostRecv(q), UNCHANGED calls PROVE G
  BY <1>14, <1>t, <1>h, <1>c, <1>p DEF PostRecv
<1>15. ASSUME NEW q \in Rank, RecvReturn(q), UNCHANGED calls PROVE G
  BY <1>15, <1>t, <1>h, <1>c, <1>p DEF RecvReturn
<1>16. ASSUME NEW q \in Rank, Send(q) PROVE G
  <2>1. CASE q = Half
    <3>1. /\ main[Half] = "app" /\ main'[Half] = "connect" /\ barrier' = barrier
          /\ calls'[Half] = calls[Half] + 1 /\ srv' = srv /\ glob' = glob
      BY <1>16, <2>1, <1>t, <1>h DEF Send, Working, MPI_Send
    <3>2. calls[Half] % 2 # 0
      BY <1>16, <2>1, <1>h, HalfOther DEF Send, IsSend
    <3>3. (calls'[Half] + 1) \div 2 = (calls[Half] + 1) \div 2
      BY <3>1, <3>2, <1>p
    <3> QED
      BY <3>1, <3>3, <1>h, <1>t, <1>c, <1>p, SMTT(30)
  <2>2. CASE q # Half
    <3>1. /\ main'[Half] = main[Half] /\ barrier' = barrier /\ rcv_flag' = rcv_flag
          /\ calls'[Half] = calls[Half] /\ srv' = srv /\ glob' = glob
      BY <1>16, <2>2, <1>t, <1>h DEF Send, Working, MPI_Send
    <3> QED
      BY <3>1, <1>h, <1>t, <1>p
  <2> QED
    BY <2>1, <2>2
<1>17. ASSUME NEW q \in Rank, Recv(q) PROVE G
  <2>1. CASE q = Half
    <3>1. /\ main[Half] = "app" /\ main'[Half] = "post" /\ barrier' = barrier
          /\ calls'[Half] = calls[Half] + 1 /\ srv' = srv /\ glob' = glob
      BY <1>17, <2>1, <1>t, <1>h DEF Recv, Working, MPI_Recv
    <3>2. calls[Half] % 2 = 0
      BY <1>17, <2>1, <1>h, HalfOther DEF Recv, IsSend
    <3> QED
      BY <3>1, <3>2, <1>h, <1>t, <1>c, <1>p, SMTT(30)
  <2>2. CASE q # Half
    <3>1. /\ main'[Half] = main[Half] /\ barrier' = barrier /\ rcv_flag' = rcv_flag
          /\ calls'[Half] = calls[Half] /\ srv' = srv /\ glob' = glob
      BY <1>17, <2>2, <1>t, <1>h DEF Recv, Working, MPI_Recv
    <3> QED
      BY <3>1, <1>h, <1>t, <1>p
  <2> QED
    BY <2>1, <2>2
<1>18. ASSUME NEW q \in Rank, MPI_Finalize(q) PROVE G
  BY <1>18, <1>t, <1>h, <1>c, <1>p DEF MPI_Finalize, StartBarrier
<1>19. ASSUME NEW q \in Rank, Exit(q) PROVE G
  BY <1>19, <1>t, <1>h, <1>c, <1>p DEF Exit, Terminate
<1>20. ASSUME WaitArrival, UNCHANGED calls PROVE G
  BY <1>20, <1>t, <1>h, <1>c, <1>p DEF WaitArrival, SendAck
<1>21. ASSUME AckWritten, UNCHANGED calls PROVE G
  BY <1>21, <1>t, <1>h, <1>c, <1>p DEF AckWritten, SendAck
<1>22. ASSUME Tick, UNCHANGED calls PROVE G
  BY <1>22, <1>t, <1>h, <1>c, <1>p DEF Tick
<1>23. ASSUME NEW m \in Listener, Bind(m), UNCHANGED calls PROVE G
  BY <1>23, <1>t, <1>h, <1>c, <1>p DEF Bind
<1>24. ASSUME NEW m \in Listener, Accept(m), UNCHANGED calls PROVE G
  BY <1>24, <1>t, <1>h, <1>c, <1>p DEF Accept
<1>25. ASSUME NEW m \in Listener, SpinEnd(m), UNCHANGED calls PROVE G
  BY <1>25, <1>t, <1>h, <1>c, <1>p DEF SpinEnd
<1>26. ASSUME NEW m \in Listener, Test(m), UNCHANGED calls PROVE G
  BY <1>26, <1>t, <1>h, <1>c, <1>p DEF Test, DropHead
<1>27. ASSUME NEW m \in Listener, BarrierRead(m), UNCHANGED calls PROVE G
  <2>1. /\ main' = main /\ barrier' = barrier /\ rcv_flag' = rcv_flag /\ calls' = calls
    BY <1>27 DEF BarrierRead
  <2>2. srv[m] = "barrier_read" /\ \E pc \in {"accept", "stuck"} : srv' = [srv EXCEPT ![m] = pc]
    BY <1>27 DEF BarrierRead
  <2>3. srv'[<<Half, 0>>] = "clear" <=> srv[<<Half, 0>>] = "clear"
    BY <2>2, <1>t, <1>h
  <2>4. CASE glob'[Half][0] = glob[Half][0]
    BY <2>1, <2>3, <2>4, <1>p
  <2>5. CASE glob'[Half][0] # glob[Half][0]
    <3>1. /\ BarrierRead(<<Half, 0>>) /\ glob'[Half][0] = Head(conn[<<Half, 0>>]).first
      BY GlobEffect, <1>27, <1>h, <1>t, <2>5, <2>1 DEF Reset
    <3>2. CASE Head(conn[<<Half, 0>>]).first = 0 /\ (main[Half] = "lower" \/ ~barrier[Half])
      BY <3>1, <3>2, <2>1, <2>3, <2>5, <1>t, <1>p
    <3>3. CASE ~(Head(conn[<<Half, 0>>]).first = 0 /\ (main[Half] = "lower" \/ ~barrier[Half]))
      BY <3>1, <3>3, <2>1, <2>3, <1>t, <1>p
    <3> QED
      BY <3>2, <3>3
  <2> QED
    BY <2>4, <2>5
<1>28. ASSUME NEW m \in Listener, DataRead(m), UNCHANGED calls PROVE G
  <2>1. /\ main' = main /\ barrier' = barrier /\ rcv_flag' = rcv_flag /\ calls' = calls
        /\ glob' = glob
    BY <1>28 DEF DataRead
  <2>2. srv[m] = "data_read" /\ \E pc \in {"clear", "stuck"} : srv' = [srv EXCEPT ![m] = pc]
    BY <1>28 DEF DataRead
  <2>3. CASE m = <<Half, 0>>
    <3>1. srv[<<Half, 0>>] # "clear" /\ DataRead(<<Half, 0>>)
      BY <1>28, <2>2, <2>3
    <3> QED
      BY <3>1, <2>1, <1>p
  <2>4. CASE m # <<Half, 0>>
    <3>1. srv'[<<Half, 0>>] = srv[<<Half, 0>>]
      BY <2>2, <2>4, <1>t, <1>h
    <3> QED
      BY <3>1, <2>1, <1>p
  <2> QED
    BY <2>3, <2>4
<1>29. ASSUME NEW m \in Listener, Clear(m), UNCHANGED calls PROVE G
  <2>1. /\ main' = main /\ barrier' = barrier /\ calls' = calls /\ glob' = glob
        /\ srv[m] = "clear" /\ srv' = [srv EXCEPT ![m] = "accept"]
        /\ rcv_flag' = [rcv_flag EXCEPT ![m[1]] = FALSE]
    BY <1>29 DEF Clear
  <2>2. CASE m = <<Half, 0>>
    <3>1. srv[<<Half, 0>>] = "clear" /\ srv'[<<Half, 0>>] = "accept"
      BY <2>1, <2>2, <1>t, <1>h
    <3> QED
      BY <3>1, <2>1, <1>p
  <2>3. CASE m # <<Half, 0>>
    <3>1. m[1] # Half
      <4>1. m[2] = 0 /\ m = <<m[1], m[2]>>
        BY <2>1, ListenerFacts DEF Threads, Serving
      <4> QED
        BY <4>1, <2>3
    <3>2. srv'[<<Half, 0>>] = srv[<<Half, 0>>] /\ rcv_flag'[Half] = rcv_flag[Half]
      BY <2>1, <2>3, <3>1, <1>t, <1>h
    <3> QED
      BY <3>2, <2>1, <1>p
  <2> QED
    BY <2>2, <2>3
<1>30. ASSUME UNCHANGED vars PROVE G
  BY <1>30, VarsDef, <1>t, <1>h, <1>p
<1> HIDE DEF G, mainVars, globals, srvVars, timeVars, StartClient, Clienting, Taken
<1>31. G
  BY Steps, <1>1, <1>2, <1>3, <1>4, <1>5, <1>6, <1>7, <1>8, <1>9, <1>10,
     <1>11, <1>12, <1>13, <1>14, <1>15, <1>16, <1>17, <1>18, <1>19, <1>20,
     <1>21, <1>22, <1>23, <1>24, <1>25, <1>26, <1>27, <1>28, <1>29, <1>30
<1> QED
  BY <1>31 DEF G

\* Rank 0 passes a rank only when it has recorded its arrival.
LEMMA GatheredEffect ==
    ASSUME Threads, NEW r \in Others, [Next]_vars
    PROVE  Gathered' \/ (main'[0] = "wait" /\ r < i')
             => Gathered \/ (main[0] = "wait" /\ r < i) \/ glob[0][r] = r
<1> DEFINE G ==
           Gathered' \/ (main'[0] = "wait" /\ r < i')
             => Gathered \/ (main[0] = "wait" /\ r < i) \/ glob[0][r] = r
<1> USE DEF mainVars, globals, srvVars, timeVars, StartClient, Clienting, Gathered
<1>i. i \in Others
  BY DEF Threads, TypeOK
<1>n. NumProc \in Nat /\ (\A k \in Others : k \in Rank /\ k \in Nat /\ k # 0 /\ k <= NumProc - 1)
  BY NumProcAssumption DEF Others, Rank
<1>m. /\ main \in [Rank -> MainPc] /\ barrier \in [Rank -> BOOLEAN]
      /\ entered \in [Rank -> Nat] /\ 0 \in Rank
  BY ZeroRank DEF Threads, TypeOK
<1>t. /\ main \in [Rank -> MainPc] /\ barrier \in [Rank -> BOOLEAN]
      /\ entered \in [Rank -> Nat] /\ 0 \in Rank
      /\ r \in Rank /\ r \in Nat /\ r # 0 /\ r <= NumProc - 1
      /\ i \in Rank /\ i \in Nat /\ i # 0 /\ i <= NumProc - 1 /\ NumProc \in Nat
  BY <1>i, <1>n, <1>m
<1>c. \A q \in Rank : barrier[q] => main[q] \in Clienting \cup
                              {"wait", "spin_ack", "reset", "lower", "dead"}
  BY DEF Threads, Control
<1>w. main[0] \in {"wait", "reset", "lower"} => barrier[0]
  BY <1>t DEF Threads, Control
<1>s. main[0] # "spin_ack"
  BY <1>t DEF Threads, Control

<1>1. ASSUME NEW q \in Rank, Launch(q), UNCHANGED calls PROVE G
  BY <1>1, <1>t, <1>c DEF Launch, StartBarrier, SpawnServers
<1>2. ASSUME NEW q \in Rank, InitWake(q), UNCHANGED calls PROVE G
  BY <1>2, <1>t, <1>c DEF InitWake, StartBarrier, SpawnServers, WakeUp
<1>3. ASSUME NEW q \in Rank, EnterBarrier(q), UNCHANGED calls PROVE G
  BY <1>3, <1>t, <1>c DEF EnterBarrier, WakeUp
<1>4. ASSUME NEW q \in Rank, Connect(q), UNCHANGED calls PROVE G
  BY <1>4, <1>t, <1>c DEF Connect
<1>5. ASSUME NEW q \in Rank, Refused(q), UNCHANGED calls PROVE G
  BY <1>5, <1>t, <1>c DEF Refused
<1>6. ASSUME NEW q \in Rank, Retry(q), UNCHANGED calls PROVE G
  BY <1>6, <1>t, <1>c DEF Retry, WakeUp
<1>7. ASSUME NEW q \in Rank, GiveUp(q), UNCHANGED calls PROVE G
  BY <1>7, <1>t, <1>c DEF GiveUp, WakeUp, Terminate
<1>8. ASSUME NEW q \in Rank, ArrivalWritten(q), UNCHANGED calls PROVE G
  BY <1>8, <1>t, <1>c DEF ArrivalWritten
<1>9. ASSUME NEW q \in Rank, AckSeen(q), UNCHANGED calls PROVE G
  BY <1>9, <1>t, <1>c, <1>s DEF AckSeen
<1>10. ASSUME NEW q \in Rank, Reset(q), UNCHANGED calls PROVE G
  BY <1>10, <1>t, <1>c DEF Reset
<1>11. ASSUME NEW q \in Rank, Lower(q), UNCHANGED calls PROVE G
  BY <1>11, <1>t, <1>c DEF Lower
<1>12. ASSUME NEW q \in Rank, ExitBarrier(q), UNCHANGED calls PROVE G
  BY <1>12, <1>t, <1>c DEF ExitBarrier, WakeUp
<1>13. ASSUME NEW q \in Rank, DataWritten(q), UNCHANGED calls PROVE G
  BY <1>13, <1>t, <1>c DEF DataWritten
<1>14. ASSUME NEW q \in Rank, PostRecv(q), UNCHANGED calls PROVE G
  BY <1>14, <1>t, <1>c DEF PostRecv
<1>15. ASSUME NEW q \in Rank, RecvReturn(q), UNCHANGED calls PROVE G
  BY <1>15, <1>t, <1>c DEF RecvReturn
<1>16. ASSUME NEW q \in Rank, Send(q) PROVE G
  BY <1>16, <1>t, <1>c DEF Send, Working, MPI_Send
<1>17. ASSUME NEW q \in Rank, Recv(q) PROVE G
  BY <1>17, <1>t, <1>c DEF Recv, Working, MPI_Recv
<1>18. ASSUME NEW q \in Rank, MPI_Finalize(q) PROVE G
  BY <1>18, <1>t, <1>c DEF MPI_Finalize, StartBarrier
<1>19. ASSUME NEW q \in Rank, Exit(q) PROVE G
  BY <1>19, <1>t, <1>c DEF Exit, Terminate
<1>20. ASSUME WaitArrival, UNCHANGED calls PROVE G
  BY <1>20, <1>t, <1>c DEF WaitArrival, SendAck
<1>21. ASSUME AckWritten, UNCHANGED calls PROVE G
  BY <1>21, <1>t, <1>c DEF AckWritten, SendAck
<1>22. ASSUME Tick, UNCHANGED calls PROVE G
  BY <1>22, <1>t, <1>c DEF Tick
<1>23. ASSUME NEW m \in Listener, Bind(m), UNCHANGED calls PROVE G
  BY <1>23, <1>t, <1>c DEF Bind
<1>24. ASSUME NEW m \in Listener, Accept(m), UNCHANGED calls PROVE G
  BY <1>24, <1>t, <1>c DEF Accept
<1>25. ASSUME NEW m \in Listener, SpinEnd(m), UNCHANGED calls PROVE G
  BY <1>25, <1>t, <1>c DEF SpinEnd
<1>26. ASSUME NEW m \in Listener, Test(m), UNCHANGED calls PROVE G
  BY <1>26, <1>t, <1>c DEF Test, DropHead
<1>27. ASSUME NEW m \in Listener, BarrierRead(m), UNCHANGED calls PROVE G
  BY <1>27, <1>t, <1>c DEF BarrierRead, DropHead
<1>28. ASSUME NEW m \in Listener, DataRead(m), UNCHANGED calls PROVE G
  BY <1>28, <1>t, <1>c DEF DataRead, DropHead
<1>29. ASSUME NEW m \in Listener, Clear(m), UNCHANGED calls PROVE G
  BY <1>29, <1>t, <1>c DEF Clear
<1>30. ASSUME UNCHANGED vars PROVE G
  BY <1>30, VarsDef
<1> HIDE DEF G, mainVars, globals, srvVars, timeVars, StartClient, Clienting,
             Gathered
<1>31. G
  BY Steps, <1>1, <1>2, <1>3, <1>4, <1>5, <1>6, <1>7, <1>8, <1>9, <1>10,
     <1>11, <1>12, <1>13, <1>14, <1>15, <1>16, <1>17, <1>18, <1>19, <1>20,
     <1>21, <1>22, <1>23, <1>24, <1>25, <1>26, <1>27, <1>28, <1>29, <1>30
<1> QED
  BY <1>31 DEF G

\* A rank that has come to lower its barrier flag has just reset its entries.
LEMMA LowerEffect ==
    ASSUME Threads, NEW r \in Others, [Next]_vars
    PROVE  main'[r] = "lower" \/ ~barrier'[r]
             => main[r] = "lower" \/ ~barrier[r] \/ glob'[r][0] # 0
<1> DEFINE G ==
           main'[r] = "lower" \/ ~barrier'[r]
             => main[r] = "lower" \/ ~barrier[r] \/ glob'[r][0] # 0
<1> USE DEF mainVars, globals, srvVars, timeVars, StartClient, Clienting
<1>t. /\ main \in [Rank -> MainPc] /\ barrier \in [Rank -> BOOLEAN]
      /\ glob \in [Rank -> [Rank -> Rank \cup {-1}]]
      /\ 0 \in Rank /\ r \in Rank /\ r # 0
  BY ZeroRank, MainTypes DEF Threads

<1>1. ASSUME NEW q \in Rank, Launch(q), UNCHANGED calls PROVE G
  BY <1>1, <1>t DEF Launch, StartBarrier, SpawnServers
<1>2. ASSUME NEW q \in Rank, InitWake(q), UNCHANGED calls PROVE G
  BY <1>2, <1>t DEF InitWake, StartBarrier, SpawnServers, WakeUp
<1>3. ASSUME NEW q \in Rank, EnterBarrier(q), UNCHANGED calls PROVE G
  BY <1>3, <1>t DEF EnterBarrier, WakeUp
<1>4. ASSUME NEW q \in Rank, Connect(q), UNCHANGED calls PROVE G
  BY <1>4, <1>t DEF Connect
<1>5. ASSUME NEW q \in Rank, Refused(q), UNCHANGED calls PROVE G
  BY <1>5, <1>t DEF Refused
<1>6. ASSUME NEW q \in Rank, Retry(q), UNCHANGED calls PROVE G
  BY <1>6, <1>t DEF Retry, WakeUp
<1>7. ASSUME NEW q \in Rank, GiveUp(q), UNCHANGED calls PROVE G
  BY <1>7, <1>t DEF GiveUp, WakeUp, Terminate
<1>8. ASSUME NEW q \in Rank, ArrivalWritten(q), UNCHANGED calls PROVE G
  BY <1>8, <1>t DEF ArrivalWritten
<1>9. ASSUME NEW q \in Rank, AckSeen(q), UNCHANGED calls PROVE G
  BY <1>9, <1>t DEF AckSeen
<1>10. ASSUME NEW q \in Rank, Reset(q), UNCHANGED calls PROVE G
  BY <1>10, <1>t DEF Reset
<1>11. ASSUME NEW q \in Rank, Lower(q), UNCHANGED calls PROVE G
  BY <1>11, <1>t DEF Lower
<1>12. ASSUME NEW q \in Rank, ExitBarrier(q), UNCHANGED calls PROVE G
  BY <1>12, <1>t DEF ExitBarrier, WakeUp
<1>13. ASSUME NEW q \in Rank, DataWritten(q), UNCHANGED calls PROVE G
  BY <1>13, <1>t DEF DataWritten
<1>14. ASSUME NEW q \in Rank, PostRecv(q), UNCHANGED calls PROVE G
  BY <1>14, <1>t DEF PostRecv
<1>15. ASSUME NEW q \in Rank, RecvReturn(q), UNCHANGED calls PROVE G
  BY <1>15, <1>t DEF RecvReturn
<1>16. ASSUME NEW q \in Rank, Send(q) PROVE G
  BY <1>16, <1>t DEF Send, Working, MPI_Send
<1>17. ASSUME NEW q \in Rank, Recv(q) PROVE G
  BY <1>17, <1>t DEF Recv, Working, MPI_Recv
<1>18. ASSUME NEW q \in Rank, MPI_Finalize(q) PROVE G
  BY <1>18, <1>t DEF MPI_Finalize, StartBarrier
<1>19. ASSUME NEW q \in Rank, Exit(q) PROVE G
  BY <1>19, <1>t DEF Exit, Terminate
<1>20. ASSUME WaitArrival, UNCHANGED calls PROVE G
  BY <1>20, <1>t DEF WaitArrival, SendAck
<1>21. ASSUME AckWritten, UNCHANGED calls PROVE G
  BY <1>21, <1>t DEF AckWritten, SendAck
<1>22. ASSUME Tick, UNCHANGED calls PROVE G
  BY <1>22, <1>t DEF Tick
<1>23. ASSUME NEW m \in Listener, Bind(m), UNCHANGED calls PROVE G
  BY <1>23, <1>t DEF Bind
<1>24. ASSUME NEW m \in Listener, Accept(m), UNCHANGED calls PROVE G
  BY <1>24, <1>t DEF Accept
<1>25. ASSUME NEW m \in Listener, SpinEnd(m), UNCHANGED calls PROVE G
  BY <1>25, <1>t DEF SpinEnd
<1>26. ASSUME NEW m \in Listener, Test(m), UNCHANGED calls PROVE G
  BY <1>26, <1>t DEF Test, DropHead
<1>27. ASSUME NEW m \in Listener, BarrierRead(m), UNCHANGED calls PROVE G
  BY <1>27, <1>t DEF BarrierRead, DropHead
<1>28. ASSUME NEW m \in Listener, DataRead(m), UNCHANGED calls PROVE G
  BY <1>28, <1>t DEF DataRead, DropHead
<1>29. ASSUME NEW m \in Listener, Clear(m), UNCHANGED calls PROVE G
  BY <1>29, <1>t DEF Clear
<1>30. ASSUME UNCHANGED vars PROVE G
  BY <1>30, VarsDef, <1>t
<1> HIDE DEF G, mainVars, globals, srvVars, timeVars, StartClient, Clienting
<1>31. G
  BY Steps, <1>1, <1>2, <1>3, <1>4, <1>5, <1>6, <1>7, <1>8, <1>9, <1>10,
     <1>11, <1>12, <1>13, <1>14, <1>15, <1>16, <1>17, <1>18, <1>19, <1>20,
     <1>21, <1>22, <1>23, <1>24, <1>25, <1>26, <1>27, <1>28, <1>29, <1>30
<1> QED
  BY <1>31 DEF G

\* A server thread that reads data keeps the connection it found data for.
LEMMA HeadEffect ==
    ASSUME Threads, NEW l \in Listener, [Next]_vars
    PROVE  srv'[l] = "data_read"
             => \/ Test(l)
                \/ /\ srv[l] = "data_read"
                   /\ conn'[l] = conn[l] \/ (\E r \in Rank : Connect(r))
<1> DEFINE G ==
           srv'[l] = "data_read"
             => \/ Test(l)
                \/ /\ srv[l] = "data_read"
                   /\ conn'[l] = conn[l] \/ (\E r \in Rank : Connect(r))
<1> USE DEF mainVars, globals, srvVars, timeVars, StartClient, Clienting,
            ListenersOf
<1>t. /\ srv \in [Listener -> SrvPc] /\ conn \in [Listener -> Seq(Message)]
  BY DEF Threads, TypeOK

<1>1. ASSUME NEW q \in Rank, Launch(q), UNCHANGED calls PROVE G
  BY <1>1, <1>t DEF Launch, StartBarrier, SpawnServers
<1>2. ASSUME NEW q \in Rank, InitWake(q), UNCHANGED calls PROVE G
  BY <1>2, <1>t DEF InitWake, StartBarrier, SpawnServers, WakeUp
<1>3. ASSUME NEW q \in Rank, EnterBarrier(q), UNCHANGED calls PROVE G
  BY <1>3, <1>t DEF EnterBarrier, WakeUp
<1>4. ASSUME NEW q \in Rank, Connect(q), UNCHANGED calls PROVE G
  BY <1>4, <1>t DEF Connect
<1>5. ASSUME NEW q \in Rank, Refused(q), UNCHANGED calls PROVE G
  BY <1>5, <1>t DEF Refused
<1>6. ASSUME NEW q \in Rank, Retry(q), UNCHANGED calls PROVE G
  BY <1>6, <1>t DEF Retry, WakeUp
<1>7. ASSUME NEW q \in Rank, GiveUp(q), UNCHANGED calls PROVE G
  BY <1>7, <1>t DEF GiveUp, WakeUp, Terminate
<1>8. ASSUME NEW q \in Rank, ArrivalWritten(q), UNCHANGED calls PROVE G
  BY <1>8, <1>t DEF ArrivalWritten
<1>9. ASSUME NEW q \in Rank, AckSeen(q), UNCHANGED calls PROVE G
  BY <1>9, <1>t DEF AckSeen
<1>10. ASSUME NEW q \in Rank, Reset(q), UNCHANGED calls PROVE G
  BY <1>10, <1>t DEF Reset
<1>11. ASSUME NEW q \in Rank, Lower(q), UNCHANGED calls PROVE G
  BY <1>11, <1>t DEF Lower
<1>12. ASSUME NEW q \in Rank, ExitBarrier(q), UNCHANGED calls PROVE G
  BY <1>12, <1>t DEF ExitBarrier, WakeUp
<1>13. ASSUME NEW q \in Rank, DataWritten(q), UNCHANGED calls PROVE G
  BY <1>13, <1>t DEF DataWritten
<1>14. ASSUME NEW q \in Rank, PostRecv(q), UNCHANGED calls PROVE G
  BY <1>14, <1>t DEF PostRecv
<1>15. ASSUME NEW q \in Rank, RecvReturn(q), UNCHANGED calls PROVE G
  BY <1>15, <1>t DEF RecvReturn
<1>16. ASSUME NEW q \in Rank, Send(q) PROVE G
  BY <1>16, <1>t DEF Send, Working, MPI_Send
<1>17. ASSUME NEW q \in Rank, Recv(q) PROVE G
  BY <1>17, <1>t DEF Recv, Working, MPI_Recv
<1>18. ASSUME NEW q \in Rank, MPI_Finalize(q) PROVE G
  BY <1>18, <1>t DEF MPI_Finalize, StartBarrier
<1>19. ASSUME NEW q \in Rank, Exit(q) PROVE G
  BY <1>19, <1>t DEF Exit, Terminate
<1>20. ASSUME WaitArrival, UNCHANGED calls PROVE G
  BY <1>20, <1>t DEF WaitArrival, SendAck
<1>21. ASSUME AckWritten, UNCHANGED calls PROVE G
  BY <1>21, <1>t DEF AckWritten, SendAck
<1>22. ASSUME Tick, UNCHANGED calls PROVE G
  BY <1>22, <1>t DEF Tick
<1>23. ASSUME NEW m \in Listener, Bind(m), UNCHANGED calls PROVE G
  BY <1>23, <1>t DEF Bind
<1>24. ASSUME NEW m \in Listener, Accept(m), UNCHANGED calls PROVE G
  BY <1>24, <1>t DEF Accept
<1>25. ASSUME NEW m \in Listener, SpinEnd(m), UNCHANGED calls PROVE G
  BY <1>25, <1>t DEF SpinEnd
<1>26. ASSUME NEW m \in Listener, Test(m), UNCHANGED calls PROVE G
  BY <1>26, <1>t DEF Test, DropHead
<1>27. ASSUME NEW m \in Listener, BarrierRead(m), UNCHANGED calls PROVE G
  BY <1>27, <1>t DEF BarrierRead, DropHead
<1>28. ASSUME NEW m \in Listener, DataRead(m), UNCHANGED calls PROVE G
  BY <1>28, <1>t DEF DataRead, DropHead
<1>29. ASSUME NEW m \in Listener, Clear(m), UNCHANGED calls PROVE G
  BY <1>29, <1>t DEF Clear
<1>30. ASSUME UNCHANGED vars PROVE G
  BY <1>30, VarsDef, <1>t
<1> HIDE DEF G, mainVars, globals, srvVars, timeVars, StartClient, Clienting,
             ListenersOf
<1>31. G
  BY Steps, <1>1, <1>2, <1>3, <1>4, <1>5, <1>6, <1>7, <1>8, <1>9, <1>10,
     <1>11, <1>12, <1>13, <1>14, <1>15, <1>16, <1>17, <1>18, <1>19, <1>20,
     <1>21, <1>22, <1>23, <1>24, <1>25, <1>26, <1>27, <1>28, <1>29, <1>30
<1> QED
  BY <1>31 DEF G

\* Only MPI_Barrier counts a rank in or out.
LEMMA OnlyBarrier ==
    ASSUME [Next]_vars
    PROVE  \/ \E r \in Rank : EnterBarrier(r) \/ Lower(r)
           \/ UNCHANGED <<entered, left>>
<1> DEFINE G ==
           \/ \E r \in Rank : EnterBarrier(r) \/ Lower(r)
           \/ UNCHANGED <<entered, left>>
<1> USE DEF mainVars, globals, srvVars, timeVars, StartClient
<1>1. ASSUME NEW q \in Rank, Launch(q), UNCHANGED calls PROVE G
  BY <1>1 DEF Launch, StartBarrier, SpawnServers
<1>2. ASSUME NEW q \in Rank, InitWake(q), UNCHANGED calls PROVE G
  BY <1>2 DEF InitWake, StartBarrier, SpawnServers, WakeUp
<1>3. ASSUME NEW q \in Rank, EnterBarrier(q), UNCHANGED calls PROVE G
  BY <1>3 DEF EnterBarrier, WakeUp
<1>4. ASSUME NEW q \in Rank, Connect(q), UNCHANGED calls PROVE G
  BY <1>4 DEF Connect
<1>5. ASSUME NEW q \in Rank, Refused(q), UNCHANGED calls PROVE G
  BY <1>5 DEF Refused
<1>6. ASSUME NEW q \in Rank, Retry(q), UNCHANGED calls PROVE G
  BY <1>6 DEF Retry, WakeUp
<1>7. ASSUME NEW q \in Rank, GiveUp(q), UNCHANGED calls PROVE G
  BY <1>7 DEF GiveUp, WakeUp, Terminate
<1>8. ASSUME NEW q \in Rank, ArrivalWritten(q), UNCHANGED calls PROVE G
  BY <1>8 DEF ArrivalWritten
<1>9. ASSUME NEW q \in Rank, AckSeen(q), UNCHANGED calls PROVE G
  BY <1>9 DEF AckSeen
<1>10. ASSUME NEW q \in Rank, Reset(q), UNCHANGED calls PROVE G
  BY <1>10 DEF Reset
<1>11. ASSUME NEW q \in Rank, Lower(q), UNCHANGED calls PROVE G
  BY <1>11 DEF Lower
<1>12. ASSUME NEW q \in Rank, ExitBarrier(q), UNCHANGED calls PROVE G
  BY <1>12 DEF ExitBarrier, WakeUp
<1>13. ASSUME NEW q \in Rank, DataWritten(q), UNCHANGED calls PROVE G
  BY <1>13 DEF DataWritten
<1>14. ASSUME NEW q \in Rank, PostRecv(q), UNCHANGED calls PROVE G
  BY <1>14 DEF PostRecv
<1>15. ASSUME NEW q \in Rank, RecvReturn(q), UNCHANGED calls PROVE G
  BY <1>15 DEF RecvReturn
<1>16. ASSUME NEW q \in Rank, Send(q) PROVE G
  BY <1>16 DEF Send, Working, MPI_Send
<1>17. ASSUME NEW q \in Rank, Recv(q) PROVE G
  BY <1>17 DEF Recv, Working, MPI_Recv
<1>18. ASSUME NEW q \in Rank, MPI_Finalize(q) PROVE G
  BY <1>18 DEF MPI_Finalize, StartBarrier
<1>19. ASSUME NEW q \in Rank, Exit(q) PROVE G
  BY <1>19 DEF Exit, Terminate
<1>20. ASSUME WaitArrival, UNCHANGED calls PROVE G
  BY <1>20 DEF WaitArrival, SendAck
<1>21. ASSUME AckWritten, UNCHANGED calls PROVE G
  BY <1>21 DEF AckWritten, SendAck
<1>22. ASSUME Tick, UNCHANGED calls PROVE G
  BY <1>22 DEF Tick
<1>23. ASSUME NEW m \in Listener, Bind(m), UNCHANGED calls PROVE G
  BY <1>23 DEF Bind
<1>24. ASSUME NEW m \in Listener, Accept(m), UNCHANGED calls PROVE G
  BY <1>24 DEF Accept
<1>25. ASSUME NEW m \in Listener, SpinEnd(m), UNCHANGED calls PROVE G
  BY <1>25 DEF SpinEnd
<1>26. ASSUME NEW m \in Listener, Test(m), UNCHANGED calls PROVE G
  BY <1>26 DEF Test, DropHead
<1>27. ASSUME NEW m \in Listener, BarrierRead(m), UNCHANGED calls PROVE G
  BY <1>27 DEF BarrierRead, DropHead
<1>28. ASSUME NEW m \in Listener, DataRead(m), UNCHANGED calls PROVE G
  BY <1>28 DEF DataRead, DropHead
<1>29. ASSUME NEW m \in Listener, Clear(m), UNCHANGED calls PROVE G
  BY <1>29 DEF Clear
<1>30. ASSUME UNCHANGED vars PROVE G
  BY <1>30, VarsDef
<1> HIDE DEF G, mainVars, globals, srvVars, timeVars, StartClient
<1>31. G
  BY Steps, <1>1, <1>2, <1>3, <1>4, <1>5, <1>6, <1>7, <1>8, <1>9, <1>10,
     <1>11, <1>12, <1>13, <1>14, <1>15, <1>16, <1>17, <1>18, <1>19, <1>20,
     <1>21, <1>22, <1>23, <1>24, <1>25, <1>26, <1>27, <1>28, <1>29, <1>30
<1> QED
  BY <1>31 DEF G

----------------------------------------------------------------------------
(* The messages of the barrier.  *)

\* The quantities of the invariant are integers.
LEMMA Quantities ==
    ASSUME Threads, NEW r \in Others
    PROVE  /\ Gathering \in Int /\ ArrivalSent(r) \in Int /\ AckSent(r) \in Int
           /\ Seen(r) \in Int /\ entered[0] \in Nat /\ entered[r] \in Nat
           /\ ArrivalSent(r) <= entered[r]
           /\ 0 \in Rank /\ r \in Rank /\ r # 0 /\ r \in Nat
           /\ <<0, r>> \in Listener /\ <<r, 0>> \in Listener
           /\ conn[<<0, r>>] \in Seq(Message) /\ conn[<<r, 0>>] \in Seq(Message)
<1>1. 0 \in Rank /\ r \in Rank /\ r # 0 /\ <<0, r>> \in Listener /\ <<r, 0>> \in Listener
  BY ZeroRank, ListenerFacts
<1>2. entered[0] \in Nat /\ entered[r] \in Nat
  BY <1>1, MainTypes DEF Threads
<1>3. conn[<<0, r>>] \in Seq(Message) /\ conn[<<r, 0>>] \in Seq(Message)
  BY <1>1 DEF Threads, TypeOK
<1>4. r \in Nat
  BY <1>1, NumProcAssumption DEF Rank
<1> QED
  BY <1>1, <1>2, <1>3, <1>4 DEF Gathering, ArrivalSent, AckSent, Seen

\* A port of rank 0 other than 30014 only gets the arrivals of its own rank.
LEMMA ConnectToZero ==
    ASSUME Threads, NEW r \in Others, NEW q \in Rank, Connect(q),
           out[q] = Expected(q), out[q].to = <<0, r>>
    PROVE  q = r /\ barrier[r] /\ out[q].msg = BarrierMsg(r, entered[r])
<1>1. r # 0
  BY ZeroRank
<1>2. CASE ~barrier[q]
  BY <1>1, <1>2 DEF Expected
<1>3. CASE barrier[q]
  BY <1>1, <1>3 DEF Expected
<1> QED
  BY <1>2, <1>3 DEF Threads, TypeOK

\* Port 30014 of another rank gets data and rank 0's acknowledgements.
LEMMA ConnectToOther ==
    ASSUME Threads, NEW r \in Others, NEW q \in Rank, Connect(q),
           out[q] = Expected(q), out[q].to = <<r, 0>>
    PROVE  \/ /\ ~barrier[q] /\ Partner(q) = r
              /\ out[q].msg = Data(q, Exchange(calls[q] - 1))
           \/ /\ q = 0 /\ barrier[0] /\ r = i
              /\ out[q].msg = BarrierMsg(0, entered[0])
<1>1. r # 0
  BY ZeroRank
<1>2. CASE ~barrier[q]
  BY <1>1, <1>2 DEF Expected
<1>3. CASE barrier[q]
  BY <1>1, <1>3 DEF Expected
<1> QED
  BY <1>2, <1>3 DEF Threads, TypeOK

\* Rank 0 acknowledges an episode to nobody before every rank is in it.
LEMMA AckBound ==
    ASSUME Threads, Arrivals, Recorded, NEW r \in Others, NEW s \in Rank
    PROVE  AckSent(r) <= entered[s]
<1>1. entered[0] \in Nat /\ entered[s] \in Nat /\ 0 \in Rank
  BY ZeroRank, MainTypes DEF Threads
<1>2. CASE s = 0
  BY <1>1, <1>2 DEF AckSent
<1>3. CASE s # 0
  <2>1. s \in Others
    BY <1>3 DEF Others
  <2>2. /\ Gathering - 1 <= ArrivalSent(s) /\ ArrivalSent(s) <= entered[s]
        /\ ArrivalSent(s) \in Int
        /\ glob[0][s] = s => Gathering <= ArrivalSent(s)
    BY <2>1, Quantities DEF Arrivals, ArrivalsOf
  <2>3. CASE ~barrier[0] \/ main[0] = "lower"
    BY <1>1, <2>2, <2>3 DEF Gathering, AckSent
  <2>4. CASE barrier[0] /\ main[0] = "wait"
    BY <1>1, <2>2, <2>4 DEF Gathering, AckSent
  <2>5. CASE Gathered
    <3>1. glob[0][s] = s
      BY <2>1, <2>5 DEF Recorded
    <3>2. AckSent(r) <= entered[0] /\ AckSent(r) \in Int
      BY <1>1 DEF AckSent
    <3>3. Gathering = entered[0]
      BY <2>5 DEF Gathered, Gathering, Clienting
    <3> QED
      BY <1>1, <2>2, <3>1, <3>2, <3>3
  <2>6. main[0] # "spin_ack"
    BY <1>1 DEF Threads, Control
  <2> QED
    BY <1>1, <2>3, <2>4, <2>5, <2>6 DEF Threads, Control, Gathered, Clienting
<1> QED
  BY <1>2, <1>3

\* There is at most one data message for each exchange, none before barrier 1.
LEMMA DataBound ==
    ASSUME Threads
    PROVE  DataSent \in Int /\ DataSent <= Len(Sizes) /\ (left[0] = 0 => DataSent = 0)
<1>1. calls[0] \in 0 .. 2 * Len(Sizes) /\ Len(Sizes) \in Nat /\ calls[0] \in Nat
  BY ZeroRank DEF Threads, TypeOK
<1>2. (calls[0] + 1) \div 2 \in Nat /\ (calls[0] + 1) \div 2 <= Len(Sizes)
  BY <1>1
<1> QED
  BY <1>1, <1>2 DEF DataSent

\* The next data message of rank 0 is the one after those it has sent.
LEMMA NextData ==
    ASSUME Threads, Connect(0), ~barrier[0]
    PROVE  /\ left[0] = 1 /\ 1 <= DataSent + 1 /\ DataSent + 1 <= Len(Sizes)
           /\ Exchange(calls[0] - 1) = DataSent + 1
<1>1. calls[0] \in 0 .. 2 * Len(Sizes) /\ Len(Sizes) \in Nat /\ 0 \in Rank /\ 0 < Half
  BY ZeroRank, HalfOther DEF Threads, TypeOK
<1>2. main[0] = "connect"
  BY DEF Connect
<1>3. left[0] = 1 /\ calls[0] > 0 /\ IsSend(0, calls[0] - 1)
  BY <1>1, <1>2 DEF Threads, Control, Clienting
<1>4. (calls[0] - 1) % 2 = 0
  BY <1>1, <1>3 DEF IsSend
<1>5. DataSent = ((calls[0] + 1) \div 2) - 1
  BY <1>2, <1>3 DEF DataSent
<1>6. /\ (calls[0] + 1) \div 2 = ((calls[0] - 1) \div 2) + 1
      /\ (calls[0] - 1) \div 2 \in Nat
      /\ ((calls[0] - 1) \div 2) + 1 <= Len(Sizes)
  <2> DEFINE d == calls[0] - 1
  <2>1. d \in Nat /\ d % 2 = 0 /\ d + 1 <= 2 * Len(Sizes) /\ calls[0] + 1 = (d + 1) + 1
    BY <1>1, <1>3, <1>4
  <2> HIDE DEF d
  <2>2. ((d + 1) + 1) \div 2 = (d \div 2) + 1 /\ d \div 2 \in Nat /\ d = 2 * (d \div 2)
    BY <2>1, Parity, DivFacts
  <2>3. (d \div 2) + 1 <= Len(Sizes)
    BY <2>1, <2>2, <1>1
  <2> QED
    BY <2>1, <2>2, <2>3 DEF d
<1> QED
  BY <1>3, <1>5, <1>6 DEF Exchange

\* A rank has seen the end of every episode but the one it is in.
LEMMA SeenBound ==
    ASSUME Threads, NEW r \in Others
    PROVE  /\ Seen(r) \in Nat /\ entered[r] <= 2
           /\ entered[r] - 1 <= Seen(r) /\ Seen(r) <= entered[r]
           /\ main[r] = "lower" \/ ~barrier[r] => Seen(r) = entered[r]
<1>1. r \in Rank /\ entered[r] \in Nat /\ left[r] \in Nat
  BY ZeroRank, MainTypes DEF Threads
<1> QED
  BY <1>1 DEF Threads, Control, Seen

\* Rank Half has made every exchange when it is in its second barrier.
LEMMA LateHalf ==
    ASSUME Threads, left[Half] = 1, barrier[Half] \/ main[Half] = "bar_sleep"
    PROVE  /\ Taken(Half) \in Int /\ Taken(Half) >= Len(Sizes)
           /\ main[Half] = "bar_sleep" /\ glob[Half][0] = 0 => Taken(Half) > Len(Sizes)
<1>1. Half \in Rank /\ Len(Sizes) \in Nat
  BY HalfOther, ZeroRank
<1>2. calls[Half] = 2 * Len(Sizes) /\ main[Half] \notin {"post", "recv"}
  BY <1>1 DEF Threads, Control, Clienting
<1>3. (calls[Half] + 1) \div 2 = Len(Sizes)
  BY <1>1, <1>2, Parity
<1>4. main[Half] = "bar_sleep" => ~barrier[Half]
  BY <1>1 DEF Threads, Control, Clienting
<1> QED
  BY <1>1, <1>2, <1>3, <1>4 DEF Taken

\* Arrivals stay in order, and none is older than the episode being gathered.
LEMMA ArrivalsStep ==
    ASSUME Threads, Arrivals, Recorded, [Next]_vars, NEW r \in Others
    PROVE  ArrivalsOf(r)'
<1> DEFINE l == <<0, r>>
           c == conn[l]
           cn == conn'[l]
<1>1. /\ Gathering \in Int /\ ArrivalSent(r) \in Int
      /\ entered[r] \in Nat /\ ArrivalSent(r) <= entered[r]
      /\ 0 \in Rank /\ r \in Rank /\ r # 0 /\ r \in Nat
      /\ l \in Listener /\ c \in Seq(Message)
  BY Quantities
<1>2. /\ glob[0][r] \in {-1, r}
      /\ Gathering - 1 <= ArrivalSent(r)
      /\ glob[0][r] = r => Gathering <= ArrivalSent(r)
      /\ \A k \in 1 .. Len(c) :
           /\ c[k].src = r /\ c[k].first = r /\ c[k].bytes = BarrierSize
           /\ Gathering <= c[k].n /\ c[k].n <= ArrivalSent(r)
           /\ glob[0][r] = r => Gathering < c[k].n
      /\ \A j, k \in 1 .. Len(c) : j < k => c[j].n < c[k].n
  BY DEF Arrivals, ArrivalsOf
<1>3. \A k \in 1 .. Len(c) : c[k].n \in Nat
  <2>1. \A k \in 1 .. Len(c) : c[k] \in Message
    BY <1>1
  <2> QED
    BY <2>1 DEF Message
<1>4. /\ main \in [Rank -> MainPc] /\ barrier \in [Rank -> BOOLEAN]
      /\ entered \in [Rank -> Nat]
      /\ glob \in [Rank -> [Rank -> Rank \cup {-1}]]
  BY MainTypes DEF Threads
<1> SUFFICES
      /\ glob'[0][r] \in {-1, r}
      /\ Gathering' - 1 <= ArrivalSent(r)'
      /\ glob'[0][r] = r => Gathering' <= ArrivalSent(r)'
      /\ \A k \in 1 .. Len(cn) :
           /\ cn[k].src = r /\ cn[k].first = r /\ cn[k].bytes = BarrierSize
           /\ Gathering' <= cn[k].n /\ cn[k].n <= ArrivalSent(r)'
           /\ glob'[0][r] = r => Gathering' < cn[k].n
      /\ \A j, k \in 1 .. Len(cn) : j < k => cn[j].n < cn[k].n
  BY DEF ArrivalsOf
<1>5. CASE Reset(0)
  <2>1. /\ main[0] = "reset" /\ main' = [main EXCEPT ![0] = "lower"]
        /\ barrier' = barrier /\ entered' = entered /\ conn' = conn
        /\ glob' = [glob EXCEPT ![0] = [s \in Rank |-> -1]]
    BY <1>5 DEF Reset, mainVars, srvVars
  <2>2. barrier[0]
    BY <2>1, <1>1 DEF Threads, Control
  <2>3. glob[0][r] = r
    BY <2>1, <2>2 DEF Recorded, Gathered
  <2>4. Gathering' = Gathering + 1
    BY <2>1, <2>2, <1>1, <1>4 DEF Gathering
  <2>5. ArrivalSent(r)' = ArrivalSent(r)
    BY <2>1, <1>1, <1>4 DEF ArrivalSent
  <2>6. glob'[0][r] = -1 /\ cn = c
    BY <2>1, <1>1, <1>4
  <2>7. \A k \in 1 .. Len(c) : Gathering + 1 <= c[k].n
    <3> TAKE k \in 1 .. Len(c)
    <3>1. Gathering < c[k].n
      BY <2>3, <1>2
    <3> QED
      BY <3>1, <1>1, <1>3
  <2>8. \A k \in 1 .. Len(c) :
           c[k].src = r /\ c[k].first = r /\ c[k].bytes = BarrierSize /\ c[k].n <= ArrivalSent(r)
    BY <1>2
  <2>9. (\A j, k \in 1 .. Len(c) : j < k => c[j].n < c[k].n) /\ Gathering <= ArrivalSent(r)
    BY <1>2, <2>3
  <2> HIDE DEF l, c, cn
  <2> QED
    <3>1. glob'[0][r] \in {-1, r} /\ glob'[0][r] # r
      BY <2>6, <1>1
    <3>2. Gathering' - 1 <= ArrivalSent(r)'
      BY <2>4, <2>5, <2>9, <1>1
    <3>3. \A k \in 1 .. Len(cn) :
            /\ cn[k].src = r /\ cn[k].first = r /\ cn[k].bytes = BarrierSize
            /\ Gathering' <= cn[k].n /\ cn[k].n <= ArrivalSent(r)'
      BY <2>4, <2>5, <2>6, <2>7, <2>8
    <3> QED
      BY <3>1, <3>2, <3>3, <2>6, <2>9
<1>6. CASE BarrierRead(l)
  <2>1. /\ main' = main /\ barrier' = barrier /\ entered' = entered
        /\ srv[l] = "barrier_read" /\ conn' = [conn EXCEPT ![l] = Tail(@)]
    BY <1>6 DEF BarrierRead, mainVars, DropHead
  <2>2. c # << >>
    BY <2>1, <1>1 DEF Threads, Serving
  <2>3. cn = Tail(c)
    BY <2>1, <1>1 DEF Threads, TypeOK
  <2>4. Gathering' = Gathering /\ ArrivalSent(r)' = ArrivalSent(r)
    BY <2>1 DEF Gathering, ArrivalSent
  <2>5. /\ Head(c) = c[1] /\ 1 \in 1 .. Len(c)
        /\ Len(cn) = Len(c) - 1
        /\ \A k \in 1 .. Len(cn) : cn[k] = c[k + 1] /\ k + 1 \in 1 .. Len(c)
    BY <2>2, <2>3, <1>1, TailFacts
  <2>6. glob'[0][r] = r
    <3>1. Head(c).bytes = BarrierSize /\ Head(c).first = r
      BY <2>5, <1>2
    <3>2. glob' = [glob EXCEPT ![0] = [glob[0] EXCEPT ![r] = r]]
      BY <1>6, <3>1 DEF BarrierRead, BarrierSize, IntSize
    <3> QED
      BY <3>2, <1>1, <1>4
  <2>7. Gathering <= c[1].n /\ c[1].n <= ArrivalSent(r)
    BY <2>5, <1>2
  <2>8. \A k \in 1 .. Len(cn) : c[1].n < cn[k].n
    <3> TAKE k \in 1 .. Len(cn)
    <3>1. 1 < k + 1 /\ k + 1 \in 1 .. Len(c) /\ cn[k] = c[k + 1]
      BY <2>5
    <3> QED
      BY <3>1, <2>5, <1>2
  <2>9. \A j, k \in 1 .. Len(cn) : j < k => cn[j].n < cn[k].n
    <3> TAKE j, k \in 1 .. Len(cn)
    <3> HAVE j < k
    <3>1. /\ j + 1 < k + 1 /\ j + 1 \in 1 .. Len(c) /\ k + 1 \in 1 .. Len(c)
          /\ cn[j] = c[j + 1] /\ cn[k] = c[k + 1]
      BY <2>5
    <3> QED
      BY <3>1, <1>2
  <2>10. \A k \in 1 .. Len(cn) : cn[k].n \in Nat /\ c[1].n \in Nat
    BY <2>5, <1>3
  <2>11. \A k \in 1 .. Len(cn) :
           /\ cn[k].src = r /\ cn[k].first = r /\ cn[k].bytes = BarrierSize
           /\ Gathering < cn[k].n /\ Gathering <= cn[k].n /\ cn[k].n <= ArrivalSent(r)
    <3> TAKE k \in 1 .. Len(cn)
    <3>1. cn[k] = c[k + 1] /\ k + 1 \in 1 .. Len(c)
      BY <2>5
    <3>2. c[1].n < cn[k].n /\ cn[k].n \in Nat /\ c[1].n \in Nat
      BY <2>8, <2>10
    <3>3. /\ cn[k].src = r /\ cn[k].first = r /\ cn[k].bytes = BarrierSize
          /\ cn[k].n <= ArrivalSent(r)
      BY <3>1, <1>2
    <3> QED
      BY <3>2, <3>3, <2>7, <1>1
  <2>12. Gathering <= ArrivalSent(r) /\ Gathering - 1 <= ArrivalSent(r)
    BY <2>5, <2>7, <1>1, <1>3
  <2> HIDE DEF l, c, cn
  <2> QED
    BY <2>4, <2>6, <2>9, <2>11, <2>12
<1>7. CASE Connect(r) /\ barrier[r] /\ out[r] = Expected(r)
  <2>1. /\ main[r] = "connect" /\ main' = [main EXCEPT ![r] = "write"]
        /\ barrier' = barrier /\ entered' = entered /\ glob' = glob
        /\ conn' = [conn EXCEPT ![out[r].to] = Append(@, out[r].msg)]
    BY <1>7 DEF Connect, globals
  <2>2. out[r].to = l /\ out[r].msg = BarrierMsg(r, entered[r])
    BY <1>7, <1>1 DEF Expected
  <2>3. out[r].msg \in Message
    BY <2>2, <1>1, BarrierMsgType
  <2>4. cn = Append(c, out[r].msg)
    BY <2>1, <2>2, <1>1 DEF Threads, TypeOK
  <2>5. /\ Len(cn) = Len(c) + 1 /\ Len(c) \in Nat
        /\ cn[Len(c) + 1] = BarrierMsg(r, entered[r])
        /\ \A k \in 1 .. Len(c) : cn[k] = c[k]
    BY <2>2, <2>3, <2>4, <1>1, AppendFacts
  <2>6. /\ ArrivalSent(r) = entered[r] - 1 /\ ArrivalSent(r)' = entered[r]
        /\ Gathering' = Gathering
    BY <2>1, <1>1, <1>4, <1>7 DEF ArrivalSent, Gathering
  <2>7. /\ cn[Len(c) + 1].src = r /\ cn[Len(c) + 1].first = r
        /\ cn[Len(c) + 1].bytes = BarrierSize /\ cn[Len(c) + 1].n = entered[r]
    BY <2>5 DEF BarrierMsg
  <2>8. glob'[0][r] = glob[0][r]
    BY <2>1
  <2> HIDE DEF l, c, cn
  <2>9. \A k \in 1 .. Len(cn) :
           /\ cn[k].src = r /\ cn[k].first = r /\ cn[k].bytes = BarrierSize
           /\ Gathering' <= cn[k].n /\ cn[k].n <= ArrivalSent(r)'
           /\ glob'[0][r] = r => Gathering' < cn[k].n
    <3> TAKE k \in 1 .. Len(cn)
    <3>1. CASE k = Len(c) + 1
      BY <3>1, <2>6, <2>7, <2>8, <1>1, <1>2
    <3>2. CASE k # Len(c) + 1
      <4>1. k \in 1 .. Len(c) /\ cn[k] = c[k]
        BY <3>2, <2>5
      <4> QED
        BY <4>1, <2>6, <2>8, <1>1, <1>2, <1>3
    <3> QED
      BY <3>1, <3>2
  <2>10. \A j, k \in 1 .. Len(cn) : j < k => cn[j].n < cn[k].n
    <3> TAKE j, k \in 1 .. Len(cn)
    <3> HAVE j < k
    <3>1. j \in 1 .. Len(c) /\ cn[j] = c[j]
      BY <2>5
    <3>2. CASE k = Len(c) + 1
      BY <3>1, <3>2, <2>6, <2>7, <1>1, <1>2, <1>3
    <3>3. CASE k # Len(c) + 1
      BY <3>1, <3>3, <2>5, <1>2
    <3> QED
      BY <3>2, <3>3
  <2> QED
    BY <2>6, <2>8, <2>9, <2>10, <1>1, <1>2
<1>8. CASE ~Reset(0) /\ ~BarrierRead(l) /\ ~(Connect(r) /\ barrier[r] /\ out[r] = Expected(r))
  <2>1. Gathering' = Gathering
    BY <1>8, GatheringEffect
  <2>2. ArrivalSent(r) <= ArrivalSent(r)' /\ ArrivalSent(r)' \in Int
    BY <1>1, SentEffect
  <2>3. glob'[0][r] = glob[0][r]
    BY <1>1, <1>8, GlobEffect
  <2>4. \/ cn = c
        \/ c # << >> /\ cn = Tail(c)
        \/ cn = << >>
    <3>1. \/ cn = c
          \/ c # << >> /\ cn = Tail(c)
          \/ cn = << >>
          \/ \E q \in Rank : Connect(q) /\ out[q] = Expected(q) /\ out[q].to = l
      BY <1>1, ConnEffect
    <3>2. ~ \E q \in Rank : Connect(q) /\ out[q] = Expected(q) /\ out[q].to = l
      BY <1>8, ConnectToZero
    <3> QED
      BY <3>1, <3>2
  <2>5. \A k \in 1 .. Len(cn) :
           /\ cn[k].src = r /\ cn[k].first = r /\ cn[k].bytes = BarrierSize
           /\ Gathering <= cn[k].n /\ cn[k].n <= ArrivalSent(r)
           /\ glob[0][r] = r => Gathering < cn[k].n
           /\ cn[k].n \in Nat
    <3> TAKE k \in 1 .. Len(cn)
    <3>1. \E j \in 1 .. Len(c) : cn[k] = c[j]
      <4>1. CASE cn = c
        BY <4>1
      <4>2. CASE c # << >> /\ cn = Tail(c)
        <5>1. cn[k] = c[k + 1] /\ k + 1 \in 1 .. Len(c)
          BY <4>2, <1>1, TailFacts
        <5> QED
          BY <5>1
      <4>3. CASE cn = << >>
        BY <4>3
      <4> QED
        BY <2>4, <4>1, <4>2, <4>3
    <3> QED
      BY <3>1, <1>2, <1>3
  <2>6. \A j, k \in 1 .. Len(cn) : j < k => cn[j].n < cn[k].n
    <3> TAKE j, k \in 1 .. Len(cn)
    <3> HAVE j < k
    <3>o. \A x, y \in 1 .. Len(c) : x < y => c[x].n < c[y].n
      BY <1>2
    <3>1. CASE cn = c
      BY <3>1, <3>o
    <3>2. CASE c # << >> /\ cn = Tail(c)
      <4>1. /\ j + 1 \in 1 .. Len(c) /\ k + 1 \in 1 .. Len(c) /\ j + 1 < k + 1
            /\ cn[j] = c[j + 1] /\ cn[k] = c[k + 1]
        BY <3>2, <1>1, TailFacts
      <4> QED
        BY <4>1, <3>o
    <3>3. CASE cn = << >>
      BY <3>3
    <3> QED
      BY <2>4, <3>1, <3>2, <3>3
  <2>7. /\ glob[0][r] \in {-1, r} /\ Gathering - 1 <= ArrivalSent(r)
        /\ glob[0][r] = r => Gathering <= ArrivalSent(r)
    BY <1>2
  <2> HIDE DEF l, c, cn
  <2>8. /\ glob'[0][r] \in {-1, r} /\ Gathering' - 1 <= ArrivalSent(r)'
        /\ glob'[0][r] = r => Gathering' <= ArrivalSent(r)'
    BY <2>1, <2>2, <2>3, <2>7, <1>1
  <2>9. \A k \in 1 .. Len(cn) :
           /\ cn[k].src = r /\ cn[k].first = r /\ cn[k].bytes = BarrierSize
           /\ Gathering' <= cn[k].n /\ cn[k].n <= ArrivalSent(r)'
           /\ glob'[0][r] = r => Gathering' < cn[k].n
    <3> TAKE k \in 1 .. Len(cn)
    <3>1. /\ cn[k].src = r /\ cn[k].first = r /\ cn[k].bytes = BarrierSize
          /\ Gathering <= cn[k].n /\ cn[k].n <= ArrivalSent(r) /\ cn[k].n \in Nat
          /\ glob[0][r] = r => Gathering < cn[k].n
      BY <2>5
    <3> QED
      BY <3>1, <2>1, <2>2, <2>3, <1>1
  <2> QED
    BY <2>6, <2>8, <2>9
<1> QED
  BY <1>5, <1>6, <1>7, <1>8

\* An arrival rank 0 has counted stays recorded until it resets the entries.
LEMMA RecordedStep ==
    ASSUME Threads, Arrivals, Recorded, [Next]_vars
    PROVE  Recorded'
<1> SUFFICES ASSUME NEW r \in Others, Gathered' \/ (main'[0] = "wait" /\ r < i')
             PROVE  glob'[0][r] = r
  BY DEF Recorded
<1>1. 0 \in Rank /\ r \in Rank /\ r # 0 /\ <<0, r>> \in Listener /\ conn[<<0, r>>] \in Seq(Message)
  BY Quantities
<1>2. ~Reset(0)
  <2>1. Reset(0) => main'[0] = "lower"
    BY <1>1, MainTypes DEF Reset, Threads
  <2> QED
    BY <2>1 DEF Gathered, Clienting
<1>3. glob[0][r] = r
  BY GatheredEffect DEF Recorded
<1>4. CASE BarrierRead(<<0, r>>)
  <2>1. conn[<<0, r>>] # << >>
    BY <1>1, <1>4 DEF BarrierRead, Threads, Serving
  <2>2. Head(conn[<<0, r>>]) = conn[<<0, r>>][1] /\ 1 \in 1 .. Len(conn[<<0, r>>])
    BY <2>1, <1>1
  <2>3. Head(conn[<<0, r>>]).first = r
    BY <2>2 DEF Arrivals, ArrivalsOf
  <2> QED
    BY <1>1, <1>2, <1>3, <2>3, GlobEffect
<1>5. CASE ~BarrierRead(<<0, r>>)
  BY <1>1, <1>2, <1>3, <1>5, GlobEffect
<1> QED
  BY <1>4, <1>5

\* No stale acknowledgement is left in the entries when a barrier begins.
LEMMA NoStale ==
    ASSUME Threads, Arrivals, Recorded, Acks, HalfData, NEW r \in Others,
           main[r] = "bar_sleep"
    PROVE  glob[r][0] # 0
<1>1. r \in Rank /\ 0 \in Rank /\ ~barrier[r]
  BY ZeroRank DEF Threads, Control, Clienting
<1>2. CASE r # Half
  BY <1>1, <1>2 DEF Acks, AcksOf
<1>3. CASE r = Half
  <2> SUFFICES ASSUME glob[Half][0] = 0 PROVE FALSE
    BY <1>3
  <2>1. /\ entered \in [Rank -> Nat] /\ left \in [Rank -> Nat] /\ calls \in [Rank -> Nat]
        /\ barrier \in [Rank -> BOOLEAN]
    BY MainTypes DEF Threads
  <2>2. DataSent \in Int /\ DataSent <= Len(Sizes) /\ (left[0] = 0 => DataSent = 0) /\ Len(Sizes) \in Nat
    BY DataBound, ZeroRank
  <2>3. Taken(Half) <= DataSent
    BY DEF HalfData
  <2>4. left[Half] = entered[Half] /\ left[Half] <= 1
    BY <1>1, <1>3, <2>1 DEF Threads, Control
  <2>5. CASE left[Half] = 1
    BY <1>3, <2>2, <2>3, <2>5, LateHalf
  <2>6. CASE left[Half] = 0
    <3>1. calls[Half] = 0
      BY <1>1, <1>3, <2>6 DEF Threads, Control
    <3>2. Taken(Half) >= 1 /\ Taken(Half) \in Int
      <4>1. (0 + 1) \div 2 = 0
        OBVIOUS
      <4> QED
        BY <1>1, <1>3, <3>1, <4>1 DEF Taken
    <3>3. left[0] # 0
      BY <2>2, <2>3, <3>2
    <3>4. AckSent(Half) <= entered[Half]
      BY <1>1, <1>3, AckBound
    <3>5. entered[0] = left[0] + (IF barrier[0] THEN 1 ELSE 0)
      BY <1>1 DEF Threads, Control
    <3>6. AckSent(Half) >= 1
      BY <1>1, <2>1, <3>3, <3>5 DEF AckSent
    <3>7. AckSent(Half) \in Int
      BY HalfOther, Quantities
    <3> QED
      BY <2>4, <2>6, <3>4, <3>6, <3>7
  <2> QED
    BY <1>1, <1>3, <2>1, <2>4, <2>5, <2>6
<1> QED
  BY <1>2, <1>3

\* What rank 0 has sent never shrinks.
LEMMA SentGrows ==
    ASSUME Threads, [Next]_vars, NEW r \in Others
    PROVE  /\ AckSent(r) <= AckSent(r)' /\ AckSent(r)' \in Int
           /\ DataSent <= DataSent' /\ DataSent' \in Int
<1>1. AckSent(r) \in Int /\ entered[0] \in Nat /\ DataSent \in Int
  BY Quantities, DataBound
<1> QED
  BY <1>1, AckEffect, DataSentEffect

\* The fields of the messages on a connection.
LEMMA MessageFields ==
    ASSUME NEW c \in Seq(Message), NEW k \in 1 .. Len(c)
    PROVE  /\ c[k].n \in Nat /\ c[k].src \in Rank /\ c[k].first \in Rank
           /\ c[k].bytes \in Nat /\ c[k].kind \in {"barrier", "data"}
<1>1. c[k] \in Message
  OBVIOUS
<1> QED
  BY <1>1 DEF Message

\* An acknowledgement or datum of rank 0 that is read in the barrier ends the
\* episode of its reader; what rank 0 sent later is for later episodes.
LEMMA ReadInBarrier ==
    ASSUME Threads, Arrivals, Recorded, Acks, HalfData, NEW r \in Others,
           conn[<<r, 0>>] # << >>, conn[<<r, 0>>][1].src = 0
    PROVE  /\ main[r] = "lower" \/ ~barrier[r] =>
                /\ r = Half /\ conn[<<r, 0>>][1].kind = "data"
           /\ barrier[r] =>
                /\ entered[r] <= AckSent(r)
                /\ \A k \in 2 .. Len(conn[<<r, 0>>]) :
                     conn[<<r, 0>>][k].src = 0 /\ conn[<<r, 0>>][k].kind = "barrier"
                       => entered[r] < conn[<<r, 0>>][k].n
<1> DEFINE c == conn[<<r, 0>>]
<1>1. /\ c \in Seq(Message) /\ r \in Rank /\ 0 \in Rank /\ r # 0
      /\ AckSent(r) \in Int /\ entered[r] \in Nat /\ entered[0] \in Nat
  BY Quantities
<1>2. 1 \in 1 .. Len(c) /\ Len(Sizes) \in Nat
  BY <1>1, ZeroRank
<1>3. \A k \in 1 .. Len(c) : c[k].n \in Nat
  BY <1>1, MessageFields
<1>4. AckSent(r) <= entered[r]
  BY <1>1, AckBound
<1>5. /\ Seen(r) \in Nat /\ entered[r] <= 2
      /\ entered[r] - 1 <= Seen(r) /\ Seen(r) <= entered[r]
      /\ main[r] = "lower" \/ ~barrier[r] => Seen(r) = entered[r]
  BY SeenBound
<1>6. DataSent \in Int /\ DataSent <= Len(Sizes) /\ (left[0] = 0 => DataSent = 0)
  BY DataBound
<1>7. /\ \A k \in 1 .. Len(c) : c[k].src = 0 =>
           \/ c[k].kind = "barrier" /\ Seen(r) < c[k].n /\ c[k].n <= AckSent(r)
           \/ c[k].kind = "data" /\ r = Half /\ 1 <= c[k].n /\ c[k].n <= DataSent
      /\ \A j, k \in 1 .. Len(c) :
           j < k /\ c[j].src = 0 /\ c[k].src = 0 => Key(c[j]) < Key(c[k])
  BY DEF Acks, AcksOf
<1> HIDE DEF c
<1>8. c[1].src = 0 /\ c[1].n \in Nat
  BY <1>2, <1>3 DEF c
<1>9. CASE c[1].kind = "barrier"
  <2>1. Seen(r) < c[1].n /\ c[1].n <= AckSent(r)
    BY <1>2, <1>7, <1>8, <1>9
  <2>2. c[1].n = entered[r] /\ Seen(r) # entered[r] /\ c[1].n >= 1
    BY <1>1, <1>4, <1>5, <1>8, <2>1
  <2>3. ASSUME NEW k \in 2 .. Len(c), c[k].src = 0, c[k].kind = "barrier"
        PROVE  entered[r] < c[k].n
    <3>1. k \in 1 .. Len(c) /\ 1 < k
      BY <2>3
    <3>2. Key(c[1]) < Key(c[k]) /\ c[k].n \in Nat /\ Seen(r) < c[k].n
      BY <1>2, <1>3, <1>7, <1>8, <2>3, <3>1
    <3>3. CASE c[1].n = 1
      BY <1>9, <2>2, <2>3, <3>2, <3>3, <1>5 DEF Key
    <3>4. CASE c[1].n # 1
      BY <1>9, <1>2, <2>3, <3>2, <3>4 DEF Key
    <3> QED
      BY <3>3, <3>4
  <2> QED
    BY <2>1, <2>2, <2>3, <1>5 DEF c
<1>10. CASE c[1].kind = "data"
  <2>1. r = Half /\ 1 <= c[1].n /\ c[1].n <= DataSent
    BY <1>2, <1>7, <1>8, <1>10
  <2>2. Taken(Half) < c[1].n
    BY <1>2, <1>10, <2>1 DEF HalfData, c
  <2>3. ASSUME barrier[r]
        PROVE  /\ entered[r] = 1 /\ 1 <= AckSent(r)
    <3>1. /\ left[r] \in Nat /\ left[0] \in Nat /\ entered[r] = left[r] + 1
          /\ entered[0] = left[0] + (IF barrier[0] THEN 1 ELSE 0)
      BY <1>1, <2>3, MainTypes DEF Threads, Control
    <3>2. left[r] # 1
      BY <1>2, <1>6, <1>8, <2>1, <2>2, <2>3, LateHalf
    <3>3. left[0] # 0
      BY <1>6, <1>8, <2>1
    <3>4. 1 <= AckSent(r)
      BY <1>1, <3>1, <3>3 DEF AckSent
    <3> QED
      BY <1>5, <3>1, <3>2, <3>4
  <2>4. ASSUME NEW k \in 2 .. Len(c), c[k].src = 0, c[k].kind = "barrier", barrier[r]
        PROVE  entered[r] < c[k].n
    <3>1. k \in 1 .. Len(c) /\ 1 < k
      BY <2>4
    <3>2. Key(c[1]) < Key(c[k]) /\ c[k].n \in Nat /\ Seen(r) < c[k].n
      BY <1>2, <1>3, <1>7, <1>8, <2>4, <3>1
    <3>3. c[k].n # 1
      BY <1>10, <2>1, <2>4, <3>2, <1>8 DEF Key
    <3> QED
      BY <2>3, <2>4, <3>2, <3>3, <1>5
  <2> QED
    BY <1>10, <2>1, <2>3, <2>4 DEF c
<1> QED
  BY <1>1, <1>2, <1>9, <1>10, MessageFields

\* A step of client() is no call of the driver.
LEMMA CallsKept ==
    ASSUME Threads, [Next]_vars, NEW q \in Rank, Connect(q)
    PROVE  UNCHANGED calls
<1>1. main \in [Rank -> MainPc] /\ main[q] = "connect" /\ main'[q] = "write"
  BY MainTypes DEF Threads, Connect
<1>2. ASSUME NEW p \in Rank, Send(p) PROVE FALSE
  BY <1>1, <1>2 DEF Send, MPI_Send, StartClient
<1>3. ASSUME NEW p \in Rank, Recv(p) PROVE FALSE
  BY <1>1, <1>3 DEF Recv, MPI_Recv
<1>4. ASSUME NEW p \in Rank, MPI_Finalize(p) \/ Exit(p) PROVE UNCHANGED calls
  BY <1>4 DEF MPI_Finalize, Exit
<1>5. CASE UNCHANGED vars
  BY <1>5, VarsDef
<1> QED
  BY <1>2, <1>3, <1>4, <1>5, Steps

\* The acknowledgements and data on the way to a rank stay in order, and none
\* is for an episode that is over for the rank.
LEMMA AcksStep ==
    ASSUME Threads, Arrivals, Recorded, Acks, HalfData, [Next]_vars, NEW r \in Others
    PROVE  AcksOf(r)'
<1> DEFINE l == <<r, 0>>
           c == conn[l]
           cn == conn'[l]
           Good(m, s, a, d) ==
               /\ m.first = m.src
               /\ m.src = 0 =>
                    \/ m.kind = "barrier" /\ s < m.n /\ m.n <= a
                    \/ m.kind = "data" /\ r = Half /\ 1 <= m.n /\ m.n <= d
           Ordered(q) ==
               \A j, k \in 1 .. Len(q) :
                 j < k /\ q[j].src = 0 /\ q[k].src = 0 => Key(q[j]) < Key(q[k])
<1>1. /\ c \in Seq(Message) /\ r \in Rank /\ 0 \in Rank /\ r # 0 /\ l \in Listener
      /\ AckSent(r) \in Int /\ Seen(r) \in Int /\ entered[r] \in Nat /\ entered[0] \in Nat
      /\ Len(Sizes) \in Nat
  BY Quantities, ZeroRank
<1>2. \A k \in 1 .. Len(c) : c[k].n \in Nat
  BY <1>1, MessageFields
<1>3. /\ Seen(r) <= AckSent(r)
      /\ r # Half /\ (main[r] = "lower" \/ ~barrier[r]) => glob[r][0] # 0
      /\ \A k \in 1 .. Len(c) : Good(c[k], Seen(r), AckSent(r), DataSent)
      /\ Ordered(c)
  BY DEF Acks, AcksOf
<1>4. /\ AckSent(r) <= AckSent(r)' /\ AckSent(r)' \in Int
      /\ DataSent <= DataSent' /\ DataSent' \in Int /\ DataSent \in Int
  BY SentGrows, DataBound
<1>5. /\ Seen(r) \in Nat /\ entered[r] <= 2
      /\ entered[r] - 1 <= Seen(r) /\ Seen(r) <= entered[r]
      /\ main[r] = "lower" \/ ~barrier[r] => Seen(r) = entered[r]
  BY SeenBound
<1>6. \/ Seen(r)' \in Int /\ Seen(r)' <= Seen(r)
      \/ /\ BarrierRead(l) /\ Head(c).first = 0
         /\ barrier[r] /\ Seen(r)' = entered[r]
  <2>1. ~(EnterBarrier(r) /\ glob[r][0] = 0)
    BY NoStale DEF EnterBarrier
  <2> QED
    BY <2>1, SeenEffect
<1> SUFFICES
      /\ Seen(r)' <= AckSent(r)'
      /\ r # Half /\ (main'[r] = "lower" \/ ~barrier'[r]) => glob'[r][0] # 0
      /\ \A k \in 1 .. Len(cn) : Good(cn[k], Seen(r)', AckSent(r)', DataSent')
      /\ Ordered(cn)
  BY DEF AcksOf, Key
<1>g. ASSUME NEW m, m.n \in Nat, NEW s \in Int, NEW a \in Int, NEW d \in Int,
             NEW s2 \in Int, NEW a2 \in Int, NEW d2 \in Int,
             Good(m, s, a, d), s2 <= s, a <= a2, d <= d2
      PROVE  Good(m, s2, a2, d2)
  BY <1>g
<1>7. CASE BarrierRead(l)
  <2>1. c # << >> /\ cn = Tail(c)
    BY <1>1, <1>7 DEF BarrierRead, DropHead, Threads, Serving, TypeOK
  <2>2. /\ Head(c) = c[1] /\ 1 \in 1 .. Len(c)
        /\ \A k \in 1 .. Len(cn) : cn[k] = c[k + 1] /\ k + 1 \in 2 .. Len(c) /\ k + 1 \in 1 .. Len(c)
    BY <2>1, <1>1, TailFacts
  <2>3. c[1].first = c[1].src
    BY <2>2, <1>3
  <2>4. c[1].src = 0 =>
          /\ main[r] = "lower" \/ ~barrier[r] => r = Half
          /\ barrier[r] =>
               /\ entered[r] <= AckSent(r)
               /\ \A k \in 2 .. Len(c) :
                    c[k].src = 0 /\ c[k].kind = "barrier" => entered[r] < c[k].n
    BY <2>1, ReadInBarrier
  <2>5. r # Half /\ (main'[r] = "lower" \/ ~barrier'[r]) => glob'[r][0] # 0
    <3>1. main' = main /\ barrier' = barrier
      BY <1>7 DEF BarrierRead, mainVars
    <3>2. glob'[r][0] = glob[r][0] \/ glob'[r][0] = c[1].first \/ glob'[r][0] = -1
      BY <1>1, <2>2, GlobEffect
    <3> QED
      BY <1>3, <2>3, <2>4, <3>1, <3>2
  <2>6. Ordered(cn)
    <3> SUFFICES ASSUME NEW j \in 1 .. Len(cn), NEW k \in 1 .. Len(cn),
                        j < k, cn[j].src = 0, cn[k].src = 0
                 PROVE  Key(cn[j]) < Key(cn[k])
      OBVIOUS
    <3>1. /\ j + 1 \in 1 .. Len(c) /\ k + 1 \in 1 .. Len(c) /\ j + 1 < k + 1
          /\ cn[j] = c[j + 1] /\ cn[k] = c[k + 1]
      BY <2>2
    <3>2. Ordered(c)
      BY <1>3
    <3> QED
      BY <3>1, <3>2
  <2>7. CASE Seen(r)' \in Int /\ Seen(r)' <= Seen(r)
    <3>1. \A k \in 1 .. Len(cn) : Good(cn[k], Seen(r)', AckSent(r)', DataSent')
      <4> TAKE k \in 1 .. Len(cn)
      <4>1. Good(cn[k], Seen(r), AckSent(r), DataSent) /\ cn[k].n \in Nat
        BY <2>2, <1>2, <1>3
      <4> HIDE DEF Good
      <4> QED
        BY <4>1, <2>7, <1>1, <1>4, <1>g
    <3>2. Seen(r)' <= AckSent(r)'
      BY <2>7, <1>1, <1>3, <1>4
    <3> HIDE DEF Good, Ordered, c, cn
    <3> QED
      BY <3>1, <3>2, <2>5, <2>6
  <2>8. CASE Head(c).first = 0 /\ barrier[r] /\ Seen(r)' = entered[r]
    <3>1. /\ entered[r] <= AckSent(r)
          /\ \A k \in 2 .. Len(c) :
               c[k].src = 0 /\ c[k].kind = "barrier" => entered[r] < c[k].n
      BY <2>2, <2>3, <2>4, <2>8
    <3>2. \A k \in 1 .. Len(cn) : Good(cn[k], Seen(r)', AckSent(r)', DataSent')
      <4> TAKE k \in 1 .. Len(cn)
      <4>1. Good(cn[k], Seen(r), AckSent(r), DataSent) /\ cn[k].n \in Nat
        BY <2>2, <1>2, <1>3
      <4>2. cn[k].src = 0 /\ cn[k].kind = "barrier" => entered[r] < cn[k].n
        BY <2>2, <3>1
      <4> QED
        BY <4>1, <4>2, <2>8, <1>1, <1>4
    <3>3. Seen(r)' <= AckSent(r)'
      BY <3>1, <2>8, <1>1, <1>4
    <3> HIDE DEF Good, Ordered, c, cn
    <3> QED
      BY <3>2, <3>3, <2>5, <2>6
  <2> QED
    BY <1>6, <2>7, <2>8
<1>8. ASSUME ~BarrierRead(l)
      PROVE  /\ Seen(r)' \in Int /\ Seen(r)' <= Seen(r) /\ Seen(r)' <= AckSent(r)'
             /\ r # Half /\ (main'[r] = "lower" \/ ~barrier'[r]) => glob'[r][0] # 0
  <2>1. Seen(r)' \in Int /\ Seen(r)' <= Seen(r)
    BY <1>6, <1>8
  <2>2. glob'[r][0] = glob[r][0] \/ glob'[r][0] = -1
    BY <1>1, <1>8, GlobEffect
  <2>3. main'[r] = "lower" \/ ~barrier'[r]
          => main[r] = "lower" \/ ~barrier[r] \/ glob'[r][0] # 0
    BY LowerEffect
  <2> QED
    BY <2>1, <2>2, <2>3, <1>1, <1>3, <1>4
<1>9. ASSUME ~BarrierRead(l), NEW q \in Rank, Connect(q), out[q] = Expected(q),
             out[q].to = l, out[q].msg \in Message, cn = Append(c, out[q].msg)
      PROVE  /\ \A k \in 1 .. Len(cn) : Good(cn[k], Seen(r)', AckSent(r)', DataSent')
             /\ Ordered(cn)
  <2> DEFINE m == out[q].msg
  <2>1. /\ Len(cn) = Len(c) + 1 /\ Len(c) \in Nat /\ cn[Len(c) + 1] = m
        /\ \A k \in 1 .. Len(c) : cn[k] = c[k]
    BY <1>1, <1>9, AppendFacts
  <2>2. Seen(r)' \in Int /\ Seen(r)' <= Seen(r) /\ Seen(r) <= AckSent(r)
    BY <1>3, <1>8, <1>9
  <2>3. DataSent \in Int /\ DataSent <= Len(Sizes) /\ (left[0] = 0 => DataSent = 0)
    BY DataBound
  <2>4. \A k \in 1 .. Len(c) : Good(c[k], Seen(r)', AckSent(r)', DataSent')
    <3> TAKE k \in 1 .. Len(c)
    <3>1. Good(c[k], Seen(r), AckSent(r), DataSent) /\ c[k].n \in Nat
      BY <1>2, <1>3
    <3> HIDE DEF Good
    <3> QED
      BY <3>1, <2>2, <1>1, <1>4, <1>g
  <2>5. /\ Good(m, Seen(r)', AckSent(r)', DataSent')
        /\ m.src = 0 => \A k \in 1 .. Len(c) : c[k].src = 0 => Key(c[k]) < Key(m)
    <3>1. CASE q = 0 /\ barrier[0]
      <4>1. r = i /\ m = BarrierMsg(0, entered[0])
        BY <1>9, <3>1, ConnectToOther
      <4>2. m.first = 0 /\ m.src = 0 /\ m.kind = "barrier" /\ m.n = entered[0]
        BY <4>1 DEF BarrierMsg
      <4>3. main[0] = "connect" /\ main'[0] = "write" /\ barrier' = barrier
            /\ entered' = entered /\ i' = i
        BY <1>1, <1>9, <3>1 DEF Connect, globals, Threads, TypeOK
      <4>4. AckSent(r) = entered[0] - 1 /\ AckSent(r)' = entered[0]
        <5>1. r \in Nat
          BY Quantities
        <5> QED
          BY <3>1, <4>1, <4>3, <5>1 DEF AckSent
      <4>5. entered[0] <= 2 /\ (entered[0] = 1 => left[0] = 0)
        BY <1>1, <3>1, MainTypes DEF Threads, Control
      <4>6. ASSUME NEW k \in 1 .. Len(c), c[k].src = 0
            PROVE  Key(c[k]) < Key(m)
        <5>1. Good(c[k], Seen(r), AckSent(r), DataSent) /\ c[k].n \in Nat
          BY <1>2, <1>3
        <5>2. entered[0] # 1
          BY <5>1, <4>4, <4>5, <4>6, <2>3, <1>5
        <5>3. CASE c[k].kind = "barrier"
          <6>1. c[k].n = 1
            BY <5>1, <5>3, <4>4, <4>5, <4>6, <1>1, <1>5
          <6> QED
            BY <6>1, <5>2, <5>3, <4>2, <1>1 DEF Key
        <5>4. CASE c[k].kind = "data"
          BY <5>1, <5>2, <5>4, <4>2, <4>6, <2>3, <1>1 DEF Key
        <5> QED
          BY <5>1, <5>3, <5>4, <4>6
      <4>7. Good(m, Seen(r)', AckSent(r)', DataSent')
        BY <4>2, <4>4, <2>2, <1>1
      <4> HIDE DEF Good, c, m
      <4> QED
        BY <4>6, <4>7
    <3>2. CASE q = 0 /\ ~barrier[0]
      <4>1. Partner(0) = r /\ m = Data(0, Exchange(calls[0] - 1))
        BY <1>9, <3>2, ConnectToOther
      <4>2. /\ left[0] = 1 /\ DataSent + 1 <= Len(Sizes)
            /\ Exchange(calls[0] - 1) = DataSent + 1
        BY <1>9, <3>2, NextData
      <4>3. m.first = 0 /\ m.src = 0 /\ m.kind = "data" /\ m.n = DataSent + 1
        BY <4>1, <4>2 DEF Data
      <4>4. r = Half
        BY <1>1, <4>1, PartnerFacts
      <4>5. DataSent' = DataSent + 1
        <5>1. main[0] = "connect" /\ main'[0] = "write" /\ barrier' = barrier
              /\ left' = left /\ calls' = calls
          <6>1. UNCHANGED calls
            BY <1>9, CallsKept
          <6> QED
            BY <1>1, <1>9, <3>2, <6>1 DEF Connect, globals, Threads, TypeOK
        <5>2. (calls[0] + 1) \div 2 \in Nat
          BY <1>1, Parity, MainTypes DEF Threads
        <5> QED
          BY <3>2, <4>2, <5>1, <5>2 DEF DataSent
      <4>6. AckSent(r) = 1
        BY <1>1, <3>2, <4>2, MainTypes DEF AckSent, Threads, Control
      <4>7. 1 <= DataSent + 1
        BY <1>9, <3>2, NextData
      <4>8. ASSUME NEW k \in 1 .. Len(c), c[k].src = 0
            PROVE  Key(c[k]) < Key(m)
        <5>1. Good(c[k], Seen(r), AckSent(r), DataSent) /\ c[k].n \in Nat
          BY <1>2, <1>3
        <5>2. CASE c[k].kind = "barrier"
          <6>1. c[k].n = 1
            BY <5>1, <5>2, <4>6, <4>8, <1>5
          <6> QED
            BY <6>1, <5>2, <4>3, <4>7, <2>3 DEF Key
        <5>3. CASE c[k].kind = "data"
          BY <5>1, <5>3, <4>3, <4>8, <2>3 DEF Key
        <5> QED
          BY <5>1, <5>2, <5>3, <4>8
      <4> QED
        BY <4>3, <4>4, <4>5, <4>7, <4>8, <2>3
    <3>3. CASE q # 0
      <4>1. m = Data(q, Exchange(calls[q] - 1))
        BY <1>9, <3>3, ConnectToOther
      <4> QED
        BY <3>3, <4>1 DEF Data
    <3> QED
      BY <3>1, <3>2, <3>3
  <2>6. \A k \in 1 .. Len(cn) : Good(cn[k], Seen(r)', AckSent(r)', DataSent')
    <3> TAKE k \in 1 .. Len(cn)
    <3>1. k = Len(c) + 1 \/ (k \in 1 .. Len(c) /\ cn[k] = c[k])
      BY <2>1
    <3> HIDE DEF Good, c, cn, m
    <3> QED
      BY <3>1, <2>1, <2>4, <2>5
  <2>7. Ordered(cn)
    <3> SUFFICES ASSUME NEW j \in 1 .. Len(cn), NEW k \in 1 .. Len(cn),
                        j < k, cn[j].src = 0, cn[k].src = 0
                 PROVE  Key(cn[j]) < Key(cn[k])
      OBVIOUS
    <3>1. j \in 1 .. Len(c) /\ cn[j] = c[j]
      BY <2>1
    <3>2. CASE k = Len(c) + 1
      BY <3>1, <3>2, <2>1, <2>5
    <3>3. CASE k # Len(c) + 1
      <4>1. k \in 1 .. Len(c) /\ cn[k] = c[k]
        BY <3>3, <2>1
      <4>2. Ordered(c)
        BY <1>3
      <4> QED
        BY <3>1, <4>1, <4>2
    <3> QED
      BY <3>2, <3>3
  <2> QED
    BY <2>6, <2>7
<1>10. ASSUME ~BarrierRead(l),
              cn = c \/ (c # << >> /\ cn = Tail(c)) \/ cn = << >>
       PROVE  /\ \A k \in 1 .. Len(cn) : Good(cn[k], Seen(r)', AckSent(r)', DataSent')
              /\ Ordered(cn)
  <2>1. \A j, k \in 1 .. Len(cn) : j < k =>
          \E x, y \in 1 .. Len(c) : x < y /\ cn[j] = c[x] /\ cn[k] = c[y]
    <3> SUFFICES ASSUME NEW j \in 1 .. Len(cn), NEW k \in 1 .. Len(cn), j < k
                 PROVE  \E x, y \in 1 .. Len(c) : x < y /\ cn[j] = c[x] /\ cn[k] = c[y]
      OBVIOUS
    <3>1. CASE cn = c
      BY <3>1
    <3>2. CASE c # << >> /\ cn = Tail(c)
      <4>1. /\ j + 1 \in 1 .. Len(c) /\ k + 1 \in 1 .. Len(c) /\ j + 1 < k + 1
            /\ cn[j] = c[j + 1] /\ cn[k] = c[k + 1]
        BY <3>2, <1>1, TailFacts
      <4> QED
        BY <4>1
    <3>3. CASE cn = << >>
      BY <3>3
    <3> QED
      BY <1>10, <3>1, <3>2, <3>3
  <2>2. \A k \in 1 .. Len(cn) : \E x \in 1 .. Len(c) : cn[k] = c[x]
    <3> TAKE k \in 1 .. Len(cn)
    <3>1. CASE cn = c
      BY <3>1
    <3>2. CASE c # << >> /\ cn = Tail(c)
      <4>1. k + 1 \in 1 .. Len(c) /\ cn[k] = c[k + 1]
        BY <3>2, <1>1, TailFacts
      <4> QED
        BY <4>1
    <3>3. CASE cn = << >>
      BY <3>3
    <3> QED
      BY <1>10, <3>1, <3>2, <3>3
  <2>3. \A k \in 1 .. Len(cn) : Good(cn[k], Seen(r)', AckSent(r)', DataSent')
    <3> TAKE k \in 1 .. Len(cn)
    <3>1. Good(cn[k], Seen(r), AckSent(r), DataSent) /\ cn[k].n \in Nat
      BY <2>2, <1>2, <1>3
    <3> HIDE DEF Good
    <3> QED
      BY <3>1, <1>1, <1>4, <1>8, <1>10, <1>g
  <2>4. Ordered(cn)
    <3> SUFFICES ASSUME NEW j \in 1 .. Len(cn), NEW k \in 1 .. Len(cn),
                        j < k, cn[j].src = 0, cn[k].src = 0
                 PROVE  Key(cn[j]) < Key(cn[k])
      OBVIOUS
    <3>1. PICK x \in 1 .. Len(c), y \in 1 .. Len(c) : x < y /\ cn[j] = c[x] /\ cn[k] = c[y]
      BY <2>1
    <3>2. Ordered(c)
      BY <1>3
    <3> QED
      BY <3>1, <3>2
  <2> QED
    BY <2>3, <2>4
<1>11. CASE ~BarrierRead(l)
  <2>1. \/ \/ cn = c
           \/ c # << >> /\ cn = Tail(c)
           \/ cn = << >>
        \/ \E q \in Rank : /\ Connect(q) /\ out[q] = Expected(q) /\ out[q].to = l
                           /\ out[q].msg \in Message /\ cn = Append(c, out[q].msg)
    BY <1>1, ConnEffect
  <2>2. /\ \A k \in 1 .. Len(cn) : Good(cn[k], Seen(r)', AckSent(r)', DataSent')
        /\ Ordered(cn)
    <3>1. ASSUME cn = c \/ (c # << >> /\ cn = Tail(c)) \/ cn = << >>
          PROVE  /\ \A k \in 1 .. Len(cn) : Good(cn[k], Seen(r)', AckSent(r)', DataSent')
                 /\ Ordered(cn)
      <4>1. ~BarrierRead(l)
        BY <1>11
      <4> HIDE DEF Good, Ordered, c, cn, l
      <4> QED
        BY <3>1, <4>1, <1>10
    <3>2. ASSUME NEW q \in Rank, Connect(q), out[q] = Expected(q), out[q].to = l,
                 out[q].msg \in Message, cn = Append(c, out[q].msg)
          PROVE  /\ \A k \in 1 .. Len(cn) : Good(cn[k], Seen(r)', AckSent(r)', DataSent')
                 /\ Ordered(cn)
      <4> HIDE DEF Good, Ordered, c, cn
      <4> QED
        BY <3>2, <1>9, <1>11
    <3> HIDE DEF Good, Ordered, c, cn, l
    <3> QED
      BY <2>1, <3>1, <3>2
  <2>3. /\ Seen(r)' <= AckSent(r)'
        /\ r # Half /\ (main'[r] = "lower" \/ ~barrier'[r]) => glob'[r][0] # 0
    BY <1>8, <1>11
  <2> HIDE DEF Good, Ordered, c, cn
  <2> QED
    BY <2>2, <2>3
<1> QED
  BY <1>7, <1>11

\* Rank Half uses up one data message for each of its receives.
LEMMA HalfDataStep ==
    ASSUME Threads, Arrivals, Recorded, Acks, HalfData, [Next]_vars
    PROVE  HalfData'
<1> DEFINE l == <<Half, 0>>
           c == conn[l]
           cn == conn'[l]
           Fresh(m, t) == m.src = 0 /\ (m.kind = "data" => t < m.n)
<1>1. /\ c \in Seq(Message) /\ Half \in Others /\ Half \in Rank /\ 0 \in Rank
      /\ l \in Listener /\ Half # 0
  BY HalfOther, Quantities
<1>2. \A k \in 1 .. Len(c) : c[k].n \in Nat /\ c[k].kind \in {"barrier", "data"}
  BY <1>1, MessageFields
<1>3. /\ \A k \in 1 .. Len(c) : Fresh(c[k], Taken(Half))
      /\ Taken(Half) <= DataSent
      /\ srv[l] = "data_read" => Head(c).kind = "data"
  BY DEF HalfData
<1>4. DataSent <= DataSent' /\ DataSent' \in Int /\ DataSent \in Int
  BY <1>1, SentGrows, DataBound
<1>5. Taken(Half) \in Int
  <2>1. calls[Half] \in Nat /\ (calls[Half] + 1) \div 2 \in Nat
    BY <1>1, MainTypes, Parity DEF Threads
  <2> QED
    BY <2>1 DEF Taken
<1>6. \A j, k \in 1 .. Len(c) : j < k => Key(c[j]) < Key(c[k])
  BY <1>1, <1>3 DEF Acks, AcksOf
<1>7. \A k \in 1 .. Len(c) : c[k].kind = "data" => c[k].n <= DataSent
  BY <1>1, <1>3 DEF Acks, AcksOf
<1> SUFFICES
      /\ \A k \in 1 .. Len(cn) : Fresh(cn[k], Taken(Half)')
      /\ Taken(Half)' <= DataSent'
      /\ srv'[l] = "data_read" => Head(cn).kind = "data"
  BY DEF HalfData
<1>8. ASSUME c # << >>, cn = Tail(c), c[1].kind = "data",
             Taken(Half)' = Taken(Half) + 1
      PROVE  /\ \A k \in 1 .. Len(cn) : Fresh(cn[k], Taken(Half)')
             /\ Taken(Half)' <= DataSent'
  <2>1. /\ 1 \in 1 .. Len(c)
        /\ \A k \in 1 .. Len(cn) : cn[k] = c[k + 1] /\ k + 1 \in 1 .. Len(c) /\ 1 < k + 1
    BY <1>1, <1>8, TailFacts
  <2>2. /\ c[1].n \in Nat /\ Taken(Half) < c[1].n /\ c[1].n <= DataSent
    BY <2>1, <1>2, <1>3, <1>7, <1>8
  <2>3. ASSUME NEW k \in 1 .. Len(cn) PROVE Fresh(cn[k], Taken(Half)')
    <3>1. /\ cn[k].src = 0 /\ cn[k].n \in Nat /\ Key(c[1]) < Key(cn[k])
      BY <2>1, <1>2, <1>3, <1>6
    <3>2. cn[k].kind = "data" => c[1].n < cn[k].n
      BY <3>1, <1>8 DEF Key
    <3> QED
      BY <3>1, <3>2, <2>2, <1>5, <1>8
  <2> QED
    BY <2>2, <2>3, <1>4, <1>5, <1>8
<1>9. CASE DataRead(l)
  <2>1. /\ srv[l] = "data_read" /\ conn' = [conn EXCEPT ![l] = Tail(@)]
        /\ \E pc \in {"clear", "stuck"} : srv' = [srv EXCEPT ![l] = pc]
    BY <1>9 DEF DataRead, DropHead
  <2>2. c # << >>
    BY <2>1, <1>1 DEF Threads, Serving
  <2>3. cn = Tail(c) /\ srv'[l] # "data_read"
    BY <2>1, <1>1 DEF Threads, TypeOK
  <2>4. c[1].kind = "data"
    BY <2>1, <2>2, <1>1, <1>3, TailFacts
  <2>5. ~BarrierRead(l)
    BY <2>1 DEF BarrierRead
  <2>6. CASE Taken(Half)' = Taken(Half) + 1
    <3> HIDE DEF Fresh, c, cn, l
    <3> QED
      BY <1>8, <2>2, <2>3, <2>4, <2>6
  <2>7. CASE Taken(Half)' \in Int /\ Taken(Half)' <= Taken(Half)
    <3>1. ASSUME NEW k \in 1 .. Len(cn) PROVE Fresh(cn[k], Taken(Half)')
      <4>1. cn[k] = c[k + 1] /\ k + 1 \in 1 .. Len(c)
        BY <2>2, <2>3, <1>1, TailFacts
      <4>2. Fresh(cn[k], Taken(Half)) /\ cn[k].n \in Nat
        BY <4>1, <1>2, <1>3
      <4> QED
        BY <4>2, <2>7, <1>5
    <3> QED
      BY <3>1, <2>3, <2>7, <1>3, <1>4, <1>5
  <2> QED
    BY <2>5, <2>6, <2>7, TakenEffect
<1>10. CASE BarrierRead(l)
  <2>1. /\ srv[l] = "barrier_read" /\ conn' = [conn EXCEPT ![l] = Tail(@)]
        /\ \E pc \in {"accept", "stuck"} : srv' = [srv EXCEPT ![l] = pc]
    BY <1>10 DEF BarrierRead, DropHead
  <2>2. c # << >>
    BY <2>1, <1>1 DEF Threads, Serving
  <2>3. cn = Tail(c) /\ srv'[l] # "data_read"
    BY <2>1, <1>1 DEF Threads, TypeOK
  <2>4. ~DataRead(l)
    BY <2>1 DEF DataRead
  <2>5. CASE /\ main[Half] = "lower" \/ ~barrier[Half]
             /\ Taken(Half)' = Taken(Half) + 1
    <3>1. c[1].src = 0
      BY <2>2, <1>1, <1>3
    <3>2. c[1].kind = "data"
      BY <2>2, <2>5, <3>1, <1>1, ReadInBarrier
    <3> HIDE DEF Fresh, c, cn, l
    <3> QED
      BY <1>8, <2>2, <2>3, <2>5, <3>2
  <2>6. CASE Taken(Half)' \in Int /\ Taken(Half)' <= Taken(Half)
    <3>1. ASSUME NEW k \in 1 .. Len(cn) PROVE Fresh(cn[k], Taken(Half)')
      <4>1. cn[k] = c[k + 1] /\ k + 1 \in 1 .. Len(c)
        BY <2>2, <2>3, <1>1, TailFacts
      <4>2. Fresh(cn[k], Taken(Half)) /\ cn[k].n \in Nat
        BY <4>1, <1>2, <1>3
      <4> QED
        BY <4>2, <2>6, <1>5
    <3> QED
      BY <3>1, <2>3, <2>6, <1>3, <1>4, <1>5
  <2> QED
    BY <2>4, <2>5, <2>6, TakenEffect
<1>11. CASE ~DataRead(l) /\ ~BarrierRead(l)
  <2>1. Taken(Half)' \in Int /\ Taken(Half)' <= Taken(Half)
    BY <1>11, TakenEffect
  <2>2. Taken(Half)' <= DataSent'
    BY <2>1, <1>3, <1>4, <1>5
  <2>3. \A k \in 1 .. Len(c) : Fresh(c[k], Taken(Half)')
    BY <2>1, <1>2, <1>3, <1>5
  <2>4. CASE cn = c \/ (c # << >> /\ cn = Tail(c)) \/ cn = << >>
    <3>1. ASSUME NEW k \in 1 .. Len(cn) PROVE Fresh(cn[k], Taken(Half)')
      <4>1. CASE cn = c
        BY <2>3, <4>1
      <4>2. CASE c # << >> /\ cn = Tail(c)
        <5>1. k + 1 \in 1 .. Len(c) /\ cn[k] = c[k + 1]
          BY <4>2, <1>1, TailFacts
        <5> QED
          BY <5>1, <2>3
      <4>3. CASE cn = << >>
        BY <4>3
      <4> QED
        BY <2>4, <4>1, <4>2, <4>3
    <3>2. ASSUME srv'[l] = "data_read" PROVE Head(cn).kind = "data"
      <4>1. CASE Test(l)
        <5>1. ~barrier[Half] /\ srv[l] = "test" /\ conn' = conn
          BY <1>1, <3>2, <4>1 DEF Test, Threads, TypeOK
        <5>2. c # << >>
          BY <5>1, <1>1 DEF Threads, Serving
        <5>3. c[1].src = 0 /\ Head(c) = c[1]
          BY <5>2, <1>1, <1>3, TailFacts
        <5> QED
          BY <5>1, <5>2, <5>3, <1>1, ReadInBarrier
      <4>2. CASE srv[l] = "data_read" /\ conn'[l] = conn[l]
        BY <4>2, <1>3
      <4>3. CASE srv[l] = "data_read" /\ (\E q \in Rank : Connect(q))
        <5>1. PICK q \in Rank : Connect(q)
          BY <4>3
        <5>2. conn' = [conn EXCEPT ![out[q].to] = Append(@, out[q].msg)]
          BY <5>1 DEF Connect
        <5>3. c # << >>
          BY <4>3, <1>1 DEF Threads, Serving
        <5>4. cn = c \/ cn = Append(c, out[q].msg)
          BY <5>2, <1>1 DEF Threads, TypeOK
        <5>5. cn # Append(c, out[q].msg) \/ cn = c
          <6>1. out[q].msg \in Message
            <7>1. main[q] = "connect" /\ out[q] = Expected(q)
              BY <5>1 DEF Connect, Threads, Outgoing, Clienting
            <7> QED
              BY <7>1, ExpectedType DEF Threads, Clienting
          <6>2. cn = Append(c, out[q].msg) => Len(cn) = Len(c) + 1
            BY <6>1, <1>1, AppendFacts
          <6>3. Len(c) \in Nat /\ (c # << >> => Len(Tail(c)) = Len(c) - 1)
            BY <1>1, TailFacts
          <6>4. Len(<< >>) = 0
            OBVIOUS
          <6> QED
            <7>1. CASE cn = c
              BY <7>1
            <7>2. CASE c # << >> /\ cn = Tail(c)
              BY <7>2, <6>2, <6>3
            <7>3. CASE cn = << >>
              BY <7>3, <6>2, <6>3, <6>4
            <7> QED
              BY <2>4, <7>1, <7>2, <7>3
        <5> QED
          BY <5>4, <5>5, <4>3, <1>3
      <4> QED
        BY <1>1, <3>2, <4>1, <4>2, <4>3, HeadEffect
    <3> HIDE DEF Fresh, c, cn, l
    <3> QED
      BY <3>1, <3>2, <2>2
  <2>5. ASSUME NEW q \in Rank, Connect(q), out[q] = Expected(q), out[q].to = l,
               out[q].msg \in Message, cn = Append(c, out[q].msg)
        PROVE  /\ \A k \in 1 .. Len(cn) : Fresh(cn[k], Taken(Half)')
               /\ srv'[l] = "data_read" => Head(cn).kind = "data"
    <3> DEFINE m == out[q].msg
    <3>1. /\ Len(cn) = Len(c) + 1 /\ Len(c) \in Nat /\ cn[Len(c) + 1] = m
          /\ \A k \in 1 .. Len(c) : cn[k] = c[k]
      BY <1>1, <2>5, AppendFacts
    <3>2. Fresh(m, Taken(Half)')
      <4>1. CASE ~barrier[q]
        <5>1. Partner(q) = Half /\ m = Data(q, Exchange(calls[q] - 1))
          BY <1>1, <2>5, <4>1, ConnectToOther
        <5>2. q = 0
          BY <5>1, PartnerFacts
        <5>3. Exchange(calls[0] - 1) = DataSent + 1
          BY <2>5, <4>1, <5>2, NextData
        <5>4. m.src = 0 /\ m.n = DataSent + 1
          BY <5>1, <5>2, <5>3 DEF Data
        <5> QED
          BY <5>4, <2>1, <1>3, <1>4, <1>5
      <4>2. CASE barrier[q]
        <5>1. m = BarrierMsg(0, entered[0])
          BY <1>1, <2>5, <4>2, ConnectToOther
        <5> QED
          BY <5>1 DEF BarrierMsg
      <4> QED
        BY <4>1, <4>2
    <3>3. ASSUME NEW k \in 1 .. Len(cn) PROVE Fresh(cn[k], Taken(Half)')
      <4>1. CASE k = Len(c) + 1
        BY <4>1, <3>1, <3>2
      <4>2. CASE k # Len(c) + 1
        <5>1. k \in 1 .. Len(c) /\ cn[k] = c[k]
          BY <4>2, <3>1
        <5> QED
          BY <5>1, <2>3
      <4> QED
        BY <4>1, <4>2
    <3>4. ASSUME srv'[l] = "data_read" PROVE Head(cn).kind = "data"
      <4>1. srv' = srv
        BY <2>5 DEF Connect
      <4>2. c # << >>
        BY <3>4, <4>1, <1>1 DEF Threads, Serving
      <4>3. Head(cn) = Head(c)
        <5>1. cn \in Seq(Message) /\ cn # << >> /\ cn[1] = c[1]
          <6>1. cn \in Seq(Message)
            BY <1>1, <2>5, AppendFacts
          <6>2. 1 \in 1 .. Len(c)
            BY <4>2, <1>1
          <6>3. Len(cn) # 0 /\ cn[1] = c[1]
            BY <3>1, <6>2
          <6> QED
            BY <6>1, <6>3
        <5> QED
          BY <5>1, <4>2, <1>1, TailFacts
      <4> QED
        BY <3>4, <4>1, <4>3, <1>3
    <3> HIDE DEF Fresh, c, cn, l
    <3> QED
      BY <3>3, <3>4
  <2>6. \/ cn = c \/ (c # << >> /\ cn = Tail(c)) \/ cn = << >>
        \/ \E q \in Rank : /\ Connect(q) /\ out[q] = Expected(q) /\ out[q].to = l
                           /\ out[q].msg \in Message /\ cn = Append(c, out[q].msg)
    BY <1>1, ConnEffect
  <2> HIDE DEF Fresh, c, cn, l
  <2> QED
    BY <2>2, <2>4, <2>5, <2>6
<1> QED
  BY <1>9, <1>10, <1>11

----------------------------------------------------------------------------
(* The theorems of this module.  *)

\* Nobody is in a barrier and nothing is recorded or on its way.
LEMMA IndInvInit == Init => IndInv
<1> SUFFICES ASSUME Init PROVE IndInv
  OBVIOUS
<1> USE DEF Init, LibInit
<1>1. Threads
  BY ThreadsInit
<1>2. 0 \in Rank /\ Half \in Rank /\ <<Half, 0>> \in Listener /\ (0 + 1) \div 2 = 0
  BY ZeroRank, HalfOther, ListenerFacts
<1>3. \A r \in Others : r \in Rank /\ <<0, r>> \in Listener /\ <<r, 0>> \in Listener
  BY ZeroRank, ListenerFacts
<1>4. ASSUME NEW r \in Others PROVE ArrivalsOf(r)
  <2>1. conn[<<0, r>>] = << >> /\ glob[0][r] = -1
    BY <1>2, <1>3
  <2>2. ~barrier[0] /\ ~barrier[r] /\ entered[0] = 0 /\ entered[r] = 0
    BY <1>2, <1>3
  <2> HIDE DEF Init, LibInit
  <2>3. Gathering = 1 /\ ArrivalSent(r) = 0
    BY <2>2 DEF Gathering, ArrivalSent
  <2>4. r \in Nat
    BY <1>1, Quantities
  <2> QED
    BY <2>1, <2>3, <2>4 DEF ArrivalsOf
<1>5. Recorded
  BY <1>2 DEF Recorded, Gathered
<1>6. ASSUME NEW r \in Others PROVE AcksOf(r)
  <2>1. /\ conn[<<r, 0>>] = << >> /\ glob[r][0] = -1
        /\ Seen(r) = 0 /\ AckSent(r) = 0
    BY <1>2, <1>3 DEF Seen, AckSent
  <2> HIDE DEF Init, LibInit
  <2> QED
    BY <2>1 DEF AcksOf
<1>7. HalfData
  BY <1>2 DEF HalfData, Taken, DataSent
<1> QED
  BY <1>1, <1>4, <1>5, <1>6, <1>7 DEF IndInv, Threads, Arrivals, Acks

\* Every step keeps the invariant.
LEMMA IndInvStep == IndInv /\ [Next]_vars => IndInv'
<1> SUFFICES ASSUME IndInv, [Next]_vars PROVE IndInv'
  OBVIOUS
<1>1. Threads /\ Arrivals /\ Recorded /\ Acks /\ HalfData
  BY DEF IndInv, Threads
<1>2. TypeOK' /\ Control' /\ Outgoing' /\ Serving'
  BY <1>1, TypeStep, ControlStep, OutgoingStep, ServingStep
<1>3. Arrivals'
  <2>1. \A r \in Others : ArrivalsOf(r)'
    BY <1>1, ArrivalsStep
  <2> QED
    BY <2>1 DEF Arrivals
<1>4. Recorded'
  BY <1>1, RecordedStep
<1>5. Acks'
  <2>1. \A r \in Others : AcksOf(r)'
    BY <1>1, AcksStep
  <2> QED
    BY <2>1 DEF Acks
<1>6. HalfData'
  BY <1>1, HalfDataStep
<1> QED
  BY <1>2, <1>3, <1>4, <1>5, <1>6 DEF IndInv

\* Arrivals, acknowledgements and data are counted as IndInv says, for every
\* number of ranks, list of sizes and schedule of the threads.
THEOREM BarrierInductive == Spec => []IndInv
  BY IndInvInit, IndInvStep, PTL DEF Spec

\* A rank is through no more episodes than rank 0 has acknowledged to anyone.
LEMMA LeftBound ==
    ASSUME IndInv, NEW r \in Rank, NEW s \in Rank
    PROVE  /\ left[r] <= entered[s]
           /\ main[r] = "lower" => left[r] < entered[s]
<1>1. Threads /\ Arrivals /\ Recorded /\ Acks
  BY DEF IndInv, Threads
<1>2. /\ entered \in [Rank -> Nat] /\ left \in [Rank -> Nat]
      /\ 0 \in Rank /\ 1 \in Others
  BY <1>1, MainTypes, ZeroRank, OthersFacts DEF Threads
<1>3. /\ entered[r] = left[r] + (IF barrier[r] THEN 1 ELSE 0)
      /\ main[r] = "lower" => barrier[r]
  BY <1>1 DEF Threads, Control
<1>4. CASE r = 0
  <2>1. AckSent(1) <= entered[s] /\ AckSent(1) \in Int
    BY <1>1, <1>2, AckBound, Quantities
  <2> QED
    BY <1>2, <1>3, <1>4, <2>1 DEF AckSent
<1>5. CASE r # 0
  <2>1. r \in Others
    BY <1>5 DEF Others
  <2>2. AckSent(r) <= entered[s] /\ AckSent(r) \in Int
    BY <1>1, <2>1, AckBound, Quantities
  <2>3. Seen(r) <= AckSent(r) /\ Seen(r) \in Int
    BY <1>1, <2>1, Quantities DEF Acks, AcksOf
  <2> QED
    BY <1>2, <1>3, <2>2, <2>3 DEF Seen
<1> QED
  BY <1>4, <1>5

\* MPI_Barrier (lines 392-448) never lets a rank out before every rank is in,
\* whatever the number of ranks, the data sent and the order of the steps.
THEOREM BarrierIsSafe == Spec => []BarrierSafe
<1>1. IndInv => BarrierSafe
  BY LeftBound DEF BarrierSafe
<1> QED
  BY <1>1, BarrierInductive, PTL

\* A step of the library and its driver is a step of the abstract barrier, or
\* changes nothing that the abstract barrier shows.
LEMMA SyncStep == IndInv /\ [Next]_vars => [Sync!Next]_(Sync!vars)
<1> SUFFICES ASSUME IndInv, [Next]_vars PROVE [Sync!Next]_(Sync!vars)
  OBVIOUS
<1>1. Threads
  BY DEF IndInv, Threads
<1>2. entered \in [Rank -> Nat] /\ left \in [Rank -> Nat]
  BY <1>1, MainTypes DEF Threads
<1>3. ASSUME NEW r \in Rank, EnterBarrier(r) PROVE Sync!Next
  <2>1. entered[r] = left[r]
    <3>1. main[r] = "bar_sleep"
      BY <1>3 DEF EnterBarrier
    <3>2. ~barrier[r] /\ entered[r] = left[r] + (IF barrier[r] THEN 1 ELSE 0)
      BY <1>1, <3>1 DEF Threads, Control, Clienting
    <3> QED
      BY <1>2, <3>2
  <2>2. Sync!Enter(r)
    BY <1>3, <2>1 DEF EnterBarrier, Sync!Enter
  <2> QED
    BY <2>2 DEF Sync!Next
<1>4. ASSUME NEW r \in Rank, Lower(r) PROVE Sync!Next
  <2>1. \A s \in Rank : left[r] < entered[s]
    BY <1>4, LeftBound DEF Lower
  <2>2. Sync!Leave(r)
    BY <1>2, <1>4, <2>1 DEF Lower, Sync!Leave
  <2> QED
    BY <2>2 DEF Sync!Next
<1>5. CASE UNCHANGED <<entered, left>>
  BY <1>5 DEF Sync!vars
<1>6. \/ \E r \in Rank : EnterBarrier(r) \/ Lower(r)
      \/ UNCHANGED <<entered, left>>
  BY OnlyBarrier
<1> QED
  BY <1>3, <1>4, <1>5, <1>6

\* The library and its driver implement BarrierSync: MPI_Barrier is a barrier.
THEOREM BarrierRefines == Spec => Synchronises
<1>1. Init => Sync!Init
  BY DEF Init, LibInit, Sync!Init
<1> QED
  BY <1>1, SyncStep, BarrierInductive, PTL DEF Spec, Synchronises, Sync!Spec
============================================================================
