------------------------------ MODULE MyRttInv ------------------------------
(***************************************************************************)
(* The inductive invariant behind BarrierSafe.  It says nothing about time:*)
(* the barrier of my_mpi.c is safe however the threads are scheduled, even *)
(* where messages are lost.                                                *)
(***************************************************************************)
EXTENDS MyRtt

Clienting == {"connect", "write", "retry"}

\* The episode rank 0 gathers arrivals for, from the reset of the last one on.
Gathering == IF barrier[0] /\ main[0] # "lower" THEN entered[0] ELSE entered[0] + 1

\* Rank 0 has seen every arrival of that episode.
Gathered == barrier[0] /\ main[0] \in Clienting \cup {"reset", "dead"}

\* The last episode for which r's arrival is on its way to rank 0.
ArrivalSent(r) ==
    IF barrier[r] /\ main[r] \in {"connect", "retry"} THEN entered[r] - 1 ELSE entered[r]

\* The last episode for which rank 0 has sent its acknowledgement to r.
AckSent(r) ==
    IF /\ barrier[0]
       /\ \/ main[0] = "wait"
          \/ main[0] \in {"connect", "retry", "dead"} /\ r >= i
          \/ main[0] = "write" /\ r > i
      THEN entered[0] - 1 ELSE entered[0]

\* The last episode that is over for r: it left it, or was told it may.
Seen(r) ==
    IF barrier[r] /\ main[r] \notin {"reset", "lower"} /\ glob[r][0] # 0
      THEN entered[r] - 1 ELSE entered[r]

\* Data messages rank 0 has sent.
DataSent ==
    IF left[0] = 0 THEN 0
    ELSE ((calls[0] + 1) \div 2) - (IF ~barrier[0] /\ main[0] \in {"connect", "retry", "dead"}
                                      THEN 1 ELSE 0)

\* Receives of rank 0's partner that are over or have had their flag cleared,
\* plus the data message its server thread is about to clear the flag for,
\* plus one that wrote a stale acknowledgement between the barriers.
Taken(r) ==
    (calls[r] + 1) \div 2
    - (IF main[r] = "post" \/ (main[r] = "recv" /\ rcv_flag[r]) THEN 1 ELSE 0)
    + (IF srv[<<r, 0>>] = "clear" THEN 1 ELSE 0)
    + (IF glob[r][0] = 0 /\ (main[r] = "lower" \/ ~barrier[r]) THEN 1 ELSE 0)

\* Rank 0's messages to one rank are in the order ack 1, data, ack 2.
Key(m) == IF m.kind = "data" THEN m.n ELSE IF m.n = 1 THEN 0 ELSE Len(Sizes) + 1

----------------------------------------------------------------------------
\* Where a main thread is tells how often it has been through a barrier.
Control ==
    \A r \in Rank :
        /\ entered[r] = left[r] + (IF barrier[r] THEN 1 ELSE 0)
        /\ entered[r] <= 2
        /\ main[r] \in {"wait", "spin_ack", "reset", "lower"} => barrier[r]
        /\ barrier[r] => main[r] \in Clienting \cup
                              {"wait", "spin_ack", "reset", "lower", "dead"}
        /\ main[r] = "wait" => r = 0
        /\ main[r] = "connect" => ctr[r] < MaxTries
        /\ main[r] = "spin_ack" => r # 0
        /\ main[r] \in {"down", "init_sleep"} => left[r] = 0
        /\ main[r] = "bar_sleep" => left[r] <= 1
        /\ main[r] \in {"bar_exit", "app"} => left[r] \in {1, 2}
        /\ ~barrier[r] /\ main[r] \in Clienting \cup {"post", "recv"} => left[r] = 1
        /\ main[r] \in {"post", "recv"} => ~IsSend(r, calls[r] - 1)
        /\ ~barrier[r] /\ main[r] \in Clienting => IsSend(r, calls[r] - 1)
        /\ main[r] \in {"post", "recv"} \/ (~barrier[r] /\ main[r] \in Clienting)
             => calls[r] > 0
        /\ left[r] = 0 => calls[r] = 0
        /\ left[r] = 2 \/ (left[r] = 1 /\ (main[r] = "bar_sleep" \/ barrier[r]))
             => calls[r] = 2 * Len(Sizes)

\* What the current client() call of r sends, and where.
Expected(r) ==
    IF ~barrier[r]
      THEN [to |-> <<Partner(r), 0>>, msg |-> Data(r, Exchange(calls[r] - 1))]
      ELSE IF r = 0
        THEN [to |-> <<i, 0>>, msg |-> BarrierMsg(0, entered[0])]
        ELSE [to |-> <<0, r>>, msg |-> BarrierMsg(r, entered[r])]

Outgoing == \A r \in Rank : main[r] \in Clienting => out[r] = Expected(r)

\* A thread that is past accept() has a connection; only port 30014 reads data.
Serving ==
    \A l \in Listener :
        /\ srv[l] \in {"spin", "test", "barrier_read", "data_read"} => conn[l] # << >>
        /\ srv[l] \in {"data_read", "clear"} => l[2] = 0

\* Arrivals of r at rank 0: none older than the episode being gathered, in
\* order, and the recorded one belongs to that episode or a later one.
ArrivalsOf(r) ==
    LET c == conn[<<0, r>>]
    IN  /\ glob[0][r] \in {-1, r}
        /\ Gathering - 1 <= ArrivalSent(r)
        /\ glob[0][r] = r => Gathering <= ArrivalSent(r)
        /\ \A k \in 1 .. Len(c) :
             /\ c[k].src = r /\ c[k].first = r /\ c[k].bytes = BarrierSize
             /\ Gathering <= c[k].n /\ c[k].n <= ArrivalSent(r)
             /\ glob[0][r] = r => Gathering < c[k].n
        /\ \A j, k \in 1 .. Len(c) : j < k => c[j].n < c[k].n

Arrivals == \A r \in Others : ArrivalsOf(r)

\* Rank 0 acknowledges when every arrival of the episode is recorded.
Recorded ==
    \A r \in Others :
        Gathered \/ (main[0] = "wait" /\ r < i) => glob[0][r] = r

\* Messages from rank 0 to r, which come between those of other ranks:
\* acknowledgements r has not seen, and data for rank Half only.
AcksOf(r) ==
    LET c == conn[<<r, 0>>]
    IN  /\ Seen(r) <= AckSent(r)
        /\ r # Half /\ (main[r] = "lower" \/ ~barrier[r]) => glob[r][0] # 0
        /\ \A k \in 1 .. Len(c) :
             /\ c[k].first = c[k].src
             /\ c[k].src = 0 =>
                  \/ /\ c[k].kind = "barrier"
                     /\ Seen(r) < c[k].n /\ c[k].n <= AckSent(r)
                  \/ /\ c[k].kind = "data" /\ r = Half
                     /\ 1 <= c[k].n /\ c[k].n <= DataSent
        /\ \A j, k \in 1 .. Len(c) :
             j < k /\ c[j].src = 0 /\ c[k].src = 0 => Key(c[j]) < Key(c[k])

Acks == \A r \in Others : AcksOf(r)

\* Only rank 0 sends data to rank Half, and each of its receives has used up
\* a message: none is left when it enters its second barrier.
HalfData ==
    LET c == conn[<<Half, 0>>]
    IN  /\ \A k \in 1 .. Len(c) :
             /\ c[k].src = 0
             /\ c[k].kind = "data" => Taken(Half) < c[k].n
        /\ Taken(Half) <= DataSent
        /\ srv[<<Half, 0>>] = "data_read" => Head(c).kind = "data"

IndInv ==
    /\ TypeOK
    /\ Control
    /\ Outgoing
    /\ Serving
    /\ Arrivals
    /\ Recorded
    /\ Acks
    /\ HalfData

----------------------------------------------------------------------------
(* Barriers for TLC *)

SizesOne   == <<16>>
SizesMixed == <<4, 16>>
============================================================================
