-------------------------------- MODULE Deriv --------------------------------
(***************************************************************************)
(* The parallel derivative program hw1/p2_mpi.c.  Every rank computes fn   *)
(* on its block of the grid, exchanges the values at the block's edges     *)
(* with its neighbours, differentiates, and the root collects the blocks.  *)
(*                                                                         *)
(* A rank's program is a sequence of calls that depends on its rank and on *)
(* the arguments; pc[r] counts the calls it has made.  A value is the set  *)
(* of grid points it is computed from, Junk when it was never computed.    *)
(***************************************************************************)
EXTENDS Integers, MpiPt2pt

CONSTANTS
    NGRID,     \* number of grid points
    numproc,   \* number of ranks
    Arguments  \* command lines, with the eager limit of the library

BLK   == 0
NBLK  == 1
MPI_G == 0
MAN_G == 1

ASSUME NGRIDAssumption   == NGRID \in Nat \ {0}
ASSUME numprocAssumption == numproc \in Nat \ {0}
ASSUME ArgumentsAssumption ==
    Arguments \subseteq [p2p_typ : {BLK, NBLK}, gat_typ : {MPI_G, MAN_G}, eager : Nat \ {0}]

Rank == 0 .. numproc - 1

\* The block of rank r in the grid points 1 .. NGRID: the first NGRID % numproc
\* ranks get one point more than the others.
start(r) ==
    IF r < NGRID % numproc THEN 1 + (NGRID \div numproc) * r + r
                           ELSE 1 + (NGRID \div numproc) * r + (NGRID % numproc)

end(r) ==
    IF r < NGRID % numproc THEN start(r) + NGRID \div numproc
                           ELSE start(r) + NGRID \div numproc - 1

counts(r) == end(r) - start(r) + 1
disp(r)   == start(r) - 1

VARIABLES
    arg,         \* the command line
    pc,          \* pc[r]: how many calls of its program rank r has made
    yc,          \* yc[r]: fn on the block and at both its neighbours
    dyc,         \* dyc[r]: the derivative on the block
    full,        \* the root's fxc, fyc and fdyc
    freed,       \* ranks that have freed their buffers
    i,           \* the request the root's MPI_Test loop looks at
    null,        \* requests that are MPI_REQUEST_NULL
    count_flag,  \* requests MPI_Test has found complete
    file         \* the tables print_function_data has written

data == <<yc, dyc, full, freed>>
poll == <<i, null, count_flag>>
vars == <<pc, arg, data, poll, file, sends, recvs>>

Junk   == {}
Root   == 0
LastRank   == numproc - 1
Array  == <<"xc", "yc", "dyc">>
XC_TAG == 13
YC_TAG == 17
Inner(r) == 1 .. counts(r)

XC(r) == [k \in Inner(r) |-> {start(r) + k - 1}]
\* xc[2] - xc[1] needs a second point; xc[2] is not yet set when there is none.
DxKnown(r) == counts(r) >= 2

Contents(r, b) ==
    CASE b = "xc"    -> XC(r)
      [] b = "yc"    -> [k \in Inner(r) |-> yc[r][k]]
      [] b = "dyc"   -> dyc[r]
      [] b = "first" -> <<yc[r][1]>>
      [] b = "last"  -> <<yc[r][counts(r)]>>
      [] b = "time"  -> <<{}>>

----------------------------------------------------------------------------
(* The calls a rank makes.  *)

CallNames == {"Isend", "Irecv", "WaitSend", "WaitRecv", "ghosts", "yc", "dyc",
              "copy", "test", "print", "free", "finalize"}
SendBufs == Range(Array) \cup {"first", "last", "time"}
RecvBufs == Range(Array) \cup {"left", "right", "time"}
Calls == [call : CallNames, peer : Rank, tag : Int, buf : SendBufs \cup RecvBufs]

Make(call, peer, tag, b) == <<[call |-> call, peer |-> peer, tag |-> tag, buf |-> b]>>
Isend(to, tag, b)   == Make("Isend", to, tag, b)
Irecv(src, tag, b)  == Make("Irecv", src, tag, b)
WaitSend(to, b)     == Make("WaitSend", to, 0, b)
WaitRecv(src, b)    == Make("WaitRecv", src, 0, b)
Local(what)         == Make(what, Root, 0, "time")
Send(to, tag, b)    == Isend(to, tag, b) \o WaitSend(to, b)
Recv(src, tag, b)   == Irecv(src, tag, b) \o WaitRecv(src, b)
If(c, calls)        == IF c THEN calls ELSE << >>
\* for(i=1; i<numproc; i++)
Others              == 1 .. numproc - 1
InTurn(body)        == FoldRight(LAMBDA calls, rest : calls \o rest, body, << >>)

Manual(a)      == a.gat_typ = MAN_G
NonBlocking(a) == a.p2p_typ = NBLK

\* Start collecting an array while the computation goes on; tag[k] is the tag
\* of rank k's block.
Collect(a, r, tag, b) ==
    If(Manual(a) /\ NonBlocking(a),
       IF r # Root THEN Isend(Root, tag[r], b)
                   ELSE InTurn([k \in Others |-> Irecv(k, tag[k], b)]))

StartXC(a, r) == Collect(a, r, [k \in Rank |-> XC_TAG * k], "xc")

PostGhosts(a, r) ==
    Local("ghosts") \o
    If(NonBlocking(a),
       If(r # Root, Irecv(r - 1, 123457, "left")) \o
       If(r # LastRank, Irecv(r + 1, 123456, "right")))

StartYC(a, r) ==
    Local("yc") \o Collect(a, r, [k \in Rank |-> YC_TAG * k], "yc") \o
    If(Manual(a) /\ NonBlocking(a) /\ r # Root, WaitSend(Root, "yc"))

\* mutant: the receive from the left neighbour is posted first
BlockingEdges_recvFirst(r) ==
    If(r # Root, Recv(r - 1, 123, "left") \o Send(r - 1, 123, "first")) \o
    If(r # LastRank, Recv(r + 1, 123, "right") \o Send(r + 1, 123, "last"))

BlockingEdges(r) ==
    If(r # Root, Send(r - 1, 123, "first") \o Recv(r - 1, 123, "left")) \o
    If(r # LastRank, Send(r + 1, 123, "last") \o Recv(r + 1, 123, "right"))

NonBlockingEdges(r) ==
    If(r # Root, Isend(r - 1, 123456, "first")) \o
    If(r # LastRank, Isend(r + 1, 123457, "last")) \o
    If(r # Root, WaitRecv(r - 1, "left")) \o
    If(r # LastRank, WaitRecv(r + 1, "right"))

Edges(a, r) == IF NonBlocking(a) THEN NonBlockingEdges(r) ELSE BlockingEdges(r)

StartDYC(a, r) == Local("dyc") \o Collect(a, r, [k \in Rank |-> 5678], "dyc")

\* MPI_Gatherv: a message of every other rank to the root, which also copies
\* its own block.
Gatherv(r) ==
    LET gather(v) == IF r # Root THEN Send(Root, -v, Array[v])
                                 ELSE InTurn([k \in Others |-> Recv(k, -v, Array[v])])
    IN  gather(1) \o gather(2) \o gather(3) \o If(r = Root, Local("copy"))

\* mutant: the blocks are sent without waiting
BlockingGather_isend(a, r) ==
    If(~NonBlocking(a),
       IF r # Root
         THEN Isend(Root, 123, "xc") \o Isend(Root, 124, "yc") \o Isend(Root, 125, "dyc")
         ELSE InTurn([k \in Others |-> Recv(k, 123, "xc") \o Recv(k, 124, "yc")
                                                  \o Recv(k, 125, "dyc")]))

BlockingGather(a, r) ==
    If(~NonBlocking(a),
       IF r # Root
         THEN Send(Root, 123, "xc") \o Send(Root, 124, "yc") \o Send(Root, 125, "dyc")
         ELSE InTurn([k \in Others |-> Recv(k, 123, "xc") \o Recv(k, 124, "yc")
                                                  \o Recv(k, 125, "dyc")]))

Gather(a, r) ==
    IF Manual(a) THEN BlockingGather(a, r) \o If(r = Root, Local("copy")) ELSE Gatherv(r)

TestAll_skipped(a, r) == << >>  \* mutant: nobody waits for the receives

TestAll(a, r) == If(numproc # 1 /\ Manual(a) /\ NonBlocking(a) /\ r = Root, Local("test"))

\* The root has the sum when every other rank has called MPI_Reduce.
Reduce(r) ==
    IF r # Root THEN Isend(Root, -4, "time")
                ELSE InTurn([k \in Others |-> Recv(k, -4, "time")])

Finish(r) == If(r = Root, Local("print")) \o Local("free") \o Local("finalize")

Program(a, r) ==
    StartXC(a, r) \o PostGhosts(a, r) \o StartYC(a, r) \o Edges(a, r) \o
    StartDYC(a, r) \o Gather(a, r) \o TestAll(a, r) \o Reduce(r) \o Finish(r)

Programs == [a \in Arguments |-> [r \in Rank |-> Program(a, r)]]

----------------------------------------------------------------------------
(* What the calls do.  *)

Blank(n) == [k \in 1 .. n |-> Junk]

Init ==
    /\ arg \in Arguments
    /\ pc = [r \in Rank |-> 0]
    /\ yc = [r \in Rank |-> [k \in 0 .. counts(r) + 1 |-> Junk]]
    /\ dyc = [r \in Rank |-> Blank(counts(r))]
    /\ full = [b \in {"xc", "yc", "dyc"} |-> Blank(NGRID)]
    /\ freed = {}
    /\ i = 0 /\ null = {} /\ count_flag = 0
    /\ file = << >>
    /\ sends = Idle(Rank) /\ recvs = Idle(Rank)

Done(r)     == pc[r] = Len(Programs[arg][r])
Call(r)     == Programs[arg][r][pc[r] + 1]
At(r, call) == ~Done(r) /\ Call(r).call = call
Advance(r)  == pc' = [pc EXCEPT ![r] = @ + 1]

MPI_Isend(r) ==
    /\ At(r, "Isend")
    /\ Post(r, Call(r).peer, Call(r).tag, Call(r).buf, Contents(r, Call(r).buf), arg.eager)
    /\ Advance(r)
    /\ UNCHANGED <<arg, data, poll, file, recvs>>

MPI_Irecv(r) ==
    /\ At(r, "Irecv")
    /\ recvs' = [recvs EXCEPT ![<<Call(r).peer, r>>] =
                   Append(@, [tag |-> Call(r).tag, into |-> Call(r).buf])]
    /\ Advance(r)
    /\ UNCHANGED <<arg, data, poll, file, sends>>

MPI_Wait(r) ==
    /\ \/ At(r, "WaitSend") /\ SendDone(r, Call(r).peer, Call(r).buf)
       \/ At(r, "WaitRecv") /\ RecvDone(Call(r).peer, r, Call(r).buf)
    /\ Advance(r)
    /\ UNCHANGED <<arg, data, poll, file, sends, recvs>>

\* The two outermost ghost cells are computed, the others wait for a value.
SetGhosts(r) ==
    /\ At(r, "ghosts")
    /\ yc' = [yc EXCEPT
         ![r][0] = IF r = Root /\ DxKnown(r) THEN {0} ELSE Junk,
         ![r][counts(r) + 1] = IF r = LastRank /\ DxKnown(r) THEN {NGRID + 1} ELSE Junk]
    /\ Advance(r)
    /\ UNCHANGED <<arg, dyc, full, freed, poll, file, sends, recvs>>

ComputeYC(r) ==
    /\ At(r, "yc")
    /\ yc' = [yc EXCEPT ![r] = [k \in DOMAIN @ |-> IF k \in Inner(r) THEN XC(r)[k] ELSE @[k]]]
    /\ Advance(r)
    /\ UNCHANGED <<arg, dyc, full, freed, poll, file, sends, recvs>>

ComputeDYC(r) ==
    /\ At(r, "dyc")
    /\ dyc' = [dyc EXCEPT ![r] = [k \in Inner(r) |->
                 IF DxKnown(r) THEN yc[r][k + 1] \cup yc[r][k - 1] ELSE Junk]]
    /\ Advance(r)
    /\ UNCHANGED <<arg, yc, full, freed, poll, file, sends, recvs>>

\* values become elements disp(s) + 1, disp(s) + 2, ... of an array of the root
Place(array, s, values) ==
    [p \in 1 .. NGRID |-> IF p - disp(s) \in DOMAIN values THEN values[p - disp(s)]
                                                       ELSE array[p]]

CopyOwn(r) ==
    /\ At(r, "copy")
    /\ full' = [b \in DOMAIN full |-> Place(full[b], Root, Contents(r, b))]
    /\ Advance(r)
    /\ UNCHANGED <<arg, yc, dyc, freed, poll, file, sends, recvs>>

\* gather_data[q] is the receive of array q % 3 from rank q \div 3 + 1.
Complete3(q) == RecvDone((q \div 3) + 1, Root, Array[(q % 3) + 1])
Requests     == 3 * numproc - 3

\* mutant: the loop ends one request early
MPI_Test_short(r) ==
    LET found == i \notin null /\ Complete3(i)
    IN  /\ At(r, "test")
        /\ null' = IF found THEN null \cup {i} ELSE null
        /\ count_flag' = IF found THEN count_flag + 1 ELSE count_flag
        /\ IF count_flag' = Requests - 1
             THEN Advance(r) /\ UNCHANGED i
             ELSE i' = (i + 1) % Requests /\ UNCHANGED pc
        /\ UNCHANGED <<arg, data, file, sends, recvs>>

\* One turn of the loop: a request is counted once, then it is null.
MPI_Test(r) ==
    LET found == i \notin null /\ Complete3(i)
    IN  /\ At(r, "test")
        /\ null' = IF found THEN null \cup {i} ELSE null
        /\ count_flag' = IF found THEN count_flag + 1 ELSE count_flag
        /\ IF count_flag' = Requests
             THEN Advance(r) /\ UNCHANGED i
             ELSE i' = (i + 1) % Requests /\ UNCHANGED pc
        /\ UNCHANGED <<arg, data, file, sends, recvs>>

PrintFile(r) ==
    /\ At(r, "print")
    /\ file' = Append(file, full)
    /\ Advance(r)
    /\ UNCHANGED <<arg, data, poll, sends, recvs>>

Free(r) ==
    /\ At(r, "free")
    /\ freed' = freed \cup {r}
    /\ Advance(r)
    /\ UNCHANGED <<arg, yc, dyc, full, poll, file, sends, recvs>>

\* The library has read every buffer before it returns.
MPI_Finalize(r) ==
    /\ At(r, "finalize")
    /\ \A d \in Rank : \A k \in DOMAIN sends[<<r, d>>] : sends[<<r, d>>][k].copied
    /\ Advance(r)
    /\ UNCHANGED <<arg, data, poll, file, sends, recvs>>

\* What a transfer reads: a buffer that was freed may hold anything.
Sent(s, m) ==
    IF m.copied THEN {m.data}
    ELSE {Contents(s, m.from)} \cup
         (IF s \in freed THEN {Blank(Len(Contents(s, m.from)))} ELSE {})

Store(s, d, into, values) ==
    CASE into = "left"  -> /\ yc' = [yc EXCEPT ![d][0] = values[1]]
                           /\ UNCHANGED <<dyc, full, freed>>
      [] into = "right" -> /\ yc' = [yc EXCEPT ![d][counts(d) + 1] = values[1]]
                           /\ UNCHANGED <<dyc, full, freed>>
      [] into = "time"  -> UNCHANGED data
      [] OTHER          -> /\ full' = [full EXCEPT ![into] = Place(@, s, values)]
                           /\ UNCHANGED <<yc, dyc, freed>>

Transfer(s, d) ==
    /\ \E j \in DOMAIN sends[<<s, d>>], k \in DOMAIN recvs[<<s, d>>] :
         /\ Match(s, d, j, k)
         /\ \E values \in Sent(s, sends[<<s, d>>][j]) :
              Store(s, d, recvs[<<s, d>>][k].into, values)
         /\ Complete(s, d, j, k)
    /\ UNCHANGED <<arg, pc, poll, file>>

Delivery == \E s, d \in Rank : Transfer(s, d)

Step(r) ==
    \/ MPI_Isend(r) \/ MPI_Irecv(r) \/ MPI_Wait(r) \/ MPI_Test(r) \/ MPI_Finalize(r)
    \/ SetGhosts(r) \/ ComputeYC(r) \/ ComputeDYC(r) \/ CopyOwn(r)
    \/ PrintFile(r) \/ Free(r)

Next ==
    \/ \E r \in Rank : Step(r)
    \/ Delivery

Spec == Init /\ [][Next]_vars

\* The root runs; of the other ranks and the library, which delivers a message that has
\* a receive, some one that can go on does.  Their steps change pc or recvs.
Fairness ==
    /\ WF_<<pc, poll>>(Step(Root))
    /\ WF_<<pc, recvs>>((\E r \in Rank \ {Root} : Step(r)) \/ Delivery)

FairSpec == Spec /\ Fairness

----------------------------------------------------------------------------
(* Properties.  *)

Value == SUBSET (0 .. NGRID + 1)

\* Every variable keeps its type.
TypeOK ==
    /\ arg \in Arguments
    /\ \A r \in Rank : pc[r] \in 0 .. Len(Programs[arg][r])
    /\ \A r \in Rank : yc[r] \in [0 .. counts(r) + 1 -> Value]
    /\ \A r \in Rank : dyc[r] \in [Inner(r) -> Value]
    /\ full \in [{"xc", "yc", "dyc"} -> [1 .. NGRID -> Value]]
    /\ freed \subseteq Rank
    /\ i \in 0 .. Requests
    /\ null \subseteq 0 .. Requests
    /\ count_flag \in 0 .. Requests
    /\ file \in Seq([{"xc", "yc", "dyc"} -> [1 .. NGRID -> Value]])
    /\ sends \in [Rank \X Rank -> Seq([tag : Int, from : SendBufs, copied : BOOLEAN,
                                      data : Seq(Value)])]
    /\ recvs \in [Rank \X Rank -> Seq([tag : Int, into : RecvBufs])]

\* A block that rank r may have freed when the library reads it: no call waits
\* for the sends of xc and dyc in the non-blocking manual gather (lines 117-124,
\* 194-202), and a block longer than the eager limit is not copied.
Late(r, b) ==
    /\ Manual(arg) /\ NonBlocking(arg) /\ r # Root
    /\ b \in {"xc", "dyc"}
    /\ counts(r) > arg.eager

LateCells ==
    {c \in Range(Array) \X (1 .. NGRID) :
       \E r \in Rank : Late(r, c[1]) /\ c[2] \in start(r) .. end(r)}

Serial == INSTANCE SerialDeriv WITH late <- LateCells

\* The parallel program implements the sequential one: the root writes the
\* file once (line 270), with the sequential program's contents in every cell
\* that is not late.  So every edge value went to the right ghost cell before it
\* was used, every block to its place, and nothing else was read too early or
\* freed too soon.
ImplementsSerial == Serial!Spec

\* The exchange of edges (lines 156-189) and the gathering of the blocks (lines
\* 204-227) never leave every rank waiting for another, the MPI_Test loop of lines
\* 240-262 ends, and every rank returns from MPI_Finalize.
Termination == <>(\A r \in Rank : Done(r))

\* When a rank frees its arrays (lines 273-280), all that the library can have
\* still to read from them are the rank's late blocks, for the root.
FreedUnsent ==
    /\ TypeOK
    /\ \A r \in freed, d \in Rank : \A k \in DOMAIN sends[<<r, d>>] :
         \/ sends[<<r, d>>][k].copied
         \/ d = Root /\ Late(r, sends[<<r, d>>][k].from)

\* When all ranks are done every message has met a receive and every receive
\* a message, though tag 123 is used both for edges and for blocks.
NothingLeft ==
    (\A r \in Rank : Done(r)) => sends = Idle(Rank) /\ recvs = Idle(Rank)

----------------------------------------------------------------------------
(* Command lines for TLC to check *)

\* An edge is one value, a block up to three: with an eager limit of 1 blocks
\* are read from the sender's buffer, with 3 everything is copied (which makes no
\* difference to MPI_Gather).
Args(modes, limits) == {[p2p_typ |-> m[1], gat_typ |-> m[2], eager |-> e] : m \in modes, e \in limits}

CommandLines == Args({BLK, NBLK} \X {MPI_G, MAN_G}, {1}) \cup Args({BLK, NBLK} \X {MAN_G}, {3})
============================================================================
