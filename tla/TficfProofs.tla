----------------------------- MODULE TficfProofs -----------------------------
(***************************************************************************)
(* What holds of TFICF.c for every number of ranks, every corpus and every *)
(* eager limit: although a worker sends sizes and tables with the same     *)
(* tag, the root takes each of them for what it is; it writes its file     *)
(* only after the workers have found every document; and this file is that *)
(* of the sequential program, which is what TF-ICF is defined from.        *)
(***************************************************************************)
EXTENDS TficfPrograms, SequenceTheorems, FiniteSetTheorems, TLAPS

----------------------------------------------------------------------------
(* The inductive invariant *)

\* What a worker sends, in this order.
Names == <<"uw_idx", "unique_words", "TF_idx", "strings">>

\* How many of these worker r has sent.
Posted(r) ==
    CASE pc[r] \in {"start", "read", "exited"} -> 0
      [] pc[r] = "uw_idx"                      -> 1
      [] pc[r] \in {"unique_words", "tficf"}   -> 2
      [] pc[r] = "TF_idx"                      -> 3
      [] OTHER                                 -> 4

\* How many of them the root has received.
Passed(r) == IF r < i[Root] THEN 1 ELSE 0
Taken(r) ==
    CASE pc[Root] = "start"        -> 0
      [] pc[Root] = "uw_idx"       -> Passed(r)
      [] pc[Root] = "unique_words" -> 1 + Passed(r)
      [] pc[Root] = "merge"        -> 2
      [] pc[Root] = "TF_idx"       -> 2 + Passed(r)
      [] pc[Root] = "strings"      -> 3 + Passed(r)
      [] OTHER                     -> 4

Queue(r) == sends[<<r, Root>>]

\* m was sent from buffer b of worker r; if it was copied the buffer is as it was.
IsOf(m, r, b) == m.from = b /\ (m.copied => m.data = Contents(r, b))

\* The messages on the way are those that are sent and not received, two at most.
QueueInv(r) ==
    \/ Posted(r) = Taken(r) /\ Queue(r) = << >>
    \/ /\ Posted(r) = Taken(r) + 1
       /\ Queue(r) = <<Queue(r)[1]>>
       /\ IsOf(Queue(r)[1], r, Names[Taken(r) + 1])
    \/ /\ Posted(r) = Taken(r) + 2
       /\ Queue(r) = <<Queue(r)[1], Queue(r)[2]>>
       /\ IsOf(Queue(r)[1], r, Names[Taken(r) + 1])
       /\ IsOf(Queue(r)[2], r, Names[Taken(r) + 2])

\* The size the root has is that of the table it receives next.
SizeInv(r) ==
    /\ Taken(r) = 1 => idx[r] = Len(tables[r].unique)
    /\ Taken(r) = 3 => idx[r] = Len(tables[r].TFICF)

Late == {"TF_idx", "strings", "write", "done"}

\* After the merge a worker has a line for each entry of its table.
LinesInv(r) ==
    pc[r] \in {"tficf", "TF_idx", "strings", "done"} =>
        strings[r] = tables[r].TFICF /\ pc[Root] \in Late

\* The documents that worker r reads.
Turn(r, d) == d % (numproc - 1) = r % (numproc - 1)

\* It has found those before i[r], and before it sends anything, all.
ReadInv(r) ==
    pc[r] # "start" =>
        /\ pc[Root] # "start"
        /\ i[r] \in Nat /\ i[r] >= r /\ Turn(r, i[r])
        /\ \A d \in 1 .. Len(corpus) : d < i[r] /\ Turn(r, d) => corpus[d] # Absent
        /\ Posted(r) > 0 => i[r] > Len(corpus)

WorkerInv(r) == QueueInv(r) /\ SizeInv(r) /\ LinesInv(r) /\ ReadInv(r)

WorkerPCs == {"start", "read", "exited", "uw_idx", "unique_words", "tficf", "TF_idx",
              "strings", "done"}
RootPCs   == {"start", "uw_idx", "unique_words", "merge", "TF_idx", "strings", "write", "done"}

Functions ==
    /\ pc = [r \in Rank |-> pc[r]] /\ i = [r \in Rank |-> i[r]]
    /\ tables = [r \in Rank |-> tables[r]] /\ strings = [r \in Rank |-> strings[r]]
    /\ idx = [r \in Worker |-> idx[r]]
    /\ sends = [c \in Rank \X Rank |-> sends[c]]

\* What has been broadcast tells how far the root is.
RootInv ==
    /\ pc[Root] \in RootPCs
    /\ pc[Root] # "start" => i[Root] \in Worker
    /\ pc[Root] \in {"merge", "write", "done"} => i[Root] = 1
    /\ \/ pc[Root] = "start" /\ bcasts = << >>
       \/ pc[Root] \in {"uw_idx", "unique_words", "merge"} /\ bcasts = <<<<Len(corpus)>>>>
       \/ /\ pc[Root] \in Late
          /\ bcasts = <<<<Len(corpus)>>, bcasts[2], bcasts[3]>>
    /\ output # NoFile => pc[Root] = "done"

Inv ==
    /\ corpus \in Corpora
    /\ Functions
    /\ RootInv
    /\ \A r \in Worker : pc[r] \in WorkerPCs /\ WorkerInv(r)

\* The program writes its file only if every document is there (TFICF.c:138).
WritesComplete == output # NoFile => AllThere

----------------------------------------------------------------------------
(* Ranks and short sequences *)

LEMMA Ranks == Root \in Rank /\ Root \notin Worker /\ \A r \in Worker : r \in Rank /\ r # Root
  BY TficfAssumption DEF Root, Rank, Worker

LEMMA AppendTwo == ASSUME NEW a, NEW b PROVE Append(<<a>>, b) = <<a, b>>
<1> DEFINE s == Append(<<a>>, b)
           t == <<a, b>>
           S == {a, b}
<1>1. s \in Seq(S) /\ Len(s) = 2 /\ s[1] = a /\ s[2] = b
  OBVIOUS
<1>2. t \in Seq(S) /\ Len(t) = 2 /\ t[1] = a /\ t[2] = b
  OBVIOUS
<1> HIDE DEF s, t, S
<1>3. s = t
  BY <1>1, <1>2, SeqEqual
<1> QED
  BY <1>3 DEF s, t

LEMMA ShortSequences ==
    ASSUME NEW a, NEW b
    PROVE  /\ <<a>>[1] = a /\ <<a, b>>[1] = a /\ <<a, b>>[2] = b
           /\ Head(<<a>>) = a /\ Head(<<a, b>>) = a
           /\ Tail(<<a>>) = << >> /\ Tail(<<a, b>>) = <<b>>
           /\ Append(<< >>, a) = <<a>> /\ Append(<<a>>, b) = <<a, b>>
           /\ <<a>> # << >> /\ <<a, b>> # << >>
<1>1. <<a>>[1] = a /\ <<a, b>>[1] = a /\ <<a, b>>[2] = b
  OBVIOUS
<1>2. Head(<<a>>) = a /\ Head(<<a, b>>) = a
  OBVIOUS
<1>3. Tail(<<a>>) = << >>
  OBVIOUS
<1>4. Tail(<<a, b>>) = <<b>>
  OBVIOUS
<1>5. Append(<< >>, a) = <<a>>
  OBVIOUS
<1>6. <<a>> # << >> /\ <<a, b>> # << >>
  OBVIOUS
<1> QED
  BY <1>1, <1>2, <1>3, <1>4, <1>5, <1>6, AppendTwo

LEMMA ThreeElements ==
    ASSUME NEW a, NEW b, NEW c
    PROVE  /\ <<a>> \o <<b, c>> = <<a, b, c>>
           /\ <<a, b, c>>[1] = a /\ <<a, b, c>>[2] = b /\ <<a, b, c>>[3] = c
<1> DEFINE s == <<a>> \o <<b, c>>
           t == <<a, b, c>>
           S == {a, b, c}
<1>1. s \in Seq(S) /\ Len(s) = 3 /\ s[1] = a /\ s[2] = b /\ s[3] = c
  OBVIOUS
<1>2. t \in Seq(S) /\ Len(t) = 3 /\ t[1] = a /\ t[2] = b /\ t[3] = c
  OBVIOUS
<1> HIDE DEF s, t, S
<1>3. s = t
  BY <1>1, <1>2, SeqEqual
<1> QED
  BY <1>2, <1>3 DEF s, t

----------------------------------------------------------------------------
(* The messages *)

\* A worker sends the contents of a buffer.
LEMMA Sending ==
    ASSUME Functions, NEW r \in Worker, NEW b, MPI_Send(r, b)
    PROVE  /\ sends' = [c \in Rank \X Rank |-> sends'[c]]
           /\ \A s \in Worker \ {r} : Queue(s)' = Queue(s)
           /\ \E m : IsOf(m, r, b) /\ Queue(r)' = Append(Queue(r), m)
<1> DEFINE copied == Len(Contents(r, b)) <= Eager
           m == [tag |-> r, from |-> b, copied |-> copied,
                 data |-> IF copied THEN Contents(r, b) ELSE << >>]
<1>1. sends' = [sends EXCEPT ![<<r, Root>>] = Append(@, m)]
  BY DEF MPI_Send, Post, Sent
<1>2. IsOf(m, r, b)
  BY DEF IsOf
<1> HIDE DEF m
<1>3. <<r, Root>> \in Rank \X Rank
  BY Ranks
<1>4. Queue(r)' = Append(Queue(r), m)
  BY <1>1, <1>3 DEF Queue, Functions
<1>5. \A s \in Worker \ {r} : Queue(s)' = Queue(s)
  BY <1>1, Ranks DEF Queue, Functions
<1>6. sends' = [c \in Rank \X Rank |-> sends'[c]]
  BY <1>1 DEF Functions
<1> QED
  BY <1>2, <1>4, <1>5, <1>6

\* The root receives from a worker.
LEMMA Receiving ==
    ASSUME Functions, NEW w \in Worker, MPI_Recv(w)
    PROVE  /\ sends' = [c \in Rank \X Rank |-> sends'[c]]
           /\ \A s \in Worker \ {w} : Queue(s)' = Queue(s)
           /\ Queue(w) # << >> /\ Queue(w)' = Tail(Queue(w))
<1>1. sends' = [sends EXCEPT ![<<w, Root>>] = Tail(@)] /\ <<w, Root>> \in Rank \X Rank
  BY Ranks DEF MPI_Recv
<1>2. Queue(w)' = Tail(Queue(w))
  BY <1>1 DEF Queue, Functions
<1>3. \A s \in Worker \ {w} : Queue(s)' = Queue(s)
  BY <1>1, Ranks DEF Queue, Functions
<1>4. sends' = [c \in Rank \X Rank |-> sends'[c]]
  BY <1>1 DEF Functions
<1>5. Queue(w) # << >>
  BY DEF MPI_Recv, Arrived, Queue
<1> QED
  BY <1>2, <1>3, <1>4, <1>5

\* The first message on the way is the next of Names, with what is in its buffer now.
LEMMA NextMessage ==
    ASSUME NEW w \in Worker, QueueInv(w), Arrived(w)
    PROVE  /\ Taken(w) < Posted(w)
           /\ Head(Queue(w)).from = Names[Taken(w) + 1]
           /\ Message(w) = Contents(w, Names[Taken(w) + 1])
<1>1. Taken(w) \in Int
  BY DEF Taken, Passed
<1>2. Queue(w) # << >>
  BY DEF Arrived, Queue
<1>3. Taken(w) < Posted(w) /\ Head(Queue(w)) = Queue(w)[1]
      /\ IsOf(Queue(w)[1], w, Names[Taken(w) + 1])
  <2>1. CASE Queue(w) = <<Queue(w)[1]>> /\ Posted(w) = Taken(w) + 1
             /\ IsOf(Queue(w)[1], w, Names[Taken(w) + 1])
    BY <1>1, <2>1, ShortSequences
  <2>2. CASE Queue(w) = <<Queue(w)[1], Queue(w)[2]>> /\ Posted(w) = Taken(w) + 2
             /\ IsOf(Queue(w)[1], w, Names[Taken(w) + 1])
    BY <1>1, <2>2, ShortSequences
  <2> QED
    BY <1>2, <2>1, <2>2 DEF QueueInv
<1> QED
  BY <1>3 DEF Message, Sent, IsOf, Queue

----------------------------------------------------------------------------
(* What steps leave alone *)

\* A step of worker r concerns no other worker and not the root.
LEMMA WorkerMoves ==
    ASSUME Inv, NEW r \in Worker, Functions',
           UNCHANGED <<corpus, idx, output, bcasts>>,
           \A s \in Rank \ {r} : /\ pc'[s] = pc[s] /\ i'[s] = i[s]
                                 /\ tables'[s] = tables[s] /\ strings'[s] = strings[s],
           \A s \in Worker \ {r} : Queue(s)' = Queue(s),
           pc'[r] \in WorkerPCs, WorkerInv(r)'
    PROVE  Inv'
<1>1. pc'[Root] = pc[Root] /\ i'[Root] = i[Root]
  BY Ranks
<1>2. corpus' \in Corpora /\ RootInv'
  BY <1>1 DEF Inv, RootInv
<1>3. ASSUME NEW s \in Worker, s # r PROVE pc'[s] \in WorkerPCs /\ WorkerInv(s)'
  <2>1. pc'[s] = pc[s] /\ i'[s] = i[s] /\ tables'[s] = tables[s] /\ strings'[s] = strings[s]
        /\ Queue(s)' = Queue(s)
    BY <1>3, Ranks
  <2>2. Posted(s)' = Posted(s) /\ Taken(s)' = Taken(s)
    BY <1>1, <2>1 DEF Posted, Taken, Passed
  <2>3. \A m, b : IsOf(m, s, b) => IsOf(m, s, b)'
    BY <2>1 DEF IsOf, Contents
  <2>4. WorkerInv(s)
    BY DEF Inv
  <2>5. QueueInv(s)'
    BY <2>1, <2>2, <2>3, <2>4 DEF WorkerInv, QueueInv
  <2>6. SizeInv(s)' /\ LinesInv(s)' /\ ReadInv(s)'
    BY <1>1, <2>1, <2>2, <2>4 DEF WorkerInv, SizeInv, LinesInv, ReadInv, Turn
  <2> QED
    BY <2>1, <2>5, <2>6 DEF WorkerInv, Inv
<1> QED
  BY <1>2, <1>3 DEF Inv

\* A step of the root concerns no worker's lines and documents.
LEMMA RootMoves ==
    ASSUME Inv, Functions', RootInv', corpus' = corpus,
           \A s \in Worker : /\ pc'[s] = pc[s] /\ i'[s] = i[s]
                             /\ tables'[s] = tables[s] /\ strings'[s] = strings[s],
           pc'[Root] # "start", pc[Root] \in Late => pc'[Root] \in Late,
           \A s \in Worker : QueueInv(s)' /\ SizeInv(s)'
    PROVE  Inv'
<1>1. ASSUME NEW s \in Worker PROVE pc'[s] \in WorkerPCs /\ WorkerInv(s)'
  <2>1. Posted(s)' = Posted(s)
    BY DEF Posted
  <2>2. WorkerInv(s) /\ pc[s] \in WorkerPCs
    BY DEF Inv
  <2>3. LinesInv(s)' /\ ReadInv(s)'
    BY <2>1, <2>2 DEF WorkerInv, LinesInv, ReadInv, Turn
  <2> QED
    BY <2>2, <2>3 DEF WorkerInv
<1> QED
  BY <1>1 DEF Inv

----------------------------------------------------------------------------
(* Whose turn a document is *)

LEMMA Division ==
    ASSUME NEW W \in Nat \ {0}, NEW x \in Int
    PROVE  /\ x = W * (x \div W) + (x % W)
           /\ x % W \in 0 .. W - 1 /\ x \div W \in Int
  OBVIOUS

LEMMA NoSmallMultiple ==
    ASSUME NEW W \in Nat \ {0}, NEW k \in Int, W * k < W
    PROVE  k <= 0
<1>1. k >= 1 => W * k >= W
  OBVIOUS
<1> QED
  BY <1>1

\* A multiple of W more leaves the remainder as it is.
LEMMA SameRemainder ==
    ASSUME NEW W \in Nat \ {0}, NEW x \in Int, NEW q \in Int
    PROVE  (x + W * q) % W = x % W
<1> DEFINE y == x + W * q
           k == (y \div W) - (x \div W) - q
<1>1. W * q \in Int /\ y \in Int
  OBVIOUS
<1>2. /\ y = W * (y \div W) + (y % W) /\ x = W * (x \div W) + (x % W)
      /\ y % W \in 0 .. W - 1 /\ x % W \in 0 .. W - 1
      /\ y \div W \in Int /\ x \div W \in Int
  BY <1>1, Division
<1>3. k \in Int /\ W * k = W * (y \div W) - W * (x \div W) - W * q
  BY <1>2
<1>4. W * k = (x % W) - (y % W)
  BY <1>1, <1>2, <1>3
<1>5. k <= 0
  BY <1>2, <1>3, <1>4, NoSmallMultiple
<1>6. W * (-k) = (y % W) - (x % W) /\ -k \in Int
  BY <1>2, <1>3, <1>4
<1>7. -k <= 0
  BY <1>2, <1>6, NoSmallMultiple
<1>8. k = 0
  BY <1>3, <1>5, <1>7
<1> QED
  BY <1>2, <1>4, <1>8

LEMMA NextTurn ==
    ASSUME NEW W \in Nat \ {0}, NEW x \in Int, NEW y \in Int, y = x + W
    PROVE  y % W = x % W
<1>1. PICK one \in Int : one = 1
  OBVIOUS
<1>2. y = x + W * one
  BY <1>1
<1>3. (x + W * one) % W = x % W
  BY SameRemainder
<1> QED
  BY <1>2, <1>3

\* Numbers with the same remainder are W apart.
LEMMA FarApart ==
    ASSUME NEW W \in Nat \ {0}, NEW x \in Int, NEW y \in Int, x % W = y % W, x < y
    PROVE  x + W <= y
<1> DEFINE k == (y \div W) - (x \div W)
<1>1. /\ y = W * (y \div W) + (y % W) /\ x = W * (x \div W) + (x % W)
      /\ y % W \in Int /\ y \div W \in Int /\ x \div W \in Int
  BY Division
<1>2. k \in Int /\ W * k = W * (y \div W) - W * (x \div W)
  BY <1>1
<1>3. W * k = y - x
  BY <1>1, <1>2
<1>4. k >= 1
  <2>1. k <= 0 => W * k <= 0
    BY <1>2
  <2> QED
    BY <2>1, <1>2, <1>3
<1>5. W * k >= W
  BY <1>2, <1>4
<1> QED
  BY <1>3, <1>5

\* Every document is some worker's.
LEMMA SomeTurn == ASSUME NEW d \in Nat \ {0} PROVE \E r \in Worker : Turn(r, d)
<1> DEFINE W == numproc - 1
           e == d - 1
           m == e % W
           q == e \div W
<1>1. W \in Nat \ {0} /\ e \in Int /\ d = e + 1 /\ Worker = 1 .. W
  BY TficfAssumption DEF Worker
<1>2. \A r \in Worker : Turn(r, d) <=> d % W = r % W
  BY DEF Turn
<1> HIDE DEF W, e
<1>3. e = W * q + m /\ m \in 0 .. W - 1 /\ q \in Int
  BY <1>1, Division
<1> HIDE DEF m, q
<1>4. W * q \in Int /\ m + 1 \in Int
  BY <1>1, <1>3
<1>5. ((m + 1) + W * q) % W = (m + 1) % W
  BY <1>1, <1>3, <1>4, SameRemainder
<1>6. d = (m + 1) + W * q
  BY <1>1, <1>3, <1>4
<1>7. m + 1 \in Worker
  BY <1>1, <1>3
<1> QED
  BY <1>2, <1>5, <1>6, <1>7

----------------------------------------------------------------------------
(* The workers *)

LEMMA CountRange ==
    ASSUME NEW r \in Worker, Inv
    PROVE  /\ Posted(r) \in 0 .. 4 /\ Taken(r) \in 0 .. Posted(r) /\ Posted(r) <= Taken(r) + 2
           /\ Posted(r) = Taken(r) => Queue(r) = << >>
<1>1. Posted(r) \in 0 .. 4 /\ Taken(r) \in 0 .. 4
  BY DEF Posted, Taken, Passed
<1>2. QueueInv(r)
  BY DEF Inv, WorkerInv
<1> QED
  BY <1>1, <1>2 DEF QueueInv

\* Sending the next of Names.
LEMMA SendsNext ==
    ASSUME Inv, NEW r \in Worker, NEW b, MPI_Send(r, b), b = Names[Posted(r) + 1],
           Posted(r)' = Posted(r) + 1, Posted(r) <= Taken(r) + 1,
           pc'[Root] = pc[Root], UNCHANGED <<i, tables, strings>>
    PROVE  QueueInv(r)'
<1>1. PICK m : IsOf(m, r, b) /\ Queue(r)' = Append(Queue(r), m)
  BY Sending DEF Inv
<1>2. Taken(r)' = Taken(r) /\ Taken(r) \in Int /\ Posted(r) \in Int
  BY CountRange DEF Taken, Passed
<1>3. \A n, c : IsOf(n, r, c)' = IsOf(n, r, c)
  BY DEF IsOf, Contents
<1>4. CASE Posted(r) = Taken(r) /\ Queue(r) = << >>
  <2>1. Queue(r)' = <<m>> /\ Queue(r)'[1] = m
    BY <1>1, <1>4, ShortSequences
  <2> QED
    BY <1>1, <1>2, <1>3, <1>4, <2>1 DEF QueueInv
<1>5. CASE Posted(r) = Taken(r) + 1 /\ Queue(r) = <<Queue(r)[1]>>
           /\ IsOf(Queue(r)[1], r, Names[Taken(r) + 1])
  <2>1. PICK q : q = Queue(r)[1]
    OBVIOUS
  <2>2. Queue(r) = <<q>> /\ Queue(r)' = Append(Queue(r), m)
    BY <1>1, <1>5, <2>1
  <2>3. Queue(r)' = <<q, m>>
    BY <2>2, AppendTwo
  <2>4. Queue(r)'[1] = q /\ Queue(r)'[2] = m
    BY <2>3
  <2> QED
    BY <1>1, <1>2, <1>3, <1>5, <2>1, <2>3, <2>4 DEF QueueInv
<1>6. QueueInv(r)
  BY DEF Inv, WorkerInv
<1> QED
  BY <1>2, <1>4, <1>5, <1>6 DEF QueueInv

LEMMA GetNumDocsStep == ASSUME Inv, NEW r \in Worker, GetNumDocs(r) PROVE Inv'
<1>1. /\ pc[r] = "start" /\ pc' = [pc EXCEPT ![r] = "read"] /\ i' = [i EXCEPT ![r] = r]
      /\ Len(bcasts) >= 1 /\ UNCHANGED <<corpus, tables, rootVars, strings, bcasts, sends>>
  BY DEF GetNumDocs, Goto
<1>2. Functions' /\ pc'[r] = "read" /\ i'[r] = r /\ pc'[Root] = pc[Root] /\ i'[Root] = i[Root]
  BY <1>1, Ranks DEF Inv, Functions, rootVars
<1>3. pc[Root] # "start"
  <2>1. bcasts # << >>
    BY <1>1
  <2> QED
    BY <2>1 DEF Inv, RootInv, Late
<1>4. Posted(r)' = Posted(r) /\ Taken(r)' = Taken(r) /\ Queue(r)' = Queue(r)
  BY <1>1, <1>2 DEF Posted, Taken, Passed, Queue
<1>5. WorkerInv(r)
  BY DEF Inv
<1>6. QueueInv(r)' /\ SizeInv(r)' /\ LinesInv(r)'
  <2>1. \A m, b : IsOf(m, r, b)' = IsOf(m, r, b)
    BY <1>1 DEF IsOf, Contents
  <2> QED
    BY <1>1, <1>2, <1>4, <1>5, <2>1 DEF WorkerInv, QueueInv, SizeInv, LinesInv, rootVars
<1>7. ReadInv(r)'
  <2>1. r \in Nat /\ r <= numproc - 1 /\ numproc - 1 \in Nat \ {0}
    BY TficfAssumption DEF Worker
  <2>2. ASSUME NEW d \in 1 .. Len(corpus), d < r, Turn(r, d) PROVE FALSE
    <3>1. d \in Int /\ d >= 1
      OBVIOUS
    <3> QED
      BY <2>1, <2>2, <3>1, FarApart DEF Turn
  <2>3. Posted(r)' = 0
    BY <1>2 DEF Posted
  <2> QED
    BY <1>1, <1>2, <1>3, <2>1, <2>2, <2>3 DEF ReadInv, Turn
<1>8. \A s \in Rank \ {r} : /\ pc'[s] = pc[s] /\ i'[s] = i[s]
                            /\ tables'[s] = tables[s] /\ strings'[s] = strings[s]
  BY <1>1 DEF Inv, Functions
<1>9. \A s \in Worker \ {r} : Queue(s)' = Queue(s)
  BY <1>1 DEF Queue
<1> QED
  BY <1>1, <1>2, <1>6, <1>7, <1>8, <1>9, WorkerMoves DEF WorkerInv, WorkerPCs, rootVars

LEMMA ReadDocStep == ASSUME Inv, NEW r \in Worker, ReadDoc(r) PROVE Inv'
<1> DEFINE W == numproc - 1
           gone == corpus[i[r]] = Absent
<1>1. /\ pc[r] = "read" /\ i[r] <= bcasts[1][1]
      /\ UNCHANGED <<corpus, rootVars, strings, bcasts, sends>>
      /\ pc' = [pc EXCEPT ![r] = IF gone THEN "exited" ELSE "read"]
      /\ i' = IF gone THEN i ELSE [i EXCEPT ![r] = @ + numproc - 1]
  BY DEF ReadDoc, Goto
<1>2. tables' = [s \in Rank |-> tables'[s]] /\ \A s \in Rank \ {r} : tables'[s] = tables[s]
  BY DEF ReadDoc, Inv, Functions
<1>3. /\ Functions' /\ pc'[r] = (IF gone THEN "exited" ELSE "read")
      /\ \A s \in Rank \ {r} : /\ pc'[s] = pc[s] /\ i'[s] = i[s]
                               /\ tables'[s] = tables[s] /\ strings'[s] = strings[s]
      /\ i'[r] = IF gone THEN i[r] ELSE i[r] + numproc - 1
  BY <1>1, <1>2, Ranks DEF Inv, Functions, rootVars
<1>4. Posted(r) = 0 /\ Posted(r)' = 0 /\ Taken(r)' = Taken(r) /\ Queue(r)' = Queue(r)
  BY <1>1, <1>3, Ranks DEF Posted, Taken, Passed, Queue
<1>5. Taken(r) = 0 /\ Queue(r) = << >>
  BY <1>4, CountRange
<1>6. QueueInv(r)' /\ SizeInv(r)' /\ LinesInv(r)'
  BY <1>3, <1>4, <1>5 DEF QueueInv, SizeInv, LinesInv
<1>7. ReadInv(r)'
  <2>1. ReadInv(r) /\ pc[Root] # "start" /\ pc'[Root] = pc[Root]
    BY <1>1, <1>3, Ranks DEF Inv, WorkerInv, ReadInv
  <2>2. i[r] \in Nat /\ i[r] >= r /\ Turn(r, i[r])
        /\ \A d \in 1 .. Len(corpus) : d < i[r] /\ Turn(r, d) => corpus[d] # Absent
    BY <1>1, <2>1 DEF ReadInv
  <2>3. CASE gone
    BY <1>1, <1>3, <1>4, <2>1, <2>2, <2>3 DEF ReadInv, Turn
  <2>4. CASE ~gone
    <3>1. W \in Nat \ {0} /\ i'[r] = i[r] + W /\ i'[r] \in Nat /\ i'[r] >= r
      <4>1. numproc \in Nat /\ numproc > 1 /\ r \in Nat
        BY TficfAssumption DEF Worker
      <4> QED
        BY <1>3, <2>2, <2>4, <4>1
    <3>2. Turn(r, i'[r])
      <4> HIDE DEF W
      <4>1. PICK x \in Int, y \in Int : x = i[r] /\ y = i'[r] /\ y = x + W
        BY <2>2, <3>1
      <4>2. y % W = x % W
        BY <3>1, <4>1, NextTurn
      <4> QED
        BY <2>2, <4>1, <4>2 DEF Turn, W
    <3>3. ASSUME NEW d \in 1 .. Len(corpus), d < i'[r], Turn(r, d) PROVE corpus[d] # Absent
      <4>1. d \in Int /\ i[r] \in Int /\ d % W = i[r] % W
        BY <2>2, <3>3 DEF Turn
      <4>2. CASE d < i[r]
        BY <2>2, <3>3, <4>2
      <4>3. CASE d = i[r]
        BY <2>4, <4>3
      <4>4. CASE i[r] < d
        <5>1. i[r] + W <= d
          BY <3>1, <4>1, <4>4, FarApart
        <5> QED
          BY <3>1, <3>3, <4>1, <5>1
      <4> QED
        BY <4>1, <4>2, <4>3, <4>4
    <3> QED
      BY <1>1, <1>4, <2>1, <3>1, <3>2, <3>3 DEF ReadInv, Turn
  <2> QED
    BY <2>3, <2>4
<1>8. \A s \in Worker \ {r} : Queue(s)' = Queue(s)
  BY <1>1 DEF Queue
<1> QED
  BY <1>1, <1>3, <1>6, <1>7, <1>8, WorkerMoves DEF WorkerInv, WorkerPCs, rootVars

\* The steps in which a worker sends: pc[r] is from, then to, and b is the next of Names.
LEMMA SendingStep ==
    ASSUME Inv, NEW r \in Worker, NEW from, NEW to, NEW b, Goto(r, from, to), MPI_Send(r, b),
           UNCHANGED <<corpus, i, tables, rootVars, strings, bcasts>>,
           \/ from = "read" /\ to = "uw_idx" /\ b = "uw_idx" /\ i[r] > bcasts[1][1]
           \/ from = "uw_idx" /\ to = "unique_words" /\ b = "unique_words"
           \/ from = "tficf" /\ to = "TF_idx" /\ b = "TF_idx"
           \/ from = "TF_idx" /\ to = "strings" /\ b = "strings"
    PROVE  Inv'
<1>1. pc[r] = from /\ pc' = [pc EXCEPT ![r] = to]
  BY DEF Goto
<1>2. /\ Functions' /\ pc'[r] = to /\ pc'[Root] = pc[Root]
      /\ \A s \in Rank \ {r} : pc'[s] = pc[s]
      /\ \A s \in Worker \ {r} : Queue(s)' = Queue(s)
  BY <1>1, Ranks, Sending DEF Inv, Functions, rootVars
<1>3. WorkerInv(r)
  BY DEF Inv
<1>4. /\ Posted(r)' = Posted(r) + 1 /\ Posted(r) <= Taken(r) + 1 /\ b = Names[Posted(r) + 1]
      /\ to \in WorkerPCs
  <2>1. Taken(r) \in 0 .. Posted(r)
    BY CountRange
  <2>2. from = "tficf" => Taken(r) >= 2
    BY <1>1, <1>3 DEF WorkerInv, LinesInv, Late, Taken, Passed
  <2>3. from = "TF_idx" => Taken(r) >= 2
    BY <1>1, <1>3 DEF WorkerInv, LinesInv, Late, Taken, Passed
  <2> QED
    BY <1>1, <1>2, <2>1, <2>2, <2>3 DEF Posted, Names, WorkerPCs
<1>5. QueueInv(r)'
  BY <1>2, <1>4, SendsNext
<1>6. SizeInv(r)' /\ LinesInv(r)'
  <2>1. Taken(r)' = Taken(r)
    BY <1>2 DEF Taken, Passed
  <2> QED
    BY <1>1, <1>2, <1>3, <2>1 DEF WorkerInv, SizeInv, LinesInv, rootVars
<1>7. ReadInv(r)'
  <2>1. pc[r] # "start" /\ ReadInv(r)
    BY <1>1, <1>3 DEF WorkerInv
  <2>2. from # "read" => Posted(r) > 0
    BY <1>1 DEF Posted
  <2>3. pc[Root] # "start" => bcasts[1][1] = Len(corpus)
    BY DEF Inv, RootInv
  <2> QED
    BY <1>1, <1>2, <2>1, <2>2, <2>3 DEF ReadInv, Turn
<1> QED
  BY <1>2, <1>4, <1>5, <1>6, <1>7, WorkerMoves DEF WorkerInv, rootVars

LEMMA SendUniqueStep == ASSUME Inv, NEW r \in Worker, SendUnique(r) PROVE Inv'
  BY SendingStep DEF SendUnique

\* Only after the root has received both tables can a worker replace its own.
LEMMA GetUniqueStep == ASSUME Inv, NEW r \in Worker, GetUnique(r) PROVE Inv'
<1> DEFINE TFICF == Populate(tables[r].TFICF, bcasts[3])
           new   == [TFICF |-> TFICF, unique |-> bcasts[3]]
<1>1. /\ pc[r] = "unique_words" /\ pc' = [pc EXCEPT ![r] = "tficf"] /\ Len(bcasts) = 3
      /\ tables' = [tables EXCEPT ![r] = new]
      /\ strings' = [strings EXCEPT ![r] = TFICF]
      /\ UNCHANGED <<corpus, i, rootVars, bcasts, sends>>
  BY DEF GetUnique, Goto
<1> HIDE DEF TFICF
<1>2. /\ Functions' /\ pc'[r] = "tficf" /\ pc'[Root] = pc[Root]
      /\ \A s \in Rank \ {r} : /\ pc'[s] = pc[s] /\ i'[s] = i[s]
                               /\ tables'[s] = tables[s] /\ strings'[s] = strings[s]
      /\ \A s \in Worker \ {r} : Queue(s)' = Queue(s)
      /\ tables'[r].TFICF = TFICF /\ strings'[r] = TFICF
  BY <1>1, Ranks DEF Inv, Functions, rootVars, Queue
<1>3. pc[Root] \in Late
  <2>1. bcasts # << >> /\ bcasts # <<<<Len(corpus)>>>>
    BY <1>1
  <2> QED
    BY <2>1 DEF Inv, RootInv
<1>4. Posted(r) = 2 /\ Posted(r)' = 2 /\ Taken(r)' = Taken(r) /\ Queue(r)' = Queue(r)
  BY <1>1, <1>2 DEF Posted, Taken, Passed, Queue
<1>5. Taken(r) >= 2
  BY <1>3 DEF Late, Taken, Passed
<1>6. Taken(r) = 2 /\ Queue(r) = << >>
  BY <1>4, <1>5, CountRange
<1>7. QueueInv(r)' /\ SizeInv(r)' /\ LinesInv(r)'
  BY <1>2, <1>3, <1>4, <1>6 DEF QueueInv, SizeInv, LinesInv
<1>8. ReadInv(r)'
  BY <1>1, <1>2, <1>4 DEF Inv, WorkerInv, ReadInv, Turn
<1> QED
  BY <1>1, <1>2, <1>7, <1>8, WorkerMoves DEF WorkerInv, WorkerPCs, rootVars

LEMMA SendStringsStep == ASSUME Inv, NEW r \in Worker, SendStrings(r) PROVE Inv'
<1>1. CASE Goto(r, "strings", "done") /\ UNCHANGED <<sends, recvs>>
  <2>1. /\ pc[r] = "strings" /\ pc' = [pc EXCEPT ![r] = "done"]
        /\ UNCHANGED <<corpus, i, tables, rootVars, strings, bcasts, sends>>
    BY <1>1 DEF SendStrings, Goto
  <2>2. /\ Functions' /\ pc'[r] = "done" /\ pc'[Root] = pc[Root]
        /\ \A s \in Rank \ {r} : pc'[s] = pc[s]
        /\ \A s \in Worker : Queue(s)' = Queue(s)
    BY <2>1, Ranks DEF Inv, Functions, rootVars, Queue
  <2>3. Posted(r)' = Posted(r) /\ Taken(r)' = Taken(r)
    BY <2>1, <2>2 DEF Posted, Taken, Passed
  <2>4. \A m, b : IsOf(m, r, b)' = IsOf(m, r, b)
    BY <2>1 DEF IsOf, Contents
  <2>5. WorkerInv(r)
    BY DEF Inv
  <2>6. QueueInv(r)'
    BY <2>2, <2>3, <2>4, <2>5 DEF WorkerInv, QueueInv
  <2>7. SizeInv(r)' /\ LinesInv(r)' /\ ReadInv(r)'
    BY <2>1, <2>2, <2>3, <2>5 DEF WorkerInv, SizeInv, LinesInv, ReadInv, Turn, rootVars
  <2> QED
    BY <2>1, <2>2, <2>6, <2>7, WorkerMoves DEF WorkerInv, WorkerPCs, rootVars
<1>2. CASE Goto(r, "tficf", "TF_idx") /\ MPI_Send(r, "TF_idx")
  BY <1>2, SendingStep DEF SendStrings
<1>3. CASE Goto(r, "TF_idx", "strings") /\ MPI_Send(r, "strings")
  BY <1>3, SendingStep DEF SendStrings
<1> QED
  BY <1>1, <1>2, <1>3 DEF SendStrings

----------------------------------------------------------------------------
(* The root *)

\* The root counts the documents.
LEMMA CountDocsStep == ASSUME Inv, CountDocs PROVE Inv'
<1>1. /\ pc[Root] = "start" /\ pc' = [pc EXCEPT ![Root] = "uw_idx"]
      /\ bcasts' = Append(bcasts, <<Len(corpus)>>) /\ i' = [i EXCEPT ![Root] = 1]
      /\ UNCHANGED <<corpus, tables, rootVars, strings, sends>>
  BY DEF CountDocs, Goto
<1>2. /\ Functions' /\ pc'[Root] = "uw_idx" /\ i'[Root] = 1
      /\ \A s \in Worker : pc'[s] = pc[s] /\ i'[s] = i[s]
  BY <1>1, Ranks DEF Inv, Functions, rootVars
<1>3. RootInv'
  <2>1. bcasts = << >>
    BY <1>1 DEF Inv, RootInv, Late
  <2>2. bcasts' = <<<<Len(corpus)>>>>
    BY <1>1, <2>1, ShortSequences
  <2>3. 1 \in Worker
    BY TficfAssumption DEF Worker
  <2> QED
    BY <1>1, <1>2, <2>2, <2>3 DEF Inv, RootInv, RootPCs, rootVars
<1>4. ASSUME NEW s \in Worker PROVE QueueInv(s)' /\ SizeInv(s)'
  <2>1. Taken(s) = 0 /\ Taken(s)' = 0
    BY <1>1, <1>2, TficfAssumption DEF Taken, Passed, Worker
  <2>2. Posted(s)' = Posted(s) /\ Queue(s)' = Queue(s)
    BY <1>1, <1>2 DEF Posted, Queue
  <2>3. \A m, b : IsOf(m, s, b)' = IsOf(m, s, b)
    BY <1>1 DEF IsOf, Contents
  <2> QED
    BY <2>1, <2>2, <2>3 DEF Inv, WorkerInv, QueueInv, SizeInv
<1> QED
  BY <1>1, <1>2, <1>3, <1>4, RootMoves DEF Late

\* The root receives from worker i[Root] and goes on to the next, or to the next phase.
LEMMA Receives ==
    ASSUME Inv, NEW phase, NEW after, FromEach(phase, after),
           UNCHANGED <<corpus, tables, bcasts, output>>,
           \A s \in Worker : strings'[s] = strings[s],
           strings' = [r \in Rank |-> strings'[r]], idx' = [r \in Worker |-> idx'[r]],
           \/ phase = "uw_idx" /\ after = "unique_words"
           \/ phase = "unique_words" /\ after = "merge"
           \/ phase = "TF_idx" /\ after = "strings"
           \/ phase = "strings" /\ after = "write",
           \A s \in Worker \ {i[Root]} : idx'[s] = idx[s],
           idx'[i[Root]] = IF phase \in {"uw_idx", "TF_idx"} THEN Message(i[Root])[1]
                                                             ELSE idx[i[Root]]
    PROVE  Inv'
<1> PICK w : w = i[Root]
  OBVIOUS
<1>1. /\ pc[Root] = phase /\ w \in Worker
      /\ \/ w = numproc - 1 /\ pc' = [pc EXCEPT ![Root] = after] /\ i' = [i EXCEPT ![Root] = 1]
         \/ w # numproc - 1 /\ pc' = [pc EXCEPT ![Root] = phase] /\ i' = [i EXCEPT ![Root] = w + 1]
  BY DEF FromEach, Goto, Inv, RootInv
<1>2. /\ Queue(w) # << >> /\ Queue(w)' = Tail(Queue(w)) /\ Arrived(w)
      /\ \A s \in Worker \ {w} : Queue(s)' = Queue(s)
      /\ sends' = [c \in Rank \X Rank |-> sends'[c]]
  <2>1. MPI_Recv(w)
    BY DEF FromEach
  <2>2. Arrived(w)
    BY <2>1 DEF MPI_Recv
  <2> QED
    BY <1>1, <2>1, <2>2, Receiving DEF Inv
<1>3. /\ Functions' /\ \A s \in Worker : pc'[s] = pc[s] /\ i'[s] = i[s]
      /\ \/ w = numproc - 1 /\ pc'[Root] = after /\ i'[Root] = 1
         \/ w # numproc - 1 /\ pc'[Root] = phase /\ i'[Root] = w + 1
  BY <1>1, <1>2, Ranks DEF Inv, Functions
<1>4. w \in 1 .. numproc - 1 /\ numproc \in Nat /\ numproc > 1
  BY <1>1, TficfAssumption DEF Worker
<1>5. RootInv'
  <2>1. i'[Root] \in Worker
    BY <1>3, <1>4 DEF Worker
  <2>2. output = NoFile
    BY <1>1 DEF Inv, RootInv
  <2> QED
    BY <1>1, <1>3, <2>1, <2>2 DEF Inv, RootInv, RootPCs, Late
<1>6. Taken(w)' = Taken(w) + 1 /\ \A s \in Worker \ {w} : Taken(s)' = Taken(s)
  <2>1. \A s \in Worker : s \in 1 .. numproc - 1
    BY DEF Worker
  <2>2. CASE w = numproc - 1 /\ pc'[Root] = after /\ i'[Root] = 1
    <3>1. \A s \in Worker : Passed(s)' = 0 /\ Passed(s) = IF s = w THEN 0 ELSE 1
      BY <1>4, <2>1, <2>2 DEF Passed
    <3> QED
      BY <1>1, <2>2, <3>1 DEF Taken
  <2>3. CASE w # numproc - 1 /\ pc'[Root] = phase /\ i'[Root] = w + 1
    <3>1. \A s \in Worker : Passed(s) \in Int /\ Passed(s)' = IF s = w THEN Passed(s) + 1 ELSE Passed(s)
      BY <1>4, <2>1, <2>3 DEF Passed
    <3> QED
      BY <1>1, <2>3, <3>1 DEF Taken
  <2> QED
    BY <1>3, <2>2, <2>3
<1>7. \A s \in Worker : Posted(s)' = Posted(s) /\ QueueInv(s) /\ SizeInv(s)
  BY <1>3 DEF Posted, Inv, WorkerInv
<1>8. \A s \in Worker : \A m, b : IsOf(m, s, b)' = IsOf(m, s, b)
  BY DEF IsOf, Contents
<1>9. ASSUME NEW s \in Worker \ {w} PROVE QueueInv(s)' /\ SizeInv(s)'
  BY <1>2, <1>6, <1>7, <1>8 DEF QueueInv, SizeInv
<1>10. Taken(w) \in Int /\ Taken(w)' = Taken(w) + 1
  BY <1>1, <1>6, CountRange
<1>11. QueueInv(w)'
  <2>1. CASE Queue(w) = <<Queue(w)[1]>> /\ Posted(w) = Taken(w) + 1
    <3>1. Queue(w)' = << >>
      BY <1>2, <2>1, ShortSequences
    <3> QED
      BY <1>1, <1>7, <1>10, <2>1, <3>1 DEF QueueInv
  <2>2. CASE /\ Queue(w) = <<Queue(w)[1], Queue(w)[2]>> /\ Posted(w) = Taken(w) + 2
             /\ IsOf(Queue(w)[2], w, Names[Taken(w) + 2])
    <3>1. PICK p, q : p = Queue(w)[1] /\ q = Queue(w)[2]
      OBVIOUS
    <3>2. Queue(w) = <<p, q>>
      BY <2>2, <3>1
    <3>3. Queue(w)' = <<q>> /\ Queue(w)'[1] = q
      BY <1>2, <3>2, ShortSequences
    <3> QED
      BY <1>1, <1>7, <1>8, <1>10, <2>2, <3>1, <3>3 DEF QueueInv
  <2>3. QueueInv(w)
    BY <1>1, <1>7
  <2> QED
    BY <1>2, <2>1, <2>2, <2>3 DEF QueueInv
<1>12. SizeInv(w)'
  <2>1. Message(w) = Contents(w, Names[Taken(w) + 1])
    BY <1>1, <1>2, <1>7, NextMessage
  <2>2. /\ phase = "uw_idx" => Taken(w) = 0
        /\ phase = "unique_words" => Taken(w) = 1
        /\ phase = "TF_idx" => Taken(w) = 2
        /\ phase = "strings" => Taken(w) = 3
    BY <1>1, <1>4 DEF Taken, Passed
  <2>3. CASE phase = "uw_idx"
    <3>1. Message(w) = <<Len(tables[w].unique)>>
      BY <2>1, <2>2, <2>3 DEF Contents, Names
    <3>2. idx'[w] = Len(tables[w].unique)
      BY <2>3, <3>1
    <3> QED
      BY <1>10, <2>2, <2>3, <3>2 DEF SizeInv
  <2>4. CASE phase = "TF_idx"
    <3>1. Message(w) = <<Len(tables[w].TFICF)>>
      BY <2>1, <2>2, <2>4 DEF Contents, Names
    <3>2. idx'[w] = Len(tables[w].TFICF)
      BY <2>4, <3>1
    <3> QED
      BY <1>10, <2>2, <2>4, <3>2 DEF SizeInv
  <2>5. CASE phase \in {"unique_words", "strings"}
    BY <1>10, <2>2, <2>5 DEF SizeInv
  <2> QED
    BY <2>3, <2>4, <2>5
<1>13. pc'[Root] # "start" /\ (pc[Root] \in Late => pc'[Root] \in Late)
  BY <1>1, <1>3 DEF Late
<1> QED
  BY <1>1, <1>3, <1>5, <1>9, <1>11, <1>12, <1>13, RootMoves

LEMMA RecvSizesStep == ASSUME Inv, RecvSizes PROVE Inv'
<1>1. PICK phase, after :
        /\ FromEach(phase, after)
        /\ \/ phase = "uw_idx" /\ after = "unique_words"
           \/ phase = "TF_idx" /\ after = "strings"
  BY DEF RecvSizes
<1>2. /\ idx' = [idx EXCEPT ![i[Root]] = Message(i[Root])[1]]
      /\ UNCHANGED <<corpus, tables, output, strings, bcasts>>
  BY DEF RecvSizes
<1>3. i[Root] \in Worker
  BY <1>1 DEF FromEach, Inv, RootInv
<1>4. /\ idx' = [r \in Worker |-> idx'[r]] /\ idx'[i[Root]] = Message(i[Root])[1]
      /\ \A s \in Worker \ {i[Root]} : idx'[s] = idx[s]
  BY <1>2, <1>3 DEF Inv, Functions
<1>5. strings' = [r \in Rank |-> strings'[r]]
  BY <1>2 DEF Inv, Functions
<1> QED
  BY <1>1, <1>2, <1>4, <1>5, Receives

LEMMA RecvUniqueStep == ASSUME Inv, RecvUnique PROVE Inv'
<1>1. /\ FromEach("unique_words", "merge")
      /\ UNCHANGED <<corpus, tables, idx, output, strings, bcasts>>
  BY DEF RecvUnique
<1>2. strings' = [r \in Rank |-> strings'[r]] /\ idx' = [r \in Worker |-> idx'[r]]
  BY <1>1 DEF Inv, Functions
<1> QED
  BY <1>1, <1>2, Receives

LEMMA RecvStringsStep == ASSUME Inv, RecvStrings PROVE Inv'
<1>1. /\ FromEach("strings", "write")
      /\ strings' = [strings EXCEPT ![Root] = @ \o Message(i[Root])]
      /\ UNCHANGED <<corpus, tables, rootVars, bcasts>>
  BY DEF RecvStrings
<1>2. /\ strings' = [r \in Rank |-> strings'[r]] /\ idx' = [r \in Worker |-> idx'[r]]
      /\ \A s \in Worker : strings'[s] = strings[s]
  BY <1>1, Ranks DEF Inv, Functions, rootVars
<1> QED
  BY <1>1, <1>2, Receives DEF rootVars

\* A step that changes neither what is sent nor what has been received.
LEMMA RootAlone ==
    ASSUME Inv, Functions', RootInv', UNCHANGED <<corpus, i, idx, sends>>,
           \A s \in Worker : /\ pc'[s] = pc[s] /\ tables'[s] = tables[s]
                             /\ strings'[s] = strings[s] /\ Taken(s)' = Taken(s),
           pc'[Root] \in Late
    PROVE  Inv'
<1>1. ASSUME NEW s \in Worker PROVE QueueInv(s)' /\ SizeInv(s)'
  <2>1. QueueInv(s) /\ SizeInv(s)
    BY DEF Inv, WorkerInv
  <2>2. Posted(s)' = Posted(s) /\ Queue(s)' = Queue(s)
    BY DEF Posted, Queue
  <2>3. \A m, b : IsOf(m, s, b)' = IsOf(m, s, b)
    BY DEF IsOf, Contents
  <2> QED
    BY <2>1, <2>2, <2>3 DEF QueueInv, SizeInv
<1> QED
  BY <1>1, RootMoves DEF Late

LEMMA MergeStep == ASSUME Inv, Merge PROVE Inv'
<1> DEFINE merged == Merged
<1>1. /\ pc[Root] = "merge" /\ pc' = [pc EXCEPT ![Root] = "TF_idx"]
      /\ tables' = [tables EXCEPT ![Root].unique = merged]
      /\ bcasts' = bcasts \o <<<<Len(merged)>>, merged>>
      /\ UNCHANGED <<corpus, i, rootVars, strings, sends>>
  BY DEF Merge, Goto, Broadcasts
<1> HIDE DEF merged
<1>2. /\ Functions' /\ pc'[Root] = "TF_idx"
      /\ \A s \in Worker : pc'[s] = pc[s] /\ tables'[s] = tables[s] /\ strings'[s] = strings[s]
  BY <1>1, Ranks DEF Inv, Functions, rootVars
<1>3. i[Root] = 1 /\ i[Root] \in Worker /\ bcasts = <<<<Len(corpus)>>>> /\ output = NoFile
  BY <1>1 DEF Inv, RootInv, Late
<1>4. RootInv'
  <2>1. PICK c : c = <<Len(corpus)>>
    OBVIOUS
  <2>2. PICK d : d = <<Len(merged)>>
    OBVIOUS
  <2>3. bcasts' = <<c, d, merged>> /\ bcasts'[2] = d /\ bcasts'[3] = merged
    BY <1>1, <1>3, <2>1, <2>2, ThreeElements
  <2>4. bcasts' = <<<<Len(corpus')>>, bcasts'[2], bcasts'[3]>>
    BY <1>1, <2>1, <2>3
  <2> QED
    BY <1>1, <1>2, <1>3, <2>4 DEF RootInv, RootPCs, Late, rootVars
<1>5. \A s \in Worker : Taken(s)' = Taken(s)
  BY <1>1, <1>2, <1>3, TficfAssumption DEF Taken, Passed, Worker
<1> QED
  BY <1>1, <1>2, <1>4, <1>5, RootAlone DEF Late, rootVars

LEMMA WriteOutputStep == ASSUME Inv, WriteOutput PROVE Inv'
<1>1. /\ pc[Root] = "write" /\ pc' = [pc EXCEPT ![Root] = "done"]
      /\ UNCHANGED <<corpus, i, tables, idx, strings, bcasts, sends>>
  BY DEF WriteOutput, Goto
<1>2. Functions' /\ pc'[Root] = "done" /\ \A s \in Worker : pc'[s] = pc[s]
  BY <1>1, Ranks DEF Inv, Functions
<1>3. RootInv'
  BY <1>1, <1>2 DEF Inv, RootInv, RootPCs, Late
<1>4. \A s \in Worker : Taken(s)' = Taken(s)
  BY <1>1, <1>2 DEF Taken
<1> QED
  BY <1>1, <1>2, <1>3, <1>4, RootAlone DEF Late

----------------------------------------------------------------------------
(* The theorems about messages *)

LEMMA InitInv == Init => Inv
<1> SUFFICES ASSUME Init PROVE Inv
  OBVIOUS
<1>1. Functions
  BY DEF Init, Functions, Idle
<1>2. RootInv
  BY Ranks DEF Init, RootInv, RootPCs
<1>3. ASSUME NEW r \in Worker PROVE pc[r] \in WorkerPCs /\ WorkerInv(r)
  <2>1. pc[r] = "start" /\ pc[Root] = "start" /\ Queue(r) = << >>
    BY Ranks DEF Init, Queue, Idle
  <2>2. Posted(r) = 0 /\ Taken(r) = 0
    BY <2>1 DEF Posted, Taken
  <2> QED
    BY <2>1, <2>2 DEF WorkerPCs, WorkerInv, QueueInv, SizeInv, LinesInv, ReadInv
<1> QED
  BY <1>1, <1>2, <1>3 DEF Init, Inv

LEMMA StutterInv == Inv /\ UNCHANGED vars => Inv'
<1> SUFFICES ASSUME Inv, UNCHANGED vars PROVE Inv'
  OBVIOUS
<1> USE DEF vars, rootVars
<1>1. Functions' /\ RootInv' /\ corpus' \in Corpora
  BY DEF Inv, Functions, RootInv
<1>2. ASSUME NEW r \in Worker PROVE pc'[r] \in WorkerPCs /\ WorkerInv(r)'
  <2>1. Posted(r)' = Posted(r) /\ Taken(r)' = Taken(r) /\ Queue(r)' = Queue(r)
    BY DEF Posted, Taken, Passed, Queue
  <2>2. \A m, b : IsOf(m, r, b)' = IsOf(m, r, b)
    BY DEF IsOf, Contents
  <2> QED
    BY <2>1, <2>2 DEF Inv, WorkerInv, QueueInv, SizeInv, LinesInv, ReadInv, Turn
<1> QED
  BY <1>1, <1>2 DEF Inv

\* What worker and root have sent and received agrees at every point, for every number of
\* ranks, every corpus and every eager limit.
THEOREM MessagesAgree == Spec => []Inv
<1>1. Inv /\ [Next]_vars => Inv'
  <2>1. ASSUME Inv, NEW r \in Worker, WorkerStep(r) PROVE Inv'
    BY <2>1, GetNumDocsStep, ReadDocStep, SendUniqueStep, GetUniqueStep, SendStringsStep
       DEF WorkerStep
  <2>2. ASSUME Inv, RootStep PROVE Inv'
    BY <2>2, CountDocsStep, RecvSizesStep, RecvUniqueStep, MergeStep, RecvStringsStep,
       WriteOutputStep DEF RootStep
  <2> QED
    BY <2>1, <2>2, StutterInv DEF Next
<1> QED
  BY <1>1, InitInv, PTL DEF Spec

\* SizesBeforeTables: although all messages of a worker have the same tag, the root receives
\* each into the buffer it is for, and with the size it has been told (TFICF.c:208, 218).
THEOREM SizesFirst == Spec => []SizesBeforeTables
<1>1. Inv => SizesBeforeTables
  <2> SUFFICES ASSUME Inv, NEW w, w = i[Root], Arrived(w),
                      pc[Root] \in {"uw_idx", "unique_words", "TF_idx", "strings"}
               PROVE  /\ Head(sends[<<w, Root>>]).from = pc[Root]
                      /\ pc[Root] \in {"unique_words", "strings"} => Len(Message(w)) = idx[w]
    BY DEF SizesBeforeTables
  <2>1. w \in Worker
    BY DEF Inv, RootInv
  <2>2. WorkerInv(w) /\ Taken(w) < Posted(w)
        /\ Head(Queue(w)).from = Names[Taken(w) + 1]
        /\ Message(w) = Contents(w, Names[Taken(w) + 1])
    BY <2>1, NextMessage DEF Inv, WorkerInv
  <2>3. w \in Int /\ ~(w < w)
    BY <2>1 DEF Worker
  <2>4. CASE pc[Root] = "uw_idx"
    <3>1. Taken(w) = 0
      BY <2>3, <2>4 DEF Taken, Passed
    <3> QED
      BY <2>2, <2>4, <3>1 DEF Names, Queue
  <2>5. CASE pc[Root] = "unique_words"
    <3>1. Taken(w) = 1
      BY <2>3, <2>5 DEF Taken, Passed
    <3> QED
      BY <2>2, <2>5, <3>1 DEF Names, Queue, WorkerInv, SizeInv, Contents
  <2>6. CASE pc[Root] = "TF_idx"
    <3>1. Taken(w) = 2
      BY <2>3, <2>6 DEF Taken, Passed
    <3> QED
      BY <2>2, <2>6, <3>1 DEF Names, Queue
  <2>7. CASE pc[Root] = "strings"
    <3>1. Taken(w) = 3
      BY <2>3, <2>7 DEF Taken, Passed
    <3>2. Posted(w) = 4 /\ pc[w] \in WorkerPCs
      BY <2>1, <2>2, <3>1, CountRange DEF Inv
    <3>3. strings[w] = tables[w].TFICF
      BY <2>2, <3>2 DEF Posted, WorkerPCs, WorkerInv, LinesInv
    <3> QED
      BY <2>2, <2>7, <3>1, <3>3 DEF Names, Queue, WorkerInv, SizeInv, Contents
  <2> QED
    BY <2>4, <2>5, <2>6, <2>7
<1> QED
  BY <1>1, MessagesAgree, PTL

\* When all tables have been merged, all documents are there.
LEMMA AllFound == ASSUME Inv, pc[Root] \in Late PROVE AllThere
<1> SUFFICES ASSUME NEW d \in DOMAIN corpus PROVE corpus[d] # Absent
  BY DEF AllThere
<1>1. DOMAIN corpus = 1 .. Len(corpus) /\ Len(corpus) \in Nat
  BY TficfAssumption DEF Inv
<1>2. PICK r \in Worker : Turn(r, d)
  BY <1>1, SomeTurn
<1>3. Taken(r) \in {2, 3, 4}
  BY DEF Taken, Passed, Late
<1>4. Posted(r) > 0 /\ ReadInv(r)
  BY <1>3, CountRange DEF Inv, WorkerInv
<1>5. pc[r] # "start"
  BY <1>4 DEF Posted
<1> QED
  BY <1>1, <1>2, <1>4, <1>5 DEF ReadInv

\* WritesComplete: the documents are dealt out so that every one is some worker's, and the
\* file is written only when all workers have read theirs (TFICF.c:118-140).
THEOREM CompleteOutput == Spec => []WritesComplete
<1>1. Inv => WritesComplete
  BY AllFound DEF WritesComplete, Inv, RootInv, Late
<1> QED
  BY <1>1, MessagesAgree, PTL

----------------------------------------------------------------------------
(* Induction and folds *)

\* A set of naturals with 0 and the successor of each of its elements has all naturals:
\* otherwise the successor, on its elements below one it lacks, is an injection that misses 0.
LEMMA Induction ==
    ASSUME NEW S, 0 \in S, \A n \in Nat : n \in S => n + 1 \in S
    PROVE  Nat \subseteq S
<1> SUFFICES ASSUME NEW n \in Nat, n \notin S
             PROVE  FALSE
  OBVIOUS
<1> DEFINE A == {k \in 0 .. n : k \in S}
           f == [k \in A |-> k + 1]
<1>1. IsFiniteSet(A)
  <2>1. IsFiniteSet(0 .. n)
    BY FS_Interval
  <2> QED
    BY <2>1, FS_Subset
<1>2. \A k \in A : k + 1 \in A
  OBVIOUS
<1>3. f \in Injection(A, A)
  BY <1>2 DEF Injection, IsInjective
<1>4. f \in Surjection(A, A)
  BY <1>1, <1>3, FS_Injection
<1>5. 0 \in A
  OBVIOUS
<1>6. \A t \in A : \E k \in A : f[k] = t
  BY <1>4 DEF Surjection
<1>7. \E k \in A : f[k] = 0
  BY ONLY <1>5, <1>6
<1> QED
  BY <1>7

\* A set of naturals that is not empty has a least element.
LEMMA LeastNatural ==
    ASSUME NEW S \in SUBSET Nat, S # {}
    PROVE  /\ Min(S) \in S
           /\ \A x \in S : Min(S) <= x
<1> DEFINE Q == {n \in Nat : \A T \in SUBSET Nat :
                   (\E x \in T : x <= n) => \E x \in T : \A y \in T : x <= y}
<1>1. 0 \in Q
  OBVIOUS
<1>2. \A n \in Nat : n \in Q => n + 1 \in Q
  <2> SUFFICES ASSUME NEW n \in Nat, n \in Q, NEW T \in SUBSET Nat,
                      NEW x \in T, x <= n + 1
               PROVE  \E z \in T : \A y \in T : z <= y
    OBVIOUS
  <2>1. CASE \E y \in T : y <= n
    BY <2>1
  <2>2. CASE ~ \E y \in T : y <= n
    <3>1. \A y \in T : n + 1 <= y
      BY <2>2
    <3> QED
      BY <3>1
  <2> QED
    BY <2>1, <2>2
<1>3. Nat \subseteq Q
  BY <1>1, <1>2, Induction
<1>4. PICK n \in S : TRUE
  OBVIOUS
<1>5. n \in Q
  BY <1>3
<1>6. \E x \in S : \A y \in S : x <= y
  BY <1>4, <1>5
<1> QED
  BY <1>6 DEF Min

\* A set of numbers up to n that is not empty has a greatest element.
LEMMA GreatestNatural ==
    ASSUME NEW n \in Nat, NEW S \in SUBSET (1 .. n), S # {}
    PROVE  /\ Max(S) \in S
           /\ \A x \in S : x <= Max(S)
<1> DEFINE T == {n - x : x \in S}
<1>1. T \in SUBSET Nat /\ T # {}
  <2>1. \A x \in S : n - x \in Nat
    OBVIOUS
  <2> QED
    BY <2>1
<1>2. Min(T) \in T /\ \A x \in T : Min(T) <= x
  BY <1>1, LeastNatural
<1>3. PICK x \in S : Min(T) = n - x
  BY <1>2
<1>4. \A y \in S : n - x <= n - y
  BY <1>2, <1>3
<1>5. \A y \in S : x >= y
  <2> SUFFICES ASSUME NEW y \in S PROVE x >= y
    OBVIOUS
  <2>1. n - x <= n - y /\ x \in Int /\ y \in Int
    BY <1>4
  <2> QED
    BY <2>1
<1> HIDE DEF T
<1>6. \E z \in S : \A y \in S : z >= y
  BY <1>5
<1> QED
  BY <1>6 DEF Max

\* The last of the first n + 1 numbers.
LEMMA LastOf == ASSUME NEW n \in Nat PROVE Max(1 .. n + 1) = n + 1
<1> DEFINE N == n + 1
           S == 1 .. N
<1>1. N \in Nat /\ N \in S /\ S # {} /\ S \in SUBSET (1 .. N)
  OBVIOUS
<1>2. \A x \in S : x \in Int /\ x <= N
  OBVIOUS
<1> HIDE DEF S
<1>3. Max(S) \in S /\ \A x \in S : x <= Max(S)
  BY <1>1, GreatestNatural
<1>4. Max(S) \in Int /\ Max(S) <= N /\ N <= Max(S)
  BY <1>1, <1>2, <1>3
<1>5. Max(S) = N
  BY <1>1, <1>4
<1> QED
  BY <1>5 DEF S

\* FoldLeft recurs on sets of positions.
FoldOf(F, X, G, base, elem, n) ==
    /\ F \in [SUBSET (1 .. n) -> X]
    /\ \A s \in SUBSET (1 .. n) :
          F[s] = IF s = {} THEN base ELSE G[<<F[s \ {Max(s)}], elem[Max(s)]>>]

\* There is such a function, for every step G.
LEMMA FoldDefined ==
    ASSUME NEW X, NEW Y, NEW G \in [X \X Y -> X], NEW base \in X, NEW n \in Nat,
           NEW elem \in [1 .. n -> Y]
    PROVE  \E F : FoldOf(F, X, G, base, elem, n)
<1> DEFINE P == 1 .. n
           Small(m) == {s \in SUBSET P : Cardinality(s) <= m}
           Is(F, m) == F \in [Small(m) -> X] /\ \A s \in Small(m) :
                          F[s] = IF s = {} THEN base ELSE G[<<F[s \ {Max(s)}], elem[Max(s)]>>]
           Q == {m \in Nat : \E F : Is(F, m)}
<1>0. /\ IsFiniteSet(P) /\ Cardinality(P) \in Nat
      /\ \A s \in SUBSET P : IsFiniteSet(s) /\ Cardinality(s) \in Nat /\ Cardinality(s) <= Cardinality(P)
  <2>1. IsFiniteSet(P)
    BY FS_Interval
  <2> QED
    BY <2>1, FS_Subset, FS_CardinalityType
<1>1. \A s \in SUBSET P : s # {} =>
         Max(s) \in s /\ Cardinality(s \ {Max(s)}) = Cardinality(s) - 1
  <2> SUFFICES ASSUME NEW s \in SUBSET P, s # {}
               PROVE  Max(s) \in s /\ Cardinality(s \ {Max(s)}) = Cardinality(s) - 1
    OBVIOUS
  <2>2. Max(s) \in s
    BY GreatestNatural
  <2> QED
    BY <2>2, <1>0, FS_RemoveElement
<1>2. 0 \in Q
  <2>1. \A s \in Small(0) : s = {}
    BY <1>0, FS_EmptySet
  <2>2. Is([s \in Small(0) |-> base], 0)
    BY <2>1
  <2> QED
    BY <2>2
<1>3. \A m \in Nat : m \in Q => m + 1 \in Q
  <2> SUFFICES ASSUME NEW m \in Nat, m \in Q
               PROVE  m + 1 \in Q
    OBVIOUS
  <2>0. PICK g : Is(g, m)
    OBVIOUS
  <2> DEFINE Put(s) == IF s = {} THEN base ELSE G[<<g[s \ {Max(s)}], elem[Max(s)]>>]
             h == [s \in Small(m + 1) |-> Put(s)]
  <2>1. \A s \in Small(m) : g[s] = Put(s)
    BY <2>0
  <2>2. \A s \in Small(m + 1) : s # {} => s \ {Max(s)} \in Small(m)
    <3> SUFFICES ASSUME NEW s \in Small(m + 1), s # {}
                 PROVE  s \ {Max(s)} \in Small(m)
      OBVIOUS
    <3>1. Cardinality(s \ {Max(s)}) = Cardinality(s) - 1 /\ Cardinality(s) \in Nat
          /\ Cardinality(s) <= m + 1
      BY <1>0, <1>1
    <3>2. Cardinality(s \ {Max(s)}) <= m
      BY <3>1
    <3> QED
      BY <3>2
  <2>3. Small(m) \subseteq Small(m + 1)
    BY <1>0
  <2>4. \A s \in Small(m) : h[s] = g[s]
    BY <2>1, <2>3
  <2>5. \A s \in Small(m + 1) : Put(s) \in X
    <3> SUFFICES ASSUME NEW s \in Small(m + 1), s # {}
                 PROVE  G[<<g[s \ {Max(s)}], elem[Max(s)]>>] \in X
      OBVIOUS
    <3>1. g[s \ {Max(s)}] \in X
      BY <2>0, <2>2
    <3>2. elem[Max(s)] \in Y
      BY <1>1
    <3> QED
      BY <3>1, <3>2
  <2>6. \A s \in Small(m + 1) :
           Put(s) = IF s = {} THEN base ELSE G[<<h[s \ {Max(s)}], elem[Max(s)]>>]
    BY <2>2, <2>4
  <2>7. h \in [Small(m + 1) -> X]
    BY <2>5
  <2>8. \A s \in Small(m + 1) : h[s] = Put(s)
    OBVIOUS
  <2>9. Is(h, m + 1)
    <3> HIDE DEF h, Put
    <3> QED
      BY <2>6, <2>7, <2>8
  <2>10. \E F : Is(F, m + 1)
    <3> HIDE DEF h, Is
    <3> QED
      BY <2>9
  <2> HIDE DEF Is
  <2> QED
    BY <2>10
<1>4. Nat \subseteq Q
  <2> HIDE DEF Q
  <2> QED
    BY <1>2, <1>3, Induction
<1>5. PICK F : Is(F, Cardinality(P))
  BY <1>4, <1>0
<1>6. Small(Cardinality(P)) = SUBSET P
  BY <1>0
<1>7. F \in [SUBSET P -> X] /\ \A s \in SUBSET P :
          F[s] = IF s = {} THEN base ELSE G[<<F[s \ {Max(s)}], elem[Max(s)]>>]
  BY <1>5, <1>6
<1> QED
  BY <1>7 DEF FoldOf

----------------------------------------------------------------------------
(* The tables of the words that have been read *)

\* The documents are numbered from 1, and each that is there is a sequence.
GoodCorpus(c) ==
    /\ Len(c) \in Nat /\ DOMAIN c = 1 .. Len(c)
    /\ \A d \in DOMAIN c : c[d] # Absent => Len(c[d]) \in Nat /\ DOMAIN c[d] = 1 .. Len(c[d])

\* Tables over the words W.
EntryOver(W) == [word : W, document : Nat, wordCount : Nat, docSize : Nat, numDocs : Nat,
                 numDocsWithWord : Int]
UniqueOver(W) == [word : W, numDocsWithWord : Nat, currDoc : Nat]
TablesOver(W) == [TFICF : Seq(EntryOver(W)), unique : Seq(UniqueOver(W))]

\* When the first rd[d] words of each document d are read: where word w has been found in
\* document d, and in which documents it has been found.
Places(c, rd, w, d) == {k \in 1 .. rd[d] : c[d][k] = w}
FoundIn(c, rd, w) == {d \in DOMAIN c : Places(c, rd, w, d) # {}}

EntryFor(c, rd, w, d) ==
    [word |-> w, document |-> d, wordCount |-> Cardinality(Places(c, rd, w, d)),
     docSize |-> Len(c[d]), numDocs |-> Len(c), numDocsWithWord |-> NotSet]

\* One entry of TFICF for each word and document it has been found in.
EntriesFor(c, rd, T) ==
    /\ \A j \in 1 .. Len(T) : /\ T[j].document \in FoundIn(c, rd, T[j].word)
                              /\ T[j] = EntryFor(c, rd, T[j].word, T[j].document)
    /\ \A j, k \in 1 .. Len(T) :
          T[j].word = T[k].word /\ T[j].document = T[k].document => j = k
    /\ \A d \in DOMAIN c : \A p \in 1 .. rd[d] :
          \E j \in 1 .. Len(T) : T[j].word = c[d][p] /\ T[j].document = d

\* One entry of unique_words for each word, and the last document it has been found in.
UniquesFor(c, rd, U) ==
    /\ \A j \in 1 .. Len(U) :
          /\ U[j].numDocsWithWord = Cardinality(FoundIn(c, rd, U[j].word))
          /\ U[j].currDoc \in FoundIn(c, rd, U[j].word)
          /\ \A d \in FoundIn(c, rd, U[j].word) : d <= U[j].currDoc
    /\ \A j, k \in 1 .. Len(U) : U[j].word = U[k].word => j = k
    /\ \A d \in DOMAIN c : \A p \in 1 .. rd[d] : \E j \in 1 .. Len(U) : U[j].word = c[d][p]

Table(c, rd, tab) == EntriesFor(c, rd, tab.TFICF) /\ UniquesFor(c, rd, tab.unique)

\* The tables with one more word.
AddWord(tab, doc, size, numDocs, word) ==
    [TFICF  |-> AddEntry(tab.TFICF, doc, size, numDocs, word),
     unique |-> AddUnique(tab.unique, doc, word)]

\* R is T with a new entry at its end, or with one more occurrence in entry j.
EntryAppended(T, R, w, doc, new) ==
    /\ \A j \in 1 .. Len(T) : ~(T[j].word = w /\ T[j].document = doc)
    /\ Len(R) = Len(T) + 1 /\ \A k \in 1 .. Len(T) : R[k] = T[k]
    /\ R[Len(T) + 1] = new
EntryCounted(T, R, w, doc) ==
    \E j \in 1 .. Len(T) :
       /\ T[j].word = w /\ T[j].document = doc
       /\ Len(R) = Len(T) /\ \A k \in 1 .. Len(T) \ {j} : R[k] = T[k]
       /\ R[j] = [T[j] EXCEPT !.wordCount = @ + 1]

\* The same of unique_words.
UniqueAppended(U, R, w, doc) ==
    /\ \A j \in 1 .. Len(U) : U[j].word # w
    /\ Len(R) = Len(U) + 1 /\ \A k \in 1 .. Len(U) : R[k] = U[k]
    /\ R[Len(U) + 1] = [word |-> w, numDocsWithWord |-> 1, currDoc |-> doc]
UniqueCounted(U, R, w, doc) ==
    \E j \in 1 .. Len(U) :
       /\ U[j].word = w /\ U[j].currDoc # doc
       /\ Len(R) = Len(U) /\ \A k \in 1 .. Len(U) \ {j} : R[k] = U[k]
       /\ R[j] = [word |-> w, numDocsWithWord |-> U[j].numDocsWithWord + 1, currDoc |-> doc]
UniqueKept(U, R, w, doc) ==
    R = U /\ \E j \in 1 .. Len(U) : U[j].word = w /\ U[j].currDoc = doc

\* A word is counted in its entry, or it gets one.
LEMMA AddEntryCases ==
    ASSUME NEW W, NEW T \in Seq(EntryOver(W)), NEW doc \in Nat, NEW size \in Nat,
           NEW nDocs \in Nat, NEW w \in W,
           NEW R, R = AddEntry(T, doc, size, nDocs, w)
    PROVE  /\ R \in Seq(EntryOver(W))
           /\ \/ EntryAppended(T, R, w, doc,
                    [word |-> w, document |-> doc, wordCount |-> 1, docSize |-> size,
                     numDocs |-> nDocs, numDocsWithWord |-> NotSet])
              \/ EntryCounted(T, R, w, doc)
<1> DEFINE I == {j \in 1 .. Len(T) : T[j].word = w /\ T[j].document = doc}
           new == [word |-> w, document |-> doc, wordCount |-> 1, docSize |-> size,
                   numDocs |-> nDocs, numDocsWithWord |-> NotSet]
<1>1. R = IF I # {} THEN (IF Min(I) # 0 THEN [T EXCEPT ![Min(I)].wordCount = @ + 1] ELSE Append(T, new))
                    ELSE (IF 0 # 0 THEN [T EXCEPT ![0].wordCount = @ + 1] ELSE Append(T, new))
  BY DEF AddEntry, SelectInSeq
<1>2. new \in EntryOver(W)
  BY DEF EntryOver, NotSet
<1>3. CASE I = {}
  <2>1. R = Append(T, new)
    BY <1>1, <1>3
  <2>2. \A j \in 1 .. Len(T) : ~(T[j].word = w /\ T[j].document = doc)
    BY <1>3
  <2> HIDE DEF new, I
  <2>3. R \in Seq(EntryOver(W)) /\ Len(R) = Len(T) + 1 /\ (\A k \in 1 .. Len(T) : R[k] = T[k])
        /\ R[Len(T) + 1] = new
    BY <1>2, <2>1
  <2> QED
    BY <2>2, <2>3 DEF new, EntryAppended
<1>4. CASE I # {}
  <2>1. Min(I) \in I
    <3>1. I \in SUBSET Nat
      OBVIOUS
    <3> HIDE DEF I
    <3> QED
      BY <1>4, <3>1, LeastNatural
  <2>2. PICK j \in 1 .. Len(T) : j = Min(I) /\ T[j].word = w /\ T[j].document = doc
    BY <2>1
  <2> DEFINE one == [T[j] EXCEPT !.wordCount = @ + 1]
  <2>3. R = [T EXCEPT ![j] = one]
    <3>1. j # 0
      OBVIOUS
    <3> HIDE DEF I
    <3> QED
      BY <1>1, <1>4, <2>2, <3>1
  <2>4. T[j] \in EntryOver(W)
    OBVIOUS
  <2>5. one \in EntryOver(W)
    <3>1. PICK e \in EntryOver(W) : e = T[j]
      BY <2>4
    <3>2. PICK x \in Nat : x = e.wordCount + 1
      BY DEF EntryOver
    <3>3. [e EXCEPT !.wordCount = x] \in EntryOver(W)
      BY DEF EntryOver
    <3> QED
      BY <3>1, <3>2, <3>3
  <2> HIDE DEF one
  <2>6. R \in Seq(EntryOver(W)) /\ Len(R) = Len(T) /\ (\A k \in 1 .. Len(T) \ {j} : R[k] = T[k])
        /\ R[j] = one
    BY <2>3, <2>5
  <2> QED
    BY <2>2, <2>6 DEF one, EntryCounted
<1> QED
  BY <1>3, <1>4

\* A word is counted once for each document.
LEMMA AddUniqueCases ==
    ASSUME NEW W, NEW U \in Seq(UniqueOver(W)), NEW doc \in Nat, NEW w \in W,
           NEW R, R = AddUnique(U, doc, w)
    PROVE  /\ R \in Seq(UniqueOver(W))
           /\ \/ UniqueAppended(U, R, w, doc) \/ UniqueCounted(U, R, w, doc)
              \/ UniqueKept(U, R, w, doc)
<1> DEFINE I == {j \in 1 .. Len(U) : U[j].word = w}
           new == [word |-> w, numDocsWithWord |-> 1, currDoc |-> doc]
           first == IF I # {} THEN Min(I) ELSE 0
<1>1. R = CASE first = 0 -> Append(U, new)
            [] first # 0 /\ U[first].currDoc # doc ->
                 [U EXCEPT ![first].numDocsWithWord = @ + 1, ![first].currDoc = doc]
            [] OTHER -> U
  BY DEF AddUnique, SelectInSeq
<1>2. new \in UniqueOver(W)
  BY DEF UniqueOver
<1>3. CASE I = {}
  <2>1. R = Append(U, new)
    <3> HIDE DEF I, new
    <3> QED
      BY <1>1, <1>3
  <2>2. \A j \in 1 .. Len(U) : U[j].word # w
    BY <1>3
  <2> HIDE DEF new, I, first
  <2>3. R \in Seq(UniqueOver(W)) /\ Len(R) = Len(U) + 1 /\ (\A k \in 1 .. Len(U) : R[k] = U[k])
        /\ R[Len(U) + 1] = new
    BY <1>2, <2>1
  <2> QED
    BY <2>2, <2>3 DEF new, UniqueAppended
<1>4. CASE I # {}
  <2>1. Min(I) \in I
    <3>1. I \in SUBSET Nat
      OBVIOUS
    <3> HIDE DEF I
    <3> QED
      BY <1>4, <3>1, LeastNatural
  <2>2. PICK j \in 1 .. Len(U) : j = Min(I) /\ U[j].word = w
    BY <2>1
  <2>3. first = j /\ j # 0
    <3> HIDE DEF I
    <3> QED
      BY <1>4, <2>2
  <2>4. U[j] \in UniqueOver(W)
    OBVIOUS
  <2> HIDE DEF first, I, new
  <2>5. CASE U[j].currDoc = doc
    <3>1. R = U
      BY <1>1, <2>3, <2>5
    <3> QED
      BY <2>2, <2>5, <3>1 DEF UniqueKept
  <2>6. CASE U[j].currDoc # doc
    <3> DEFINE one == [word |-> w, numDocsWithWord |-> U[j].numDocsWithWord + 1, currDoc |-> doc]
    <3>1. R = [U EXCEPT ![j].numDocsWithWord = @ + 1, ![j].currDoc = doc]
      BY <1>1, <2>3, <2>6
    <3>2. R = [U EXCEPT ![j] = [[U[j] EXCEPT !.numDocsWithWord = @ + 1] EXCEPT !.currDoc = doc]]
      BY <3>1
    <3>3. [[U[j] EXCEPT !.numDocsWithWord = @ + 1] EXCEPT !.currDoc = doc] = one
      <4>1. PICK u \in UniqueOver(W) : u = U[j] /\ u.word = w
        BY <2>2, <2>4
      <4>2. [[u EXCEPT !.numDocsWithWord = @ + 1] EXCEPT !.currDoc = doc]
               = [word |-> w, numDocsWithWord |-> u.numDocsWithWord + 1, currDoc |-> doc]
        <5> DEFINE f == [word |-> w, numDocsWithWord |-> u.numDocsWithWord + 1, currDoc |-> u.currDoc]
        <5>1. [u EXCEPT !.numDocsWithWord = @ + 1] = f
          <6>1. u = [word |-> w, numDocsWithWord |-> u.numDocsWithWord, currDoc |-> u.currDoc]
            BY <4>1 DEF UniqueOver
          <6>2. PICK a, b : a = u.numDocsWithWord /\ b = u.currDoc
            OBVIOUS
          <6>3. u = [word |-> w, numDocsWithWord |-> a, currDoc |-> b]
            BY <6>1, <6>2
          <6>4. [u EXCEPT !.numDocsWithWord = @ + 1]
                   = [word |-> w, numDocsWithWord |-> a + 1, currDoc |-> b]
            BY <6>3
          <6> QED
            BY <6>2, <6>4
        <5>2. [f EXCEPT !.currDoc = doc]
                = [word |-> w, numDocsWithWord |-> u.numDocsWithWord + 1, currDoc |-> doc]
          OBVIOUS
        <5> QED
          BY ONLY <5>1, <5>2
      <4> QED
        BY <4>1, <4>2
    <3>4. one \in UniqueOver(W)
      BY <2>4 DEF UniqueOver
    <3>5. R = [U EXCEPT ![j] = one]
      BY <3>2, <3>3
    <3> HIDE DEF one
    <3>6. R \in Seq(UniqueOver(W)) /\ Len(R) = Len(U) /\ (\A k \in 1 .. Len(U) \ {j} : R[k] = U[k])
          /\ R[j] = one
      BY <3>4, <3>5
    <3> QED
      BY <2>2, <2>6, <3>6 DEF one, UniqueCounted
  <2> QED
    BY <2>5, <2>6
<1> QED
  BY <1>3, <1>4

\* One more element.
LEMMA OneMore ==
    ASSUME NEW P, IsFiniteSet(P), NEW x, x \notin P
    PROVE  Cardinality(P) \in Nat /\ Cardinality(P \union {x}) = Cardinality(P) + 1
  BY FS_CardinalityType, FS_AddElement

\* Intervals are finite.
LEMMA Interval == \A n \in Nat : IsFiniteSet(1 .. n)
  BY FS_Interval

\* rd2 is rd with one more word of document d, the word w.
Reads(c, rd, rd2, w, d) ==
    /\ \A e \in DOMAIN c : \A v : e # d \/ v # w => Places(c, rd2, v, e) = Places(c, rd, v, e)
    /\ Places(c, rd2, w, d) # {}
    /\ Cardinality(Places(c, rd, w, d)) \in Nat
    /\ Cardinality(Places(c, rd2, w, d)) = Cardinality(Places(c, rd, w, d)) + 1
    /\ \A v : v # w => FoundIn(c, rd2, v) = FoundIn(c, rd, v)
    /\ FoundIn(c, rd2, w) = FoundIn(c, rd, w) \union {d}
    /\ \A e \in DOMAIN c : \A p \in 1 .. rd2[e] : p \in 1 .. rd[e] \/ (e = d /\ c[e][p] = w)

\* The next word of document d is at one more place, and d has it.
LEMMA OneMoreWord ==
    ASSUME NEW c, NEW rd \in [DOMAIN c -> Nat], NEW d \in DOMAIN c, NEW w, w = c[d][rd[d] + 1],
           NEW rd2, rd2 = [rd EXCEPT ![d] = @ + 1]
    PROVE  Reads(c, rd, rd2, w, d)
<1>1. /\ rd[d] \in Nat /\ rd2[d] = rd[d] + 1 /\ \A e \in DOMAIN c : e # d => rd2[e] = rd[e]
      /\ 1 .. rd2[d] = (1 .. rd[d]) \union {rd[d] + 1}
  OBVIOUS
<1>2. ASSUME NEW e \in DOMAIN c, NEW v, e # d \/ v # w
      PROVE  Places(c, rd2, v, e) = Places(c, rd, v, e)
  <2>1. CASE e # d
    BY <1>1, <2>1 DEF Places
  <2>2. CASE e = d /\ v # w
    BY <1>1, <2>2 DEF Places
  <2> QED
    BY <1>2, <2>1, <2>2
<1>3. Places(c, rd2, w, d) = Places(c, rd, w, d) \union {rd[d] + 1}
  BY <1>1 DEF Places
<1>4. rd[d] + 1 \notin Places(c, rd, w, d) /\ IsFiniteSet(Places(c, rd, w, d))
  <2>1. rd[d] + 1 \notin 1 .. rd[d]
    BY <1>1
  <2>2. IsFiniteSet(1 .. rd[d])
    BY <1>1, Interval
  <2>3. Places(c, rd, w, d) \subseteq 1 .. rd[d]
    BY DEF Places
  <2> QED
    BY <2>1, <2>2, <2>3, FS_Subset
<1>5. /\ Cardinality(Places(c, rd, w, d)) \in Nat
      /\ Cardinality(Places(c, rd2, w, d)) = Cardinality(Places(c, rd, w, d)) + 1
  BY <1>3, <1>4, OneMore
<1>6. \A v : v # w => FoundIn(c, rd2, v) = FoundIn(c, rd, v)
  BY <1>2 DEF FoundIn
<1>7. FoundIn(c, rd2, w) = FoundIn(c, rd, w) \union {d}
  <2>1. \A e \in DOMAIN c : e # d => Places(c, rd2, w, e) = Places(c, rd, w, e)
    BY <1>2
  <2>2. Places(c, rd2, w, d) # {}
    BY <1>3
  <2> QED
    BY <2>1, <2>2 DEF FoundIn
<1>8. \A e \in DOMAIN c : \A p \in 1 .. rd2[e] : p \in 1 .. rd[e] \/ (e = d /\ c[e][p] = w)
  BY <1>1
<1>9. Places(c, rd2, w, d) # {}
  BY <1>3
<1> QED
  BY <1>2, <1>5, <1>6, <1>7, <1>8, <1>9 DEF Reads

\* The documents with a word are a finite set of numbers.
LEMMA FoundFinite ==
    ASSUME NEW c, GoodCorpus(c), NEW rd, NEW w
    PROVE  /\ IsFiniteSet(FoundIn(c, rd, w)) /\ FoundIn(c, rd, w) \in SUBSET Nat
           /\ Cardinality(FoundIn(c, rd, w)) \in Nat
<1>1. IsFiniteSet(DOMAIN c) /\ DOMAIN c \in SUBSET Nat
  BY FS_Interval DEF GoodCorpus
<1>2. FoundIn(c, rd, w) \subseteq DOMAIN c
  BY DEF FoundIn
<1>3. IsFiniteSet(FoundIn(c, rd, w))
  BY <1>1, <1>2, FS_Subset
<1> QED
  BY <1>1, <1>2, <1>3, FS_CardinalityType

\* Word w is the next of document d, and no document after d has been read.
WordRead(c, rd, rd2, d, w, W) ==
    /\ rd \in [DOMAIN c -> Nat] /\ d \in DOMAIN c /\ Len(c[d]) \in Nat
    /\ \A e \in DOMAIN c : e > d => rd[e] = 0
    /\ w \in W /\ w = c[d][rd[d] + 1] /\ rd2 = [rd EXCEPT ![d] = @ + 1]

\* AddEntry keeps one entry for each word and document.
LEMMA EntriesStep ==
    ASSUME NEW c, GoodCorpus(c), NEW rd, NEW rd2, NEW d, NEW w, NEW W,
           WordRead(c, rd, rd2, d, w, W), NEW T \in Seq(EntryOver(W)), EntriesFor(c, rd, T)
    PROVE  /\ AddEntry(T, d, Len(c[d]), Len(c), w) \in Seq(EntryOver(W))
           /\ EntriesFor(c, rd2, AddEntry(T, d, Len(c[d]), Len(c), w))
<1> PICK R : R = AddEntry(T, d, Len(c[d]), Len(c), w)
  OBVIOUS
<1> SUFFICES R \in Seq(EntryOver(W)) /\ EntriesFor(c, rd2, R)
  OBVIOUS
<1>a. /\ rd \in [DOMAIN c -> Nat] /\ d \in DOMAIN c /\ Len(c[d]) \in Nat
      /\ w \in W /\ w = c[d][rd[d] + 1] /\ rd2 = [rd EXCEPT ![d] = @ + 1]
  BY DEF WordRead
<1>0. d \in Nat /\ Len(c) \in Nat
  BY <1>a DEF GoodCorpus
<1> DEFINE new == [word |-> w, document |-> d, wordCount |-> 1, docSize |-> Len(c[d]),
                   numDocs |-> Len(c), numDocsWithWord |-> NotSet]
<1>1. /\ R \in Seq(EntryOver(W))
      /\ EntryAppended(T, R, w, d, new) \/ EntryCounted(T, R, w, d)
  BY <1>a, <1>0, AddEntryCases
<1>2. Reads(c, rd, rd2, w, d)
  BY <1>a, OneMoreWord
<1>3. \A e : \A v : e \in FoundIn(c, rd, v) => e \in FoundIn(c, rd2, v) /\ e \in DOMAIN c
  BY <1>2 DEF FoundIn, Reads
<1>4. \A e \in DOMAIN c : \A v : e # d \/ v # w => EntryFor(c, rd2, v, e) = EntryFor(c, rd, v, e)
  BY <1>2 DEF EntryFor, Reads
<1>6. \A e \in DOMAIN c : \A p \in 1 .. rd2[e] : p \in 1 .. rd[e] \/ (e = d /\ c[e][p] = w)
  BY <1>2 DEF Reads
<1>7. Len(T) \in Nat
  OBVIOUS
<1>8. /\ \A j \in 1 .. Len(T) : /\ T[j].document \in FoundIn(c, rd, T[j].word)
                                /\ T[j] = EntryFor(c, rd, T[j].word, T[j].document)
      /\ \A j, k \in 1 .. Len(T) :
            T[j].word = T[k].word /\ T[j].document = T[k].document => j = k
      /\ \A e \in DOMAIN c : \A p \in 1 .. rd[e] :
            \E j \in 1 .. Len(T) : T[j].word = c[e][p] /\ T[j].document = e
  BY DEF EntriesFor
<1>9. CASE EntryAppended(T, R, w, d, new)
  <2>0. Len(R) = Len(T) + 1 /\ (\A k \in 1 .. Len(T) : R[k] = T[k]) /\ R[Len(T) + 1] = new
        /\ \A j \in 1 .. Len(T) : ~(T[j].word = w /\ T[j].document = d)
    BY <1>9 DEF EntryAppended
  <2>1. Places(c, rd, w, d) = {}
    BY <1>a, <1>8, <2>0 DEF Places
  <2>2. Cardinality(Places(c, rd2, w, d)) = 1
    <3>1. Cardinality(Places(c, rd, w, d)) = 0
      BY <2>1, FS_EmptySet
    <3> QED
      BY <1>2, <3>1 DEF Reads
  <2>3. R[Len(T) + 1].word = w /\ R[Len(T) + 1].document = d
        /\ R[Len(T) + 1] = EntryFor(c, rd2, w, d)
    BY <2>0, <2>2 DEF EntryFor
  <2>4. \A j \in 1 .. Len(R) : j \in 1 .. Len(T) \/ j = Len(T) + 1
    BY <1>7, <2>0
  <2>5. ASSUME NEW j \in 1 .. Len(R)
        PROVE  R[j].document \in FoundIn(c, rd2, R[j].word)
               /\ R[j] = EntryFor(c, rd2, R[j].word, R[j].document)
    <3>1. CASE j \in 1 .. Len(T)
      <4>1. R[j] = T[j] /\ ~(T[j].word = w /\ T[j].document = d)
            /\ T[j].document \in FoundIn(c, rd, T[j].word)
            /\ T[j] = EntryFor(c, rd, T[j].word, T[j].document)
        BY <1>8, <2>0, <3>1
      <4> QED
        BY <1>3, <1>4, <4>1
    <3>2. CASE j = Len(T) + 1
      BY <1>2, <2>3, <3>2 DEF Reads
    <3> QED
      BY <2>4, <3>1, <3>2
  <2>6. ASSUME NEW j \in 1 .. Len(R), NEW k \in 1 .. Len(R),
               R[j].word = R[k].word, R[j].document = R[k].document
        PROVE  j = k
    <3>1. CASE j \in 1 .. Len(T) /\ k \in 1 .. Len(T)
      <4>1. R[j] = T[j] /\ R[k] = T[k]
        BY <2>0, <3>1
      <4> QED
        BY <1>8, <2>6, <3>1, <4>1
    <3>2. CASE j \in 1 .. Len(T) /\ k = Len(T) + 1
      <4>1. R[j] = T[j] /\ R[k].word = w /\ R[k].document = d
        BY <2>0, <2>3, <3>2
      <4> QED
        BY <2>0, <2>6, <3>2, <4>1
    <3>3. CASE k \in 1 .. Len(T) /\ j = Len(T) + 1
      <4>1. R[k] = T[k] /\ R[j].word = w /\ R[j].document = d
        BY <2>0, <2>3, <3>3
      <4> QED
        BY <2>0, <2>6, <3>3, <4>1
    <3> QED
      BY <2>4, <3>1, <3>2, <3>3
  <2>7. ASSUME NEW e \in DOMAIN c, NEW p \in 1 .. rd2[e]
        PROVE  \E j \in 1 .. Len(R) : R[j].word = c[e][p] /\ R[j].document = e
    <3>1. CASE p \in 1 .. rd[e]
      <4>1. PICK j \in 1 .. Len(T) : T[j].word = c[e][p] /\ T[j].document = e
        BY <1>8, <3>1
      <4>2. j \in 1 .. Len(R) /\ R[j] = T[j]
        BY <1>7, <2>0
      <4> QED
        BY <4>1, <4>2
    <3>2. CASE e = d /\ c[e][p] = w
      <4>1. Len(T) + 1 \in 1 .. Len(R)
        BY <1>7, <2>0
      <4> QED
        BY <2>3, <3>2, <4>1
    <3> QED
      BY <1>6, <3>1, <3>2
  <2> QED
    BY <1>1, <2>5, <2>6, <2>7 DEF EntriesFor
<1>10. CASE EntryCounted(T, R, w, d)
  <2>0. PICK m \in 1 .. Len(T) :
              /\ T[m].word = w /\ T[m].document = d
              /\ Len(R) = Len(T) /\ \A k \in 1 .. Len(T) \ {m} : R[k] = T[k]
              /\ R[m] = [T[m] EXCEPT !.wordCount = @ + 1]
    BY <1>10 DEF EntryCounted
  <2>1. T[m] = EntryFor(c, rd, w, d)
    BY <1>8, <2>0
  <2>2. R[m] = EntryFor(c, rd2, w, d)
    <3>1. PICK n : n = Cardinality(Places(c, rd, w, d))
      OBVIOUS
    <3>2. T[m] = [word |-> w, document |-> d, wordCount |-> n, docSize |-> Len(c[d]),
                  numDocs |-> Len(c), numDocsWithWord |-> NotSet]
      BY <2>1, <3>1 DEF EntryFor
    <3>3. R[m] = [word |-> w, document |-> d, wordCount |-> n + 1, docSize |-> Len(c[d]),
                  numDocs |-> Len(c), numDocsWithWord |-> NotSet]
      BY <2>0, <3>2
    <3> QED
      BY <1>2, <3>1, <3>3 DEF EntryFor, Reads
  <2>3. R[m].word = w /\ R[m].document = d
    BY <2>2 DEF EntryFor
  <2>4. ASSUME NEW j \in 1 .. Len(T)
        PROVE  R[j].word = T[j].word /\ R[j].document = T[j].document
    BY <2>0, <2>3
  <2>5. ASSUME NEW j \in 1 .. Len(T)
        PROVE  R[j].document \in FoundIn(c, rd2, R[j].word)
               /\ R[j] = EntryFor(c, rd2, R[j].word, R[j].document)
    <3>1. CASE j # m
      <4>1. R[j] = T[j] /\ ~(T[j].word = w /\ T[j].document = d)
            /\ T[j].document \in FoundIn(c, rd, T[j].word)
            /\ T[j] = EntryFor(c, rd, T[j].word, T[j].document)
        BY <1>8, <2>0, <3>1
      <4> QED
        BY <1>3, <1>4, <4>1
    <3>2. CASE j = m
      BY <1>2, <2>2, <2>3, <3>2 DEF Reads
    <3> QED
      BY <3>1, <3>2
  <2>6. ASSUME NEW j \in 1 .. Len(T), NEW k \in 1 .. Len(T),
               R[j].word = R[k].word, R[j].document = R[k].document
        PROVE  j = k
    BY <1>8, <2>4, <2>6
  <2>7. ASSUME NEW e \in DOMAIN c, NEW p \in 1 .. rd2[e]
        PROVE  \E j \in 1 .. Len(T) : R[j].word = c[e][p] /\ R[j].document = e
    <3>1. CASE p \in 1 .. rd[e]
      <4>1. PICK j \in 1 .. Len(T) : T[j].word = c[e][p] /\ T[j].document = e
        BY <1>8, <3>1
      <4>2. R[j].word = T[j].word /\ R[j].document = T[j].document
        BY <2>4
      <4> QED
        BY <4>1, <4>2
    <3>2. CASE e = d /\ c[e][p] = w
      BY <2>3, <3>2
    <3> QED
      BY <1>6, <3>1, <3>2
  <2>8. 1 .. Len(R) = 1 .. Len(T)
    BY <2>0
  <2>9. \A j \in 1 .. Len(R) : /\ R[j].document \in FoundIn(c, rd2, R[j].word)
                                 /\ R[j] = EntryFor(c, rd2, R[j].word, R[j].document)
    BY <2>5, <2>8
  <2>10. \A j, k \in 1 .. Len(R) :
            R[j].word = R[k].word /\ R[j].document = R[k].document => j = k
    BY <2>6, <2>8
  <2>11. \A e \in DOMAIN c : \A p \in 1 .. rd2[e] :
            \E j \in 1 .. Len(R) : R[j].word = c[e][p] /\ R[j].document = e
    BY <2>7, <2>8
  <2> QED
    BY <1>1, <2>9, <2>10, <2>11 DEF EntriesFor
<1> QED
  BY <1>1, <1>9, <1>10

\* AddUnique counts a word once for each document, as documents are read in their order.
LEMMA UniquesStep ==
    ASSUME NEW c, GoodCorpus(c), NEW rd, NEW rd2, NEW d, NEW w, NEW W,
           WordRead(c, rd, rd2, d, w, W), NEW U \in Seq(UniqueOver(W)), UniquesFor(c, rd, U)
    PROVE  AddUnique(U, d, w) \in Seq(UniqueOver(W)) /\ UniquesFor(c, rd2, AddUnique(U, d, w))
<1> PICK R : R = AddUnique(U, d, w)
  OBVIOUS
<1> SUFFICES R \in Seq(UniqueOver(W)) /\ UniquesFor(c, rd2, R)
  OBVIOUS
<1>a. /\ rd \in [DOMAIN c -> Nat] /\ d \in DOMAIN c /\ \A e \in DOMAIN c : e > d => rd[e] = 0
      /\ w \in W /\ w = c[d][rd[d] + 1] /\ rd2 = [rd EXCEPT ![d] = @ + 1]
  BY DEF WordRead
<1>0. d \in Nat /\ DOMAIN c \in SUBSET Nat /\ Len(U) \in Nat
  BY <1>a DEF GoodCorpus
<1>1. /\ R \in Seq(UniqueOver(W))
      /\ \/ UniqueAppended(U, R, w, d) \/ UniqueCounted(U, R, w, d)
         \/ UniqueKept(U, R, w, d)
  BY <1>a, <1>0, AddUniqueCases
<1>2. Reads(c, rd, rd2, w, d)
  BY <1>a, OneMoreWord
<1>3. /\ \A v : v # w => FoundIn(c, rd2, v) = FoundIn(c, rd, v)
      /\ FoundIn(c, rd2, w) = FoundIn(c, rd, w) \union {d}
      /\ \A e \in DOMAIN c : \A p \in 1 .. rd2[e] : p \in 1 .. rd[e] \/ (e = d /\ c[e][p] = w)
  BY <1>2 DEF Reads
\* no document after d has been read
<1>4. \A v : \A e \in FoundIn(c, rd, v) : e \in Nat /\ e <= d
  <2> SUFFICES ASSUME NEW v, NEW e \in FoundIn(c, rd, v)
               PROVE  e \in Nat /\ e <= d
    OBVIOUS
  <2>1. e \in DOMAIN c /\ \E p \in 1 .. rd[e] : c[e][p] = v
    BY DEF FoundIn, Places
  <2>2. rd[e] # 0
    BY <2>1
  <2> QED
    BY <1>a, <1>0, <2>1, <2>2
<1>5. /\ \A j \in 1 .. Len(U) :
            /\ U[j].numDocsWithWord = Cardinality(FoundIn(c, rd, U[j].word))
            /\ U[j].currDoc \in FoundIn(c, rd, U[j].word)
            /\ \A e \in FoundIn(c, rd, U[j].word) : e <= U[j].currDoc
      /\ \A j, k \in 1 .. Len(U) : U[j].word = U[k].word => j = k
      /\ \A e \in DOMAIN c : \A p \in 1 .. rd[e] : \E j \in 1 .. Len(U) : U[j].word = c[e][p]
  BY DEF UniquesFor
<1>6. IsFiniteSet(FoundIn(c, rd, w)) /\ Cardinality(FoundIn(c, rd, w)) \in Nat
  BY FoundFinite
<1>7. CASE UniqueAppended(U, R, w, d)
  <2>0. /\ Len(R) = Len(U) + 1 /\ \A k \in 1 .. Len(U) : R[k] = U[k] /\ U[k].word # w
        /\ R[Len(U) + 1] = [word |-> w, numDocsWithWord |-> 1, currDoc |-> d]
    BY <1>7 DEF UniqueAppended
  <2>1. FoundIn(c, rd, w) = {}
    <3> SUFFICES ASSUME NEW e \in FoundIn(c, rd, w) PROVE FALSE
      OBVIOUS
    <3>1. e \in DOMAIN c /\ \E p \in 1 .. rd[e] : c[e][p] = w
      BY DEF FoundIn, Places
    <3> QED
      BY <1>5, <2>0, <3>1
  <2>2. FoundIn(c, rd2, w) = {d} /\ Cardinality(FoundIn(c, rd2, w)) = 1
    <3>1. FoundIn(c, rd2, w) = {d}
      BY <1>3, <2>1
    <3>2. Cardinality({d}) = 1
      BY FS_Singleton
    <3> QED
      BY <3>1, <3>2
  <2>3. \A j \in 1 .. Len(R) : j \in 1 .. Len(U) \/ j = Len(U) + 1
    BY <1>0, <2>0
  <2>4. ASSUME NEW j \in 1 .. Len(R)
        PROVE  /\ R[j].numDocsWithWord = Cardinality(FoundIn(c, rd2, R[j].word))
               /\ R[j].currDoc \in FoundIn(c, rd2, R[j].word)
               /\ \A e \in FoundIn(c, rd2, R[j].word) : e <= R[j].currDoc
    <3>1. CASE j \in 1 .. Len(U)
      <4>1. R[j] = U[j] /\ FoundIn(c, rd2, U[j].word) = FoundIn(c, rd, U[j].word)
        BY <1>3, <2>0, <3>1
      <4> QED
        BY <1>5, <3>1, <4>1
    <3>2. CASE j = Len(U) + 1
      <4>1. R[j].word = w /\ R[j].numDocsWithWord = 1 /\ R[j].currDoc = d
        BY <2>0, <3>2
      <4>2. FoundIn(c, rd2, R[j].word) = {d}
        BY <2>2, <4>1
      <4>3. d <= d
        BY <1>0
      <4> QED
        BY <2>2, <4>1, <4>2, <4>3
    <3> QED
      BY <2>3, <3>1, <3>2
  <2>5. ASSUME NEW j \in 1 .. Len(R), NEW k \in 1 .. Len(R), R[j].word = R[k].word
        PROVE  j = k
    <3>1. R[Len(U) + 1].word = w
      BY <2>0
    <3>2. \A m \in 1 .. Len(U) : R[m] = U[m] /\ R[m].word # w
      BY <2>0
    <3>3. CASE j \in 1 .. Len(U) /\ k \in 1 .. Len(U)
      BY <1>5, <2>5, <3>2, <3>3
    <3> QED
      BY <2>3, <2>5, <3>1, <3>2, <3>3
  <2>6. ASSUME NEW e \in DOMAIN c, NEW p \in 1 .. rd2[e]
        PROVE  \E j \in 1 .. Len(R) : R[j].word = c[e][p]
    <3>1. CASE p \in 1 .. rd[e]
      <4>1. PICK j \in 1 .. Len(U) : U[j].word = c[e][p]
        BY <1>5, <3>1
      <4>2. j \in 1 .. Len(R) /\ R[j] = U[j]
        BY <1>0, <2>0
      <4> QED
        BY <4>1, <4>2
    <3>2. CASE c[e][p] = w
      <4>1. Len(U) + 1 \in 1 .. Len(R)
        BY <1>0, <2>0
      <4>2. R[Len(U) + 1].word = w
        BY <2>0
      <4> QED
        BY <3>2, <4>1, <4>2
    <3> QED
      BY <1>3, <3>1, <3>2
  <2> QED
    BY <1>1, <2>4, <2>5, <2>6 DEF UniquesFor
<1>8. CASE UniqueCounted(U, R, w, d)
  <2>0. PICK m \in 1 .. Len(U) :
          /\ U[m].word = w /\ U[m].currDoc # d
          /\ Len(R) = Len(U) /\ \A k \in 1 .. Len(U) \ {m} : R[k] = U[k]
          /\ R[m] = [word |-> w, numDocsWithWord |-> U[m].numDocsWithWord + 1, currDoc |-> d]
    BY <1>8 DEF UniqueCounted
  <2>1. d \notin FoundIn(c, rd, w)
    <3>1. U[m].currDoc \in FoundIn(c, rd, w) /\ \A e \in FoundIn(c, rd, w) : e <= U[m].currDoc
      BY <1>5, <2>0
    <3>2. U[m].currDoc \in Nat /\ U[m].currDoc <= d
      BY <1>4, <3>1
    <3>3. U[m].currDoc < d
      BY <1>0, <2>0, <3>2
    <3>4. ~(d <= U[m].currDoc)
      BY <1>0, <3>2, <3>3
    <3> QED
      BY <3>1, <3>4
  <2>2. Cardinality(FoundIn(c, rd2, w)) = U[m].numDocsWithWord + 1
    <3>1. U[m].numDocsWithWord = Cardinality(FoundIn(c, rd, w))
      BY <1>5, <2>0
    <3> QED
      BY <1>3, <1>6, <2>1, <3>1, OneMore
  <2>3. R[m].word = w /\ R[m].numDocsWithWord = Cardinality(FoundIn(c, rd2, w)) /\ R[m].currDoc = d
    BY <2>0, <2>2
  <2>4. \A j \in 1 .. Len(U) : R[j].word = U[j].word
    BY <2>0, <2>3
  <2>5. 1 .. Len(R) = 1 .. Len(U)
    BY <2>0
  <2>6. ASSUME NEW j \in 1 .. Len(R)
        PROVE  /\ R[j].numDocsWithWord = Cardinality(FoundIn(c, rd2, R[j].word))
               /\ R[j].currDoc \in FoundIn(c, rd2, R[j].word)
               /\ \A e \in FoundIn(c, rd2, R[j].word) : e <= R[j].currDoc
    <3>1. CASE j # m
      <4>1. j \in 1 .. Len(U) /\ R[j] = U[j] /\ U[j].word # w
        BY <1>5, <2>0, <2>5, <3>1
      <4>2. FoundIn(c, rd2, U[j].word) = FoundIn(c, rd, U[j].word)
        BY <1>3, <4>1
      <4> QED
        BY <1>5, <4>1, <4>2
    <3>2. CASE j = m
      <4>1. d \in FoundIn(c, rd2, w) /\ \A e \in FoundIn(c, rd2, w) : e <= d
        <5>1. \A e \in FoundIn(c, rd, w) : e <= d
          BY <1>4
        <5>2. d <= d
          BY <1>0
        <5> QED
          BY <1>3, <5>1, <5>2
      <4> QED
        BY <2>3, <3>2, <4>1
    <3> QED
      BY <3>1, <3>2
  <2>7. ASSUME NEW j \in 1 .. Len(R), NEW k \in 1 .. Len(R), R[j].word = R[k].word
        PROVE  j = k
    BY <1>5, <2>4, <2>5, <2>7
  <2>8. ASSUME NEW e \in DOMAIN c, NEW p \in 1 .. rd2[e]
        PROVE  \E j \in 1 .. Len(R) : R[j].word = c[e][p]
    <3>1. CASE p \in 1 .. rd[e]
      <4>1. PICK j \in 1 .. Len(U) : U[j].word = c[e][p]
        BY <1>5, <3>1
      <4>2. j \in 1 .. Len(R) /\ R[j].word = U[j].word
        BY <2>4, <2>5
      <4> QED
        BY <4>1, <4>2
    <3>2. CASE c[e][p] = w
      <4>1. m \in 1 .. Len(R)
        BY <2>5
      <4> QED
        BY <2>3, <3>2, <4>1
    <3> QED
      BY <1>3, <3>1, <3>2
  <2> QED
    BY <1>1, <2>6, <2>7, <2>8 DEF UniquesFor
<1>9. CASE UniqueKept(U, R, w, d)
  <2>1. R = U /\ d \in FoundIn(c, rd, w)
    BY <1>5, <1>9 DEF UniqueKept
  <2>2. \A v : FoundIn(c, rd2, v) = FoundIn(c, rd, v)
    BY <1>3, <2>1
  <2>3. \A e \in DOMAIN c : \A p \in 1 .. rd2[e] : \E j \in 1 .. Len(U) : U[j].word = c[e][p]
    <3>1. \E j \in 1 .. Len(U) : U[j].word = w
      BY <1>9 DEF UniqueKept
    <3> QED
      BY <1>3, <1>5, <3>1
  <2>4. \A j \in 1 .. Len(U) :
            /\ U[j].numDocsWithWord = Cardinality(FoundIn(c, rd2, U[j].word))
            /\ U[j].currDoc \in FoundIn(c, rd2, U[j].word)
            /\ \A e \in FoundIn(c, rd2, U[j].word) : e <= U[j].currDoc
    BY <1>5, <2>2
  <2>5. UniquesFor(c, rd2, U)
    BY <1>5, <2>3, <2>4 DEF UniquesFor
  <2> QED
    BY <1>1, <2>1, <2>5
<1> QED
  BY <1>1, <1>7, <1>8, <1>9

\* What FoldLeft folds the words of a document with.
ReadFold(F, tab, doc, size, numDocs, text) ==
    F = [s \in SUBSET DOMAIN text |->
            IF s = {} THEN tab
            ELSE AddWord(F[s \ {Max(s)}], doc, size, numDocs, text[Max(s)])]

\* ReadDocument folds the words of the document into the tables.
LEMMA ReadDocumentFold ==
    ASSUME NEW tab, NEW doc, NEW text, NEW nDocs
    PROVE  ReadDocument(tab, doc, text, nDocs) =
             (CHOOSE F : ReadFold(F, tab, doc, Len(text), nDocs, text))[DOMAIN text]
  BY DEF ReadDocument, FoldLeft, MapThenFoldSet, ReadFold, AddWord

\* AddWord gives tables over the same words.
LEMMA AddWordType ==
    ASSUME NEW W, NEW tab \in TablesOver(W), NEW doc \in Nat, NEW size \in Nat, NEW nDocs \in Nat,
           NEW w \in W
    PROVE  AddWord(tab, doc, size, nDocs, w) \in TablesOver(W)
<1>1. tab.TFICF \in Seq(EntryOver(W)) /\ tab.unique \in Seq(UniqueOver(W))
  BY DEF TablesOver
<1>2. AddEntry(tab.TFICF, doc, size, nDocs, w) \in Seq(EntryOver(W))
  BY <1>1, AddEntryCases
<1>3. AddUnique(tab.unique, doc, w) \in Seq(UniqueOver(W))
  BY <1>1, AddUniqueCases
<1> QED
  BY <1>2, <1>3 DEF AddWord, TablesOver

\* v[k] are the tables after k words of text.
WordByWord(v, tab, doc, nDocs, text) ==
    /\ v[0] = tab /\ ReadDocument(tab, doc, text, nDocs) = v[Len(text)]
    /\ \A k \in 0 .. Len(text) - 1 :
          v[k + 1] = AddWord(v[k], doc, Len(text), nDocs, text[k + 1])

\* ReadDocument adds one word after the other.
LEMMA ReadSteps ==
    ASSUME NEW W, NEW tab \in TablesOver(W), NEW doc \in Nat, NEW nDocs \in Nat, NEW text,
           Len(text) \in Nat, DOMAIN text = 1 .. Len(text), \A k \in DOMAIN text : text[k] \in W
    PROVE  \E v : WordByWord(v, tab, doc, nDocs, text)
<1> DEFINE n == Len(text)
           X == TablesOver(W)
           G == [x \in X \X W |-> AddWord(x[1], doc, Len(text), nDocs, x[2])]
           elem == [k \in 1 .. n |-> text[k]]
           Is(F) == ReadFold(F, tab, doc, Len(text), nDocs, text)
<1>1. G \in [X \X W -> X]
  <2> SUFFICES ASSUME NEW x \in X \X W PROVE AddWord(x[1], doc, Len(text), nDocs, x[2]) \in X
    OBVIOUS
  <2>1. x[1] \in X /\ x[2] \in W
    OBVIOUS
  <2> QED
    BY <2>1, AddWordType
<1>2. elem \in [1 .. n -> W] /\ n \in Nat /\ tab \in X
  OBVIOUS
<1>3. \E F : Is(F)
  <2> HIDE DEF X, G, elem
  <2>1. PICK F \in [SUBSET (1 .. n) -> X] : \A s \in SUBSET (1 .. n) :
           F[s] = IF s = {} THEN tab ELSE G[<<F[s \ {Max(s)}], elem[Max(s)]>>]
    <3>1. \E F : FoldOf(F, X, G, tab, elem, n)
      BY <1>1, <1>2, FoldDefined
    <3> QED
      BY <3>1 DEF FoldOf
  <2>2. ASSUME NEW s \in SUBSET (1 .. n), s # {}
        PROVE  F[s] = AddWord(F[s \ {Max(s)}], doc, Len(text), nDocs, text[Max(s)])
    <3>1. Max(s) \in 1 .. n
      BY <1>2, <2>2, GreatestNatural
    <3>2. F[s \ {Max(s)}] \in X /\ elem[Max(s)] \in W /\ elem[Max(s)] = text[Max(s)]
      BY <1>2, <3>1 DEF elem
    <3>3. F[s] = G[<<F[s \ {Max(s)}], elem[Max(s)]>>]
      BY <2>1, <2>2
    <3> QED
      BY <3>2, <3>3 DEF G
  <2>3. F = [s \in SUBSET DOMAIN text |->
               IF s = {} THEN tab
               ELSE AddWord(F[s \ {Max(s)}], doc, Len(text), nDocs, text[Max(s)])]
    <3>1. DOMAIN text = 1 .. n
      OBVIOUS
    <3>2. F = [s \in SUBSET (1 .. n) |-> F[s]] /\ F[{}] = tab
      BY <2>1
    <3> QED
      BY <2>2, <3>1, <3>2
  <2> QED
    BY <2>3 DEF ReadFold
<1>4. PICK F : Is(F) /\ ReadDocument(tab, doc, text, nDocs) = F[DOMAIN text]
  <2> HIDE DEF Is
  <2>1. Is(CHOOSE F : Is(F))
    BY <1>3
  <2>2. ReadDocument(tab, doc, text, nDocs) = (CHOOSE F : Is(F))[DOMAIN text]
    BY ReadDocumentFold DEF Is
  <2> QED
    BY <2>1, <2>2
<1> DEFINE v == [k \in 0 .. n |-> F[1 .. k]]
<1>5. v[0] = tab
  <2>1. v[0] = F[1 .. 0] /\ 1 .. 0 = {}
    OBVIOUS
  <2> QED
    BY <1>4, <2>1 DEF ReadFold
<1>6. ReadDocument(tab, doc, text, nDocs) = v[Len(text)]
  BY <1>4
<1>7. ASSUME NEW k \in 0 .. Len(text) - 1
      PROVE  v[k + 1] = AddWord(v[k], doc, Len(text), nDocs, text[k + 1])
  <2>1. k \in Nat /\ k \in 0 .. n /\ k + 1 \in 0 .. n
    OBVIOUS
  <2>2. /\ 1 .. k + 1 \in SUBSET DOMAIN text /\ 1 .. k + 1 # {}
        /\ (1 .. k + 1) \ {k + 1} = 1 .. k
    BY <2>1
  <2>3. Max(1 .. k + 1) = k + 1
    BY <2>1, LastOf
  <2>4. F[1 .. k + 1] = AddWord(F[1 .. k], doc, Len(text), nDocs, text[k + 1])
    BY <1>4, <2>2, <2>3 DEF ReadFold
  <2> QED
    BY <2>1, <2>4
<1> HIDE DEF v
<1> QED
  BY <1>5, <1>6, <1>7 DEF WordByWord

\* The tables after all words of document d.
ReadUpTo(rd, d, k) == [rd EXCEPT ![d] = k]

\* ReadDocument keeps Table, when the documents are read in their order.
LEMMA ReadDocumentKeeps ==
    ASSUME NEW c, GoodCorpus(c), NEW rd \in [DOMAIN c -> Nat], NEW d \in DOMAIN c, c[d] # Absent,
           \A e \in DOMAIN c : e >= d => rd[e] = 0,
           NEW W, \A k \in DOMAIN c[d] : c[d][k] \in W,
           NEW tab \in TablesOver(W), Table(c, rd, tab),
           NEW R, R = ReadDocument(tab, d, c[d], Len(c))
    PROVE  R \in TablesOver(W) /\ Table(c, ReadUpTo(rd, d, Len(c[d])), R)
<1> DEFINE n == Len(c[d])
<1>1. /\ n \in Nat /\ DOMAIN c[d] = 1 .. n /\ Len(c) \in Nat /\ d \in Nat /\ d >= d
      /\ DOMAIN c \in SUBSET Nat /\ rd[d] = 0
  BY DEF GoodCorpus
<1>2. PICK v : /\ v[0] = tab /\ R = v[n]
               /\ \A k \in 0 .. n - 1 : v[k + 1] = AddWord(v[k], d, n, Len(c), c[d][k + 1])
  <2>1. \E v : WordByWord(v, tab, d, Len(c), c[d])
    BY <1>1, ReadSteps
  <2> QED
    BY <2>1 DEF WordByWord
<1> DEFINE Good(k) == v[k] \in TablesOver(W) /\ Table(c, ReadUpTo(rd, d, k), v[k])
           Q == {k \in Nat : k <= n => Good(k)}
<1>3. 0 \in Q
  <2>1. ReadUpTo(rd, d, 0) = rd
    BY <1>1 DEF ReadUpTo
  <2> QED
    BY <1>2, <2>1
<1>4. ASSUME NEW k \in Nat, k \in Q PROVE k + 1 \in Q
  <2> SUFFICES ASSUME k + 1 <= n PROVE Good(k + 1)
    OBVIOUS
  <2> DEFINE rk == ReadUpTo(rd, d, k)
             w == c[d][k + 1]
             rk2 == ReadUpTo(rd, d, k + 1)
  <2>1. k \in 0 .. n - 1 /\ k <= n /\ k + 1 \in 1 .. n
    BY <1>1
  <2>2. v[k] \in TablesOver(W) /\ Table(c, rk, v[k])
    BY <1>4, <2>1
  <2>3. /\ rk \in [DOMAIN c -> Nat] /\ rk[d] = k /\ rk2 = [rk EXCEPT ![d] = @ + 1]
        /\ \A e \in DOMAIN c : e > d => rk[e] = 0
    <3>1. rk = [rd EXCEPT ![d] = k] /\ rk2 = [rd EXCEPT ![d] = k + 1]
      BY DEF ReadUpTo
    <3>2. \A e \in DOMAIN c : e > d => e # d /\ e >= d
      BY <1>1
    <3> QED
      BY <3>1, <3>2
  <2>4. w \in W /\ w = c[d][rk[d] + 1]
    BY <1>1, <2>1, <2>3
  <2> DEFINE T == v[k].TFICF
             U == v[k].unique
             T2 == AddEntry(T, d, n, Len(c), w)
             U2 == AddUnique(U, d, w)
  <2>5. v[k + 1] = [TFICF |-> T2, unique |-> U2]
    BY <1>2, <2>1 DEF AddWord
  <2>6. T \in Seq(EntryOver(W)) /\ U \in Seq(UniqueOver(W))
        /\ EntriesFor(c, rk, T) /\ UniquesFor(c, rk, U)
    BY <2>2 DEF TablesOver, Table
  <2>10. WordRead(c, rk, rk2, d, w, W)
    BY <1>1, <2>3, <2>4 DEF WordRead
  <2> HIDE DEF rk, rk2, w, T, U
  <2>7. T2 \in Seq(EntryOver(W)) /\ EntriesFor(c, rk2, T2)
    BY <2>6, <2>10, EntriesStep
  <2>8. U2 \in Seq(UniqueOver(W)) /\ UniquesFor(c, rk2, U2)
    BY <2>6, <2>10, UniquesStep
  <2> HIDE DEF T2, U2
  <2>9. v[k + 1].TFICF = T2 /\ v[k + 1].unique = U2 /\ v[k + 1] \in TablesOver(W)
    BY <2>5, <2>7, <2>8 DEF TablesOver
  <2> QED
    BY <2>7, <2>8, <2>9 DEF Table, rk2
<1>5. Nat \subseteq Q
  <2> HIDE DEF Q
  <2> QED
    BY <1>3, <1>4, Induction
<1>6. Good(n)
  <2>1. n <= n
    BY <1>1
  <2> QED
    BY <1>1, <1>5, <2>1
<1> QED
  BY <1>2, <1>6

----------------------------------------------------------------------------
(* The lines of the output *)

AllPresent(c) == \A d \in DOMAIN c : c[d] # Absent
WordsIn(c)    == UNION {ToSet(c[d]) : d \in {e \in DOMAIN c : c[e] # Absent}}

\* When all words of the documents D are read.
ReadOf(c, D) == [d \in DOMAIN c |-> IF d \in D THEN Len(c[d]) ELSE 0]
AllRead(c)   == ReadOf(c, DOMAIN c)

\* The line for word w of document d.
LineFor(c, w, d) ==
    [word |-> w, document |-> d, wordCount |-> Cardinality(Places(c, AllRead(c), w, d)),
     docSize |-> Len(c[d]), numDocs |-> Len(c),
     numDocsWithWord |-> Cardinality(FoundIn(c, AllRead(c), w))]

\* s has a line for each word of the documents D, and it has it once.
LinesFor(c, D, s) ==
    /\ s \in Seq(EntryOver(WordsIn(c)))
    /\ \A j \in 1 .. Len(s) : \E d \in D : \E p \in 1 .. Len(c[d]) : s[j] = LineFor(c, c[d][p], d)
    /\ \A j, k \in 1 .. Len(s) : s[j] = s[k] => j = k
    /\ \A d \in D : \A p \in 1 .. Len(c[d]) : \E j \in 1 .. Len(s) : s[j] = LineFor(c, c[d][p], d)

\* U has the number of documents with it for each word of the corpus.
CountsFor(c, U) ==
    /\ U \in Seq(UniqueOver(WordsIn(c)))
    /\ \A j \in 1 .. Len(U) : U[j].numDocsWithWord = Cardinality(FoundIn(c, AllRead(c), U[j].word))
    /\ \A d \in DOMAIN c : \A p \in 1 .. Len(c[d]) : \E j \in 1 .. Len(U) : U[j].word = c[d][p]

\* U has no word twice.
WordsDiffer(U) == \A j, k \in 1 .. Len(U) : U[j].word = U[k].word => j = k

\* The words of a document are words of the corpus.
LEMMA WordsOfDocument ==
    ASSUME NEW c, NEW d \in DOMAIN c, c[d] # Absent
    PROVE  \A k \in DOMAIN c[d] : c[d][k] \in WordsIn(c)
  BY DEF WordsIn, ToSet

\* Populate gives each entry the number of an entry of unique_words with its word.
HasWord(U, w) == \E j \in 1 .. Len(U) : U[j].word = w
PopulatedBy(T, U, k, e) ==
    \E j \in 1 .. Len(U) :
       U[j].word = T[k].word /\ e = [T[k] EXCEPT !.numDocsWithWord = U[j].numDocsWithWord]

\* If unique_words has the word of an entry, the entry gets a number.
LEMMA PopulateCases ==
    ASSUME NEW W, NEW T \in Seq(EntryOver(W)), NEW V, NEW U \in Seq(UniqueOver(V)),
           NEW k \in 1 .. Len(T), HasWord(U, T[k].word)
    PROVE  PopulatedBy(T, U, k, Populate(T, U)[k])
<1> DEFINE I == {j \in 1 .. Len(U) : U[j].word = T[k].word}
           first == IF I # {} THEN Min(I) ELSE 0
<1>1. k \in DOMAIN T
  OBVIOUS
<1>2. Populate(T, U)[k] = IF first = 0 THEN T[k]
                          ELSE [T[k] EXCEPT !.numDocsWithWord = U[first].numDocsWithWord]
  BY <1>1 DEF Populate, SelectInSeq
<1>3. I # {} /\ I \in SUBSET Nat
  BY DEF HasWord
<1>4. Min(I) \in I
  <2> HIDE DEF I
  <2> QED
    BY <1>3, LeastNatural
<1>5. PICK j \in 1 .. Len(U) : j = Min(I) /\ U[j].word = T[k].word
  BY <1>4
<1>6. first = j /\ j # 0
  <2> HIDE DEF I
  <2> QED
    BY <1>3, <1>5
<1> HIDE DEF first
<1> QED
  BY <1>2, <1>5, <1>6 DEF PopulatedBy

\* After Populate a table of the words of the documents D has the lines of these.
LEMMA PopulateLines ==
    ASSUME NEW c, GoodCorpus(c), NEW D \in SUBSET DOMAIN c,
           NEW T \in Seq(EntryOver(WordsIn(c))), EntriesFor(c, ReadOf(c, D), T),
           NEW U, CountsFor(c, U)
    PROVE  LinesFor(c, D, Populate(T, U))
<1> DEFINE rd == ReadOf(c, D)
           W == WordsIn(c)
           P == Populate(T, U)
<1>1. /\ \A j \in 1 .. Len(T) : /\ T[j].document \in FoundIn(c, rd, T[j].word)
                                /\ T[j] = EntryFor(c, rd, T[j].word, T[j].document)
      /\ \A j, k \in 1 .. Len(T) :
            T[j].word = T[k].word /\ T[j].document = T[k].document => j = k
      /\ \A e \in DOMAIN c : \A p \in 1 .. rd[e] :
            \E j \in 1 .. Len(T) : T[j].word = c[e][p] /\ T[j].document = e
  BY DEF EntriesFor
<1>2. /\ U \in Seq(UniqueOver(W))
      /\ \A j \in 1 .. Len(U) : U[j].numDocsWithWord = Cardinality(FoundIn(c, AllRead(c), U[j].word))
      /\ \A d \in DOMAIN c : \A p \in 1 .. Len(c[d]) : \E j \in 1 .. Len(U) : U[j].word = c[d][p]
  BY DEF CountsFor
<1>3. DOMAIN P = 1 .. Len(T) /\ Len(T) \in Nat /\ P = [k \in 1 .. Len(T) |-> P[k]]
  BY DEF Populate
<1>4. ASSUME NEW k \in 1 .. Len(T)
      PROVE  /\ T[k].document \in D
             /\ \E p \in 1 .. Len(c[T[k].document]) : c[T[k].document][p] = T[k].word
             /\ P[k] = LineFor(c, T[k].word, T[k].document)
  <2> DEFINE d == T[k].document
             w == T[k].word
  <2>1. d \in FoundIn(c, rd, w) /\ T[k] = EntryFor(c, rd, w, d)
    BY <1>1
  <2>2. d \in DOMAIN c /\ \E p \in 1 .. rd[d] : c[d][p] = w
    BY <2>1 DEF FoundIn, Places
  <2>3. d \in D /\ rd[d] = Len(c[d]) /\ AllRead(c)[d] = Len(c[d])
    BY <2>2 DEF ReadOf, AllRead
  <2>4. \E p \in 1 .. Len(c[d]) : c[d][p] = w
    BY <2>2, <2>3
  <2>5. Places(c, rd, w, d) = Places(c, AllRead(c), w, d)
    BY <2>3 DEF Places
  <2>6. \E j \in 1 .. Len(U) : U[j].word = w
    BY <1>2, <2>2, <2>4
  <2>7. PICK j \in 1 .. Len(U) :
            /\ U[j].word = T[k].word
            /\ P[k] = [T[k] EXCEPT !.numDocsWithWord = U[j].numDocsWithWord]
    <3>1. HasWord(U, T[k].word)
      BY <2>6 DEF HasWord
    <3>2. PopulatedBy(T, U, k, Populate(T, U)[k])
      BY <1>2, <3>1, PopulateCases
    <3> QED
      BY <3>2 DEF PopulatedBy
  <2>8. U[j].numDocsWithWord = Cardinality(FoundIn(c, AllRead(c), w))
    BY <1>2, <2>7
  <2>9. PICK n, m : n = Cardinality(Places(c, AllRead(c), w, d))
                    /\ m = Cardinality(FoundIn(c, AllRead(c), w))
    OBVIOUS
  <2> HIDE DEF d, w
  <2>10. T[k] = [word |-> w, document |-> d, wordCount |-> n, docSize |-> Len(c[d]),
                 numDocs |-> Len(c), numDocsWithWord |-> NotSet]
    BY <2>1, <2>5, <2>9 DEF EntryFor
  <2>11. P[k] = [word |-> w, document |-> d, wordCount |-> n, docSize |-> Len(c[d]),
                 numDocs |-> Len(c), numDocsWithWord |-> m]
    BY <2>7, <2>8, <2>9, <2>10
  <2>12. P[k] = LineFor(c, w, d)
    BY <2>9, <2>11 DEF LineFor
  <2> QED
    BY <2>3, <2>4, <2>12 DEF d, w
<1>5. ASSUME NEW k \in 1 .. Len(T)
      PROVE  /\ P[k] \in EntryOver(W)
             /\ P[k].word = T[k].word /\ P[k].document = T[k].document
  <2>1. P[k] = LineFor(c, T[k].word, T[k].document)
    BY <1>4
  <2>2. T[k] \in EntryOver(W) /\ T[k] = EntryFor(c, rd, T[k].word, T[k].document)
    BY <1>1
  <2>3. P[k].word = T[k].word /\ P[k].document = T[k].document
    BY <2>1 DEF LineFor
  <2>4. /\ T[k].word \in W /\ T[k].document \in Nat /\ T[k].wordCount \in Nat
        /\ T[k].docSize \in Nat /\ T[k].numDocs \in Nat
    BY <2>2 DEF EntryOver
  <2>5. T[k].wordCount = Cardinality(Places(c, AllRead(c), T[k].word, T[k].document))
    <3>1. T[k].document \in D /\ T[k].document \in DOMAIN c
      BY <1>4
    <3>2. rd[T[k].document] = AllRead(c)[T[k].document]
      BY <3>1 DEF ReadOf, AllRead
    <3>3. T[k].wordCount = Cardinality(Places(c, rd, T[k].word, T[k].document))
      BY <2>2 DEF EntryFor
    <3> QED
      BY <3>2, <3>3 DEF Places
  <2>6. T[k].docSize = Len(c[T[k].document]) /\ T[k].numDocs = Len(c)
    BY <2>2 DEF EntryFor
  <2>7. Cardinality(FoundIn(c, AllRead(c), T[k].word)) \in Nat
    BY FoundFinite
  <2>8. LineFor(c, T[k].word, T[k].document) \in EntryOver(W)
    BY <2>4, <2>5, <2>6, <2>7 DEF LineFor, EntryOver
  <2> QED
    BY <2>1, <2>3, <2>8
<1> HIDE DEF P
<1>6. P \in Seq(EntryOver(W)) /\ Len(P) = Len(T)
  BY <1>3, <1>5
<1>7. ASSUME NEW j \in 1 .. Len(P)
      PROVE  \E d \in D : \E p \in 1 .. Len(c[d]) : P[j] = LineFor(c, c[d][p], d)
  <2>1. j \in 1 .. Len(T)
    BY <1>6
  <2> QED
    BY <1>4, <2>1
<1>8. ASSUME NEW j \in 1 .. Len(P), NEW k \in 1 .. Len(P), P[j] = P[k]
      PROVE  j = k
  <2>1. j \in 1 .. Len(T) /\ k \in 1 .. Len(T)
    BY <1>6
  <2>2. T[j].word = T[k].word /\ T[j].document = T[k].document
    BY <1>5, <1>8, <2>1
  <2> QED
    BY <1>1, <2>1, <2>2
<1>9. ASSUME NEW d \in D, NEW p \in 1 .. Len(c[d])
      PROVE  \E j \in 1 .. Len(P) : P[j] = LineFor(c, c[d][p], d)
  <2>1. d \in DOMAIN c /\ p \in 1 .. rd[d]
    BY DEF ReadOf
  <2>2. PICK j \in 1 .. Len(T) : T[j].word = c[d][p] /\ T[j].document = d
    BY <1>1, <2>1
  <2>3. P[j] = LineFor(c, T[j].word, T[j].document)
    BY <1>4
  <2>4. j \in 1 .. Len(P)
    BY <1>6
  <2> QED
    BY <2>2, <2>3, <2>4
<1> QED
  BY <1>6, <1>7, <1>8, <1>9 DEF LinesFor, P

\* All lines that TF-ICF has for the corpus.
LinesIn(c) == UNION {{LineFor(c, c[d][p], d) : p \in 1 .. Len(c[d])} : d \in DOMAIN c}

\* c is a sequence of texts, and a text one of words.
Texts(c) ==
    /\ Len(c) \in Nat /\ DOMAIN c = 1 .. Len(c)
    /\ \A d \in DOMAIN c : Len(c[d]) \in Nat /\ DOMAIN c[d] = 1 .. Len(c[d])

\* That is what Definition says.
LEMMA DefinedLines ==
    ASSUME NEW c, Texts(c)
    PROVE  Definition(c) = [line \in LinesIn(c) |-> 1]
<1> DEFINE docs == DOMAIN c
           words == UNION {ToSet(c[d]) : d \in docs}
           Count(w, d) == Cardinality({k \in DOMAIN c[d] : c[d][k] = w})
           Line(w, d)  == [word |-> w, document |-> d, wordCount |-> Count(w, d),
                           docSize |-> Len(c[d]), numDocs |-> Cardinality(docs),
                           numDocsWithWord |-> Cardinality({e \in docs : Count(w, e) > 0})]
           pairs == {q \in words \X docs : Count(q[1], q[2]) > 0}
           found == {Line(p[1], p[2]) : p \in pairs}
<1>1. Definition(c) = [line \in found |-> 1]
  BY DEF Definition
<1>2. /\ Len(c) \in Nat /\ DOMAIN c = 1 .. Len(c)
      /\ \A d \in DOMAIN c : Len(c[d]) \in Nat /\ DOMAIN c[d] = 1 .. Len(c[d])
  BY DEF Texts
<1>3. Cardinality(docs) = Len(c)
  <2>1. \A n \in Nat : Cardinality(1 .. n) = n
    BY FS_Interval
  <2> QED
    BY <1>2, <2>1
<1>4. ASSUME NEW w, NEW d \in docs
      PROVE  /\ {k \in DOMAIN c[d] : c[d][k] = w} = Places(c, AllRead(c), w, d)
             /\ IsFiniteSet(Places(c, AllRead(c), w, d))
  <2>1. AllRead(c)[d] = Len(c[d]) /\ DOMAIN c[d] = 1 .. Len(c[d]) /\ Len(c[d]) \in Nat
    BY <1>2 DEF AllRead, ReadOf
  <2>2. {k \in DOMAIN c[d] : c[d][k] = w} = Places(c, AllRead(c), w, d)
    BY <2>1 DEF Places
  <2>3. IsFiniteSet(1 .. Len(c[d])) /\ Places(c, AllRead(c), w, d) \subseteq 1 .. Len(c[d])
    BY <2>1, Interval DEF Places
  <2> QED
    BY <2>2, <2>3, FS_Subset
<1>5. ASSUME NEW w, NEW d \in docs
      PROVE  /\ Count(w, d) = Cardinality(Places(c, AllRead(c), w, d))
             /\ Count(w, d) > 0 <=> \E p \in 1 .. Len(c[d]) : c[d][p] = w
  <2>1. Count(w, d) = Cardinality(Places(c, AllRead(c), w, d))
    BY <1>4
  <2>2. /\ IsFiniteSet(Places(c, AllRead(c), w, d))
        /\ Cardinality(Places(c, AllRead(c), w, d)) \in Nat
        /\ Cardinality(Places(c, AllRead(c), w, d)) = 0 <=> Places(c, AllRead(c), w, d) = {}
    BY <1>4, FS_CardinalityType, FS_EmptySet
  <2>3. Places(c, AllRead(c), w, d) # {} <=> \E p \in 1 .. Len(c[d]) : c[d][p] = w
    BY DEF Places, AllRead, ReadOf
  <2> HIDE DEF Count
  <2> QED
    BY <2>1, <2>2, <2>3
<1>6. ASSUME NEW w
      PROVE  {e \in docs : Count(w, e) > 0} = FoundIn(c, AllRead(c), w)
  <2>1. \A e \in docs : Places(c, AllRead(c), w, e) # {} <=> \E p \in 1 .. Len(c[e]) : c[e][p] = w
    BY DEF Places, AllRead, ReadOf
  <2> HIDE DEF Count
  <2> QED
    BY <1>5, <2>1 DEF FoundIn
<1>7. ASSUME NEW w, NEW d \in docs
      PROVE  Line(w, d) = LineFor(c, w, d)
  <2>1. Count(w, d) = Cardinality(Places(c, AllRead(c), w, d))
        /\ {e \in docs : Count(w, e) > 0} = FoundIn(c, AllRead(c), w)
    BY <1>5, <1>6
  <2> HIDE DEF Count
  <2> QED
    BY <1>3, <2>1 DEF LineFor
<1> HIDE DEF Line, Count
<1>8. found \subseteq LinesIn(c)
  <2> SUFFICES ASSUME NEW x \in pairs PROVE Line(x[1], x[2]) \in LinesIn(c)
    OBVIOUS
  <2>1. PICK w \in words, d \in docs : x = <<w, d>> /\ Count(w, d) > 0
    OBVIOUS
  <2>2. PICK p \in 1 .. Len(c[d]) : c[d][p] = w
    BY <1>5, <2>1
  <2>3. Line(x[1], x[2]) = LineFor(c, c[d][p], d)
    BY <1>7, <2>1, <2>2
  <2> QED
    BY <2>3 DEF LinesIn
<1>9. LinesIn(c) \subseteq found
  <2> SUFFICES ASSUME NEW d \in docs, NEW p \in 1 .. Len(c[d])
               PROVE  LineFor(c, c[d][p], d) \in found
    BY DEF LinesIn
  <2> DEFINE w == c[d][p]
  <2>1. Count(w, d) > 0
    BY <1>5
  <2>2. w \in words
    BY <1>2 DEF ToSet
  <2>3. <<w, d>> \in pairs /\ <<w, d>>[1] = w /\ <<w, d>>[2] = d
    BY <2>1, <2>2
  <2>4. Line(w, d) \in found
    BY <2>3
  <2>5. Line(w, d) = LineFor(c, w, d)
    BY <1>7
  <2> QED
    BY <2>4, <2>5
<1> HIDE DEF found
<1>10. found = LinesIn(c)
  BY <1>8, <1>9
<1> QED
  BY <1>1, <1>10

\* Sorted, the lines of all documents are the file.
LEMMA FileOfLines ==
    ASSUME NEW c, GoodCorpus(c), AllPresent(c), NEW s, LinesFor(c, DOMAIN c, s)
    PROVE  SortedFile(s) = Definition(c)
<1>1. /\ s \in Seq(EntryOver(WordsIn(c)))
      /\ \A j \in 1 .. Len(s) : \E d \in DOMAIN c : \E p \in 1 .. Len(c[d]) :
            s[j] = LineFor(c, c[d][p], d)
      /\ \A j, k \in 1 .. Len(s) : s[j] = s[k] => j = k
      /\ \A d \in DOMAIN c : \A p \in 1 .. Len(c[d]) :
            \E j \in 1 .. Len(s) : s[j] = LineFor(c, c[d][p], d)
  BY DEF LinesFor
<1>2. DOMAIN s = 1 .. Len(s)
  BY <1>1
<1>3. ToSet(s) = LinesIn(c)
  <2>1. ASSUME NEW j \in DOMAIN s PROVE s[j] \in LinesIn(c)
    BY <1>1, <1>2 DEF LinesIn
  <2>2. ASSUME NEW d \in DOMAIN c, NEW p \in 1 .. Len(c[d])
        PROVE  LineFor(c, c[d][p], d) \in ToSet(s)
    BY <1>1, <1>2 DEF ToSet
  <2>3. \A x \in ToSet(s) : x \in LinesIn(c)
    BY <2>1 DEF ToSet
  <2>4. \A x \in LinesIn(c) : x \in ToSet(s)
    BY <2>2 DEF LinesIn
  <2> QED
    BY <2>3, <2>4
<1>4. ASSUME NEW x \in ToSet(s) PROVE Cardinality({k \in DOMAIN s : s[k] = x}) = 1
  <2>1. PICK j \in DOMAIN s : s[j] = x
    BY DEF ToSet
  <2>2. {k \in DOMAIN s : s[k] = x} = {j}
    BY <1>1, <1>2, <2>1
  <2>3. Cardinality({j}) = 1
    BY FS_Singleton
  <2> QED
    BY <2>2, <2>3
<1>5. SortedFile(s) = [line \in LinesIn(c) |-> 1]
  BY <1>3, <1>4 DEF SortedFile
<1> QED
  BY <1>5, DefinedLines DEF Texts, GoodCorpus, AllPresent

----------------------------------------------------------------------------
(* The sequential program *)

\* What FoldLeft folds the documents with.
SerialFold(F, c) ==
    F = [s \in SUBSET DOMAIN [k \in 1 .. Len(c) |-> k] |->
            IF s = {} THEN NoTables
            ELSE ReadDocument(F[s \ {Max(s)}], [k \in 1 .. Len(c) |-> k][Max(s)],
                              c[[k \in 1 .. Len(c) |-> k][Max(s)]], Len(c))]

\* The sequential program folds the documents into the tables.
LEMMA SerialTablesFold ==
    ASSUME NEW c
    PROVE  SerialTables(c) =
             (CHOOSE F : SerialFold(F, c))[DOMAIN [k \in 1 .. Len(c) |-> k]]
  BY DEF SerialTables, FoldLeft, MapThenFoldSet, SerialFold

\* ReadDocument gives tables over the same words.
LEMMA ReadDocumentType ==
    ASSUME NEW W, NEW tab \in TablesOver(W), NEW doc \in Nat, NEW nDocs \in Nat, NEW text,
           Len(text) \in Nat, DOMAIN text = 1 .. Len(text), \A k \in DOMAIN text : text[k] \in W
    PROVE  ReadDocument(tab, doc, text, nDocs) \in TablesOver(W)
<1> DEFINE n == Len(text)
<1>1. PICK v : WordByWord(v, tab, doc, nDocs, text)
  BY ReadSteps
<1>2. /\ v[0] = tab /\ ReadDocument(tab, doc, text, nDocs) = v[n]
      /\ \A k \in 0 .. n - 1 : v[k + 1] = AddWord(v[k], doc, n, nDocs, text[k + 1])
  BY <1>1 DEF WordByWord
<1> DEFINE Q == {k \in Nat : k <= n => v[k] \in TablesOver(W)}
<1>3. 0 \in Q
  BY <1>2
<1>4. ASSUME NEW k \in Nat, k \in Q PROVE k + 1 \in Q
  <2> SUFFICES ASSUME k + 1 <= n PROVE v[k + 1] \in TablesOver(W)
    OBVIOUS
  <2>1. k \in 0 .. n - 1 /\ k <= n /\ k + 1 \in 1 .. n
    OBVIOUS
  <2>2. v[k] \in TablesOver(W) /\ text[k + 1] \in W
    BY <1>4, <2>1
  <2>3. AddWord(v[k], doc, n, nDocs, text[k + 1]) \in TablesOver(W)
    BY <2>2, AddWordType
  <2> QED
    BY <1>2, <2>1, <2>3
<1>5. Nat \subseteq Q
  <2> HIDE DEF Q
  <2> QED
    BY <1>3, <1>4, Induction
<1>6. n \in Q /\ n <= n
  BY <1>5
<1> QED
  BY <1>2, <1>6

\* v[k] are the tables after k documents.
DocumentByDocument(v, c) ==
    /\ v[0] = NoTables /\ SerialTables(c) = v[Len(c)]
    /\ \A k \in 0 .. Len(c) - 1 : v[k + 1] = ReadDocument(v[k], k + 1, c[k + 1], Len(c))

\* The empty tables are tables.
LEMMA NoTablesType == \A W : NoTables \in TablesOver(W)
  BY DEF NoTables, TablesOver

\* The tables of the sequential program after each document.
LEMMA SerialSteps ==
    ASSUME NEW c, GoodCorpus(c), AllPresent(c)
    PROVE  \E v : DocumentByDocument(v, c)
<1> DEFINE n == Len(c)
           W == WordsIn(c)
           X == TablesOver(W)
           G == [x \in X \X (1 .. n) |-> ReadDocument(x[1], x[2], c[x[2]], Len(c))]
           elem == [k \in 1 .. n |-> k]
           Is(F) == SerialFold(F, c)
<1>0. /\ n \in Nat /\ DOMAIN c = 1 .. n
      /\ \A d \in 1 .. n : /\ Len(c[d]) \in Nat /\ DOMAIN c[d] = 1 .. Len(c[d])
                           /\ \A k \in DOMAIN c[d] : c[d][k] \in W
  BY WordsOfDocument DEF GoodCorpus, AllPresent
<1>1. G \in [X \X (1 .. n) -> X]
  <2> SUFFICES ASSUME NEW x \in X \X (1 .. n)
               PROVE  ReadDocument(x[1], x[2], c[x[2]], Len(c)) \in X
    OBVIOUS
  <2>1. x[1] \in X /\ x[2] \in 1 .. n /\ x[2] \in Nat
    BY <1>0
  <2> QED
    BY <1>0, <2>1, ReadDocumentType
<1>2. elem \in [1 .. n -> 1 .. n] /\ NoTables \in X
  BY NoTablesType
<1>3. \E F : Is(F)
  <2> HIDE DEF X, G
  <2>1. PICK F : FoldOf(F, X, G, NoTables, elem, n)
    BY <1>0, <1>1, <1>2, FoldDefined
  <2>2. F \in [SUBSET (1 .. n) -> X] /\ \A s \in SUBSET (1 .. n) :
           F[s] = IF s = {} THEN NoTables ELSE G[<<F[s \ {Max(s)}], elem[Max(s)]>>]
    BY <2>1 DEF FoldOf
  <2>3. ASSUME NEW s \in SUBSET (1 .. n), s # {}
        PROVE  F[s] = ReadDocument(F[s \ {Max(s)}], elem[Max(s)], c[elem[Max(s)]], Len(c))
    <3>1. Max(s) \in 1 .. n
      BY <1>0, <2>3, GreatestNatural
    <3>2. F[s \ {Max(s)}] \in X /\ elem[Max(s)] \in 1 .. n
      BY <2>2, <3>1
    <3>3. F[s] = G[<<F[s \ {Max(s)}], elem[Max(s)]>>]
      BY <2>2, <2>3
    <3> QED
      BY <3>2, <3>3 DEF G
  <2>4. F = [s \in SUBSET DOMAIN elem |->
               IF s = {} THEN NoTables
               ELSE ReadDocument(F[s \ {Max(s)}], elem[Max(s)], c[elem[Max(s)]], Len(c))]
    <3>1. DOMAIN elem = 1 .. n
      OBVIOUS
    <3>2. F = [s \in SUBSET (1 .. n) |-> F[s]] /\ F[{}] = NoTables
      BY <2>2
    <3> HIDE DEF elem
    <3> QED
      BY <2>3, <3>1, <3>2
  <2> QED
    BY <2>4 DEF SerialFold
<1>4. PICK F : Is(F) /\ SerialTables(c) = F[1 .. n]
  <2> HIDE DEF Is
  <2>1. Is(CHOOSE F : Is(F))
    BY <1>3
  <2>2. SerialTables(c) = (CHOOSE F : Is(F))[DOMAIN elem]
    BY SerialTablesFold DEF Is
  <2>3. DOMAIN elem = 1 .. n
    OBVIOUS
  <2> QED
    BY <2>1, <2>2, <2>3
<1> DEFINE v == [k \in 0 .. n |-> F[1 .. k]]
<1>5. v[0] = NoTables
  <2>1. v[0] = F[1 .. 0] /\ 1 .. 0 = {}
    BY <1>0
  <2> QED
    BY <1>4, <2>1 DEF SerialFold
<1>6. SerialTables(c) = v[Len(c)]
  BY <1>0, <1>4
<1>7. ASSUME NEW k \in 0 .. n - 1
      PROVE  v[k + 1] = ReadDocument(v[k], k + 1, c[k + 1], Len(c))
  <2>1. k \in Nat /\ k \in 0 .. n /\ k + 1 \in 0 .. n /\ k + 1 \in 1 .. n
    BY <1>0
  <2>2. /\ 1 .. k + 1 \in SUBSET DOMAIN elem /\ 1 .. k + 1 # {}
        /\ (1 .. k + 1) \ {k + 1} = 1 .. k
    <3>1. DOMAIN elem = 1 .. n
      OBVIOUS
    <3> HIDE DEF elem
    <3>2. 1 .. k + 1 \in SUBSET (1 .. n) /\ 1 .. k + 1 # {}
      BY <2>1, <1>0
    <3>3. (1 .. k + 1) \ {k + 1} = 1 .. k
      BY <2>1
    <3> QED
      BY <3>1, <3>2, <3>3
  <2>3. Max(1 .. k + 1) = k + 1 /\ elem[k + 1] = k + 1
    BY <2>1, LastOf
  <2>4. F[1 .. k + 1] = ReadDocument(F[1 .. k], k + 1, c[k + 1], Len(c))
    <3>1. F = [s \in SUBSET DOMAIN elem |->
                 IF s = {} THEN NoTables
                 ELSE ReadDocument(F[s \ {Max(s)}], elem[Max(s)], c[elem[Max(s)]], Len(c))]
      BY <1>4 DEF SerialFold
    <3> HIDE DEF elem
    <3>2. F[1 .. k + 1] = ReadDocument(F[(1 .. k + 1) \ {Max(1 .. k + 1)}], elem[Max(1 .. k + 1)],
                                       c[elem[Max(1 .. k + 1)]], Len(c))
      BY <2>2, <3>1
    <3> QED
      BY <2>2, <2>3, <3>2
  <2> QED
    BY <2>1, <2>4
<1> HIDE DEF v
<1> QED
  BY <1>5, <1>6, <1>7 DEF DocumentByDocument

\* Nothing has been read.
LEMMA EmptyTable ==
    ASSUME NEW c
    PROVE  Table(c, ReadOf(c, {}), NoTables)
  BY DEF Table, EntriesFor, UniquesFor, NoTables, ReadOf

\* One more document that is read, after all others.
LEMMA ReadOneMore ==
    ASSUME NEW c, GoodCorpus(c), NEW D \in SUBSET DOMAIN c, \A e \in D : c[e] # Absent,
           NEW d \in DOMAIN c, c[d] # Absent, \A e \in D : e < d,
           NEW tab \in TablesOver(WordsIn(c)), Table(c, ReadOf(c, D), tab)
    PROVE  /\ ReadDocument(tab, d, c[d], Len(c)) \in TablesOver(WordsIn(c))
           /\ Table(c, ReadOf(c, D \union {d}), ReadDocument(tab, d, c[d], Len(c)))
<1>1. /\ DOMAIN c \in SUBSET Nat /\ Len(c[d]) \in Nat
      /\ ReadOf(c, D) \in [DOMAIN c -> Nat]
  BY DEF GoodCorpus, ReadOf
<1>2. \A e \in DOMAIN c : e >= d => ReadOf(c, D)[e] = 0
  <2> SUFFICES ASSUME NEW e \in DOMAIN c, e >= d PROVE e \notin D
    BY DEF ReadOf
  <2> QED
    BY <1>1
<1>3. ReadUpTo(ReadOf(c, D), d, Len(c[d])) = ReadOf(c, D \union {d})
  BY DEF ReadUpTo, ReadOf
<1>4. \A k \in DOMAIN c[d] : c[d][k] \in WordsIn(c)
  BY WordsOfDocument
<1>5. PICK R : R = ReadDocument(tab, d, c[d], Len(c))
  OBVIOUS
<1>6. R \in TablesOver(WordsIn(c)) /\ Table(c, ReadUpTo(ReadOf(c, D), d, Len(c[d])), R)
  BY <1>1, <1>2, <1>4, <1>5, ReadDocumentKeeps
<1> QED
  BY <1>3, <1>5, <1>6

\* A complete table has the counts that Populate needs.
LEMMA CompleteCounts ==
    ASSUME NEW c, NEW U \in Seq(UniqueOver(WordsIn(c))), UniquesFor(c, AllRead(c), U)
    PROVE  CountsFor(c, U)
<1>1. \A d \in DOMAIN c : AllRead(c)[d] = Len(c[d])
  BY DEF AllRead, ReadOf
<1> QED
  BY <1>1 DEF CountsFor, UniquesFor

\* The sequential program's file is what TF-ICF is defined from.
LEMMA SerialDefinition ==
    ASSUME NEW c, GoodCorpus(c), AllPresent(c)
    PROVE  SerialFile(c) = Definition(c)
<1> DEFINE n == Len(c)
           W == WordsIn(c)
<1>0. n \in Nat /\ DOMAIN c = 1 .. n
  BY DEF GoodCorpus
<1>1. PICK v : DocumentByDocument(v, c)
  BY SerialSteps
<1>2. /\ v[0] = NoTables /\ SerialTables(c) = v[n]
      /\ \A k \in 0 .. n - 1 : v[k + 1] = ReadDocument(v[k], k + 1, c[k + 1], Len(c))
  BY <1>1 DEF DocumentByDocument
<1> DEFINE Good(k) == v[k] \in TablesOver(W) /\ Table(c, ReadOf(c, 1 .. k), v[k])
           Q == {k \in Nat : k <= n => Good(k)}
<1>3. 0 \in Q
  <2>1. 1 .. 0 = {}
    OBVIOUS
  <2> QED
    BY <1>2, <2>1, EmptyTable, NoTablesType
<1>4. ASSUME NEW k \in Nat, k \in Q PROVE k + 1 \in Q
  <2> SUFFICES ASSUME k + 1 <= n PROVE Good(k + 1)
    OBVIOUS
  <2>1. /\ k \in 0 .. n - 1 /\ k <= n /\ k + 1 \in DOMAIN c /\ 1 .. k \in SUBSET DOMAIN c
        /\ 1 .. k + 1 = (1 .. k) \union {k + 1} /\ \A e \in 1 .. k : e < k + 1
    BY <1>0
  <2>2. c[k + 1] # Absent /\ \A e \in 1 .. k : c[e] # Absent
    BY <2>1 DEF AllPresent
  <2>3. v[k] \in TablesOver(W) /\ Table(c, ReadOf(c, 1 .. k), v[k])
    BY <1>4, <2>1
  <2>4. v[k + 1] = ReadDocument(v[k], k + 1, c[k + 1], Len(c))
    BY <1>2, <2>1
  <2>5. /\ ReadDocument(v[k], k + 1, c[k + 1], Len(c)) \in TablesOver(W)
        /\ Table(c, ReadOf(c, (1 .. k) \union {k + 1}), ReadDocument(v[k], k + 1, c[k + 1], Len(c)))
    BY <2>1, <2>2, <2>3, ReadOneMore
  <2> QED
    BY <2>1, <2>4, <2>5
<1>5. Nat \subseteq Q
  <2> HIDE DEF Q
  <2> QED
    BY <1>3, <1>4, Induction
<1>6. v[n] \in TablesOver(W) /\ Table(c, AllRead(c), v[n])
  <2>1. n \in Q /\ n <= n /\ 1 .. n = DOMAIN c
    BY <1>0, <1>5
  <2> QED
    BY <2>1 DEF AllRead
<1> DEFINE T == v[n].TFICF
           U == v[n].unique
<1>7. T \in Seq(EntryOver(W)) /\ U \in Seq(UniqueOver(W))
      /\ EntriesFor(c, AllRead(c), T) /\ UniquesFor(c, AllRead(c), U)
  BY <1>6 DEF TablesOver, Table
<1>8. SerialFile(c) = SortedFile(Populate(T, U))
  BY <1>2 DEF SerialFile
<1> HIDE DEF T, U
<1>9. CountsFor(c, U)
  BY <1>7, CompleteCounts
<1>10. LinesFor(c, DOMAIN c, Populate(T, U))
  BY <1>7, <1>9, PopulateLines DEF AllRead
<1> QED
  BY <1>8, <1>10, FileOfLines

----------------------------------------------------------------------------
(* The merge of the tables of the workers *)

\* Sh[r] are the documents that worker r reads: no document is read twice.
Shares(c, Sh) ==
    /\ \A r \in Worker : Sh[r] \subseteq DOMAIN c
    /\ \A r, s \in Worker : r # s => Sh[r] \intersect Sh[s] = {}

\* Those of them with word w.
Having(c, Sh, r, w) == FoundIn(c, ReadOf(c, Sh[r]), w)

\* words are the entries of unique_words of the workers S, entry q is of worker own[q];
\* those of the first worker are the first n.
Gathered(c, Sh, S, words, own, n) ==
    /\ words \in Seq(UniqueOver(WordsIn(c)))
    /\ \A q \in 1 .. Len(words) :
          /\ own[q] \in S
          /\ words[q].numDocsWithWord = Cardinality(Having(c, Sh, own[q], words[q].word))
    /\ \A p, q \in 1 .. Len(words) : own[p] = own[q] /\ words[p].word = words[q].word => p = q
    /\ \A r \in S : \A d \in Sh[r] : \A p \in 1 .. Len(c[d]) :
          \E q \in 1 .. Len(words) : own[q] = r /\ words[q].word = c[d][p]
    /\ 1 \in S => n \in 0 .. Len(words) /\ \A q \in 1 .. Len(words) : own[q] = 1 <=> q <= n

Occurs(c, w, d) == \E p \in 1 .. Len(c[d]) : c[d][p] = w

\* Worker r has read document d, and word w is in it.
LEMMA HavingWord ==
    ASSUME NEW c, NEW Sh, NEW r \in Worker, Shares(c, Sh), NEW w, NEW d
    PROVE  d \in Having(c, Sh, r, w) <=> d \in Sh[r] /\ Occurs(c, w, d)
<1>1. Sh[r] \subseteq DOMAIN c
  BY DEF Shares
<1>2. CASE d \in Sh[r]
  <2>1. d \in DOMAIN c /\ ReadOf(c, Sh[r])[d] = Len(c[d])
    BY <1>1, <1>2 DEF ReadOf
  <2> QED
    BY <1>2, <2>1 DEF Having, FoundIn, Places, Occurs
<1>3. CASE d \notin Sh[r]
  <2>1. d \in DOMAIN c => 1 .. ReadOf(c, Sh[r])[d] = {}
    BY <1>3 DEF ReadOf
  <2> QED
    BY <1>3, <2>1 DEF Having, FoundIn, Places
<1> QED
  BY <1>2, <1>3

\* Nothing has been received.
LEMMA NothingGathered ==
    ASSUME NEW c, NEW Sh, NEW n
    PROVE  Gathered(c, Sh, {}, << >>, << >>, n)
  BY DEF Gathered

\* The table of one more worker; the first to be received is that of worker 1.
LEMMA GatherOne ==
    ASSUME NEW c, NEW Sh, NEW S \in SUBSET Worker, NEW words, NEW own, NEW n,
           Gathered(c, Sh, S, words, own, n), NEW s \in Worker \ S,
           NEW U \in Seq(UniqueOver(WordsIn(c))), UniquesFor(c, ReadOf(c, Sh[s]), U),
           s = 1 => S = {} /\ n = Len(U), Sh[s] \subseteq DOMAIN c
    PROVE  \E now : Gathered(c, Sh, S \union {s}, words \o U, now, n)
<1> DEFINE a == Len(words)
           b == Len(U)
           all == words \o U
           now == [q \in 1 .. a + b |-> IF q <= a THEN own[q] ELSE s]
           W == WordsIn(c)
<1>1. /\ words \in Seq(UniqueOver(W))
      /\ \A q \in 1 .. a :
            /\ own[q] \in S
            /\ words[q].numDocsWithWord = Cardinality(Having(c, Sh, own[q], words[q].word))
      /\ \A p, q \in 1 .. a : own[p] = own[q] /\ words[p].word = words[q].word => p = q
      /\ \A r \in S : \A d \in Sh[r] : \A p \in 1 .. Len(c[d]) :
            \E q \in 1 .. a : own[q] = r /\ words[q].word = c[d][p]
      /\ 1 \in S => n \in 0 .. a /\ \A q \in 1 .. a : own[q] = 1 <=> q <= n
  BY DEF Gathered
<1>2. /\ \A j \in 1 .. b : U[j].numDocsWithWord = Cardinality(Having(c, Sh, s, U[j].word))
      /\ \A j, k \in 1 .. b : U[j].word = U[k].word => j = k
      /\ \A e \in DOMAIN c : \A p \in 1 .. ReadOf(c, Sh[s])[e] : \E j \in 1 .. b : U[j].word = c[e][p]
  BY DEF UniquesFor, Having
<1>3. a \in Nat /\ b \in Nat /\ all \in Seq(UniqueOver(W)) /\ Len(all) = a + b
  BY <1>1, ConcatProperties
<1>4. ASSUME NEW q \in 1 .. a
      PROVE  q \in 1 .. a + b /\ all[q] = words[q] /\ now[q] = own[q]
  BY <1>1, <1>3
<1>5. ASSUME NEW k \in 1 .. b
      PROVE  a + k \in 1 .. a + b /\ all[a + k] = U[k] /\ now[a + k] = s
  <2>1. a + k \in 1 .. a + b /\ ~(a + k <= a) /\ (a + k) - a = k
    BY <1>3
  <2>2. \A x \in 1 .. a + b : all[x] = IF x <= a THEN words[x] ELSE U[x - a]
    BY <1>1, ConcatProperties
  <2> QED
    BY <2>1, <2>2
<1>6. ASSUME NEW q \in 1 .. a + b
      PROVE  q \in 1 .. a \/ \E k \in 1 .. b : q = a + k
  <2>1. CASE q <= a
    BY <1>3, <2>1
  <2>2. CASE ~(q <= a)
    <3>1. q - a \in 1 .. b /\ q = a + (q - a)
      BY <1>3, <2>2
    <3> QED
      BY <3>1
  <2> QED
    BY <2>1, <2>2
<1> HIDE DEF all, now, a, b
<1>7. ASSUME NEW q \in 1 .. a + b
      PROVE  /\ now[q] \in S \union {s}
             /\ all[q].numDocsWithWord = Cardinality(Having(c, Sh, now[q], all[q].word))
  <2>1. CASE q \in 1 .. a
    BY <1>1, <1>4, <2>1
  <2>2. CASE \E k \in 1 .. b : q = a + k
    BY <1>2, <1>5, <2>2
  <2> QED
    BY <1>6, <2>1, <2>2
<1>8. ASSUME NEW p \in 1 .. a + b, NEW q \in 1 .. a + b,
             now[p] = now[q], all[p].word = all[q].word
      PROVE  p = q
  <2>1. \A x \in 1 .. a : now[x] # s
    BY <1>1, <1>4
  <2>2. CASE p \in 1 .. a /\ q \in 1 .. a
    BY <1>1, <1>4, <1>8, <2>2
  <2>3. CASE (\E k \in 1 .. b : p = a + k) /\ (\E k \in 1 .. b : q = a + k)
    BY <1>2, <1>5, <1>8, <2>3
  <2>4. CASE p \in 1 .. a /\ \E k \in 1 .. b : q = a + k
    BY <1>5, <1>8, <2>1, <2>4
  <2>5. CASE q \in 1 .. a /\ \E k \in 1 .. b : p = a + k
    BY <1>5, <1>8, <2>1, <2>5
  <2> QED
    BY <1>6, <2>2, <2>3, <2>4, <2>5
<1>9. ASSUME NEW r \in S \union {s}, NEW d \in Sh[r], NEW p \in 1 .. Len(c[d])
      PROVE  \E q \in 1 .. a + b : now[q] = r /\ all[q].word = c[d][p]
  <2>1. CASE r \in S
    BY <1>1, <1>4, <2>1
  <2>2. CASE r = s
    <3>1. d \in DOMAIN c /\ p \in 1 .. ReadOf(c, Sh[s])[d]
      BY <2>2 DEF ReadOf
    <3>2. PICK j \in 1 .. b : U[j].word = c[d][p]
      BY <1>2, <3>1
    <3> QED
      BY <1>5, <2>2, <3>2
  <2> QED
    BY <2>1, <2>2
<1>10. ASSUME 1 \in S \union {s}
       PROVE  n \in 0 .. a + b /\ \A q \in 1 .. a + b : now[q] = 1 <=> q <= n
  <2>1. CASE 1 \in S
    <3>1. n \in 0 .. a /\ (\A q \in 1 .. a : own[q] = 1 <=> q <= n) /\ s # 1
      BY <1>1, <2>1
    <3>2. ASSUME NEW q \in 1 .. a + b PROVE now[q] = 1 <=> q <= n
      <4>1. CASE q \in 1 .. a
        BY <1>4, <3>1, <4>1
      <4>2. CASE \E k \in 1 .. b : q = a + k
        <5>0. PICK k \in 1 .. b : q = a + k
          BY <4>2
        <5>1. now[q] = s
          BY <1>5, <5>0
        <5>2. ~(q <= a) /\ n <= a
          BY <1>3, <3>1, <5>0
        <5>3. ~(q <= n)
          BY <1>3, <3>1, <5>2
        <5> QED
          BY <3>1, <5>1, <5>3
      <4> QED
        BY <1>6, <4>1, <4>2
    <3> QED
      BY <1>3, <3>1, <3>2
  <2>2. CASE s = 1
    <3>1. a = 0 /\ n = b
      <4>1. S = {} /\ n = b
        BY <2>2 DEF b
      <4>2. 1 .. a = {}
        BY <1>1, <4>1
      <4> QED
        BY <1>3, <4>1, <4>2
    <3>2. ASSUME NEW q \in 1 .. a + b PROVE now[q] = 1 /\ q <= n
      <4>1. PICK k \in 1 .. b : q = a + k
        BY <1>3, <1>6, <3>1
      <4> QED
        BY <1>3, <1>5, <2>2, <3>1, <4>1
    <3> QED
      BY <1>3, <3>1, <3>2
  <2> QED
    BY <1>10, <2>1, <2>2
<1>11. Gathered(c, Sh, S \union {s}, all, now, n)
  BY <1>3, <1>7, <1>8, <1>9, <1>10 DEF Gathered
<1> QED
  BY <1>11 DEF all

\* MergeWord appends an entry or adds to the number of the one with its word.
MergeAppended(M, R, u) ==
    /\ \A j \in 1 .. Len(M) : M[j].word # u.word
    /\ Len(R) = Len(M) + 1 /\ \A k \in 1 .. Len(M) : R[k] = M[k]
    /\ R[Len(M) + 1] = u
MergeAdded(M, R, u) ==
    \E j \in 1 .. Len(M) :
       /\ M[j].word = u.word
       /\ Len(R) = Len(M) /\ \A k \in 1 .. Len(M) \ {j} : R[k] = M[k]
       /\ R[j] = [word |-> u.word, numDocsWithWord |-> M[j].numDocsWithWord + u.numDocsWithWord,
                  currDoc |-> M[j].currDoc]

\* An entry that is merged is appended, or added to the one with its word.
LEMMA MergeCases ==
    ASSUME NEW W, NEW M \in Seq(UniqueOver(W)), NEW u \in UniqueOver(W)
    PROVE  /\ MergeWord(M, u) \in Seq(UniqueOver(W))
           /\ MergeAppended(M, MergeWord(M, u), u) \/ MergeAdded(M, MergeWord(M, u), u)
<1> PICK R : R = MergeWord(M, u)
  OBVIOUS
<1> DEFINE I == {j \in 1 .. Len(M) : M[j].word = u.word}
           first == IF I # {} THEN Min(I) ELSE 0
<1>1. R = IF first = 0 THEN Append(M, u)
          ELSE [M EXCEPT ![first].numDocsWithWord = @ + u.numDocsWithWord]
  BY DEF MergeWord, SelectInSeq
<1>2. CASE I = {}
  <2>1. R = Append(M, u)
    <3> HIDE DEF I
    <3> QED
      BY <1>1, <1>2
  <2>2. \A j \in 1 .. Len(M) : M[j].word # u.word
    BY <1>2
  <2> HIDE DEF I, first
  <2>3. R \in Seq(UniqueOver(W)) /\ Len(R) = Len(M) + 1 /\ (\A k \in 1 .. Len(M) : R[k] = M[k])
        /\ R[Len(M) + 1] = u
    BY <2>1
  <2> QED
    BY <2>2, <2>3 DEF MergeAppended
<1>3. CASE I # {}
  <2>1. Min(I) \in I
    <3>1. I \in SUBSET Nat
      OBVIOUS
    <3> HIDE DEF I
    <3> QED
      BY <1>3, <3>1, LeastNatural
  <2>2. PICK j \in 1 .. Len(M) : j = Min(I) /\ M[j].word = u.word
    BY <2>1
  <2>3. first = j /\ j # 0
    <3> HIDE DEF I
    <3> QED
      BY <1>3, <2>2
  <2> HIDE DEF first, I
  <2>4. PICK e \in UniqueOver(W) : e = M[j]
    OBVIOUS
  <2>5. PICK x : x = e.numDocsWithWord + u.numDocsWithWord
    OBVIOUS
  <2>6. PICK a, b : a = e.numDocsWithWord /\ b = e.currDoc
    OBVIOUS
  <2>7. e = [word |-> u.word, numDocsWithWord |-> a, currDoc |-> b]
    BY <2>2, <2>4, <2>6 DEF UniqueOver
  <2> DEFINE one == [word |-> u.word, numDocsWithWord |-> x, currDoc |-> b]
  <2>8. [e EXCEPT !.numDocsWithWord = x] = one
    BY <2>7
  <2>9. one \in UniqueOver(W)
    BY <2>5, <2>6 DEF UniqueOver
  <2>10. R = [M EXCEPT ![j] = [M[j] EXCEPT !.numDocsWithWord = @ + u.numDocsWithWord]]
    BY <1>1, <2>3
  <2>11. R = [M EXCEPT ![j] = [e EXCEPT !.numDocsWithWord = x]]
    BY <2>4, <2>5, <2>10
  <2>12. R = [M EXCEPT ![j] = one]
    BY <2>8, <2>11
  <2> HIDE DEF one
  <2>13. R \in Seq(UniqueOver(W)) /\ Len(R) = Len(M) /\ (\A k \in 1 .. Len(M) \ {j} : R[k] = M[k])
         /\ R[j] = one
    BY <2>9, <2>12
  <2>14. R[j] = [word |-> u.word, numDocsWithWord |-> M[j].numDocsWithWord + u.numDocsWithWord,
                 currDoc |-> M[j].currDoc]
    BY <2>4, <2>5, <2>6, <2>13 DEF one
  <2> QED
    BY <2>2, <2>13, <2>14 DEF MergeAdded
<1> QED
  BY <1>2, <1>3

\* What FoldLeft folds the words with.
MergedOf(words, n) == FoldLeft(MergeWord, SubSeq(words, 1, n), SubSeq(words, n + 1, Len(words)))

MergeFold(F, base, rest) ==
    F = [s \in SUBSET DOMAIN rest |->
            IF s = {} THEN base ELSE MergeWord(F[s \ {Max(s)}], rest[Max(s)])]

\* The merge folds the entries that follow into those of the first worker.
LEMMA MergedFold ==
    ASSUME NEW words, NEW n, NEW base, base = SubSeq(words, 1, n),
           NEW rest, rest = SubSeq(words, n + 1, Len(words))
    PROVE  MergedOf(words, n) = (CHOOSE F : MergeFold(F, base, rest))[DOMAIN rest]
  BY DEF MergedOf, FoldLeft, MapThenFoldSet, MergeFold

\* v[k] is the merged table after k words that follow the first n.
WordsMerged(v, words, n) ==
    /\ v[0] = SubSeq(words, 1, n) /\ MergedOf(words, n) = v[Len(words) - n]
    /\ \A k \in 0 .. Len(words) - n - 1 : v[k + 1] = MergeWord(v[k], words[n + k + 1])

\* The merged table after each entry.
LEMMA MergeSteps ==
    ASSUME NEW W, NEW words \in Seq(UniqueOver(W)), NEW n \in 0 .. Len(words)
    PROVE  \E v : WordsMerged(v, words, n)
<1> DEFINE m == Len(words) - n
           Y == UniqueOver(W)
           X == Seq(Y)
           base == SubSeq(words, 1, n)
           rest == SubSeq(words, n + 1, Len(words))
           G == [x \in X \X Y |-> MergeWord(x[1], x[2])]
           Is(F) == MergeFold(F, base, rest)
<1>0. m \in Nat /\ n \in Nat /\ Len(words) \in Nat /\ n <= Len(words)
  OBVIOUS
<1>1. /\ rest \in Seq(Y) /\ Len(rest) = m /\ DOMAIN rest = 1 .. m
      /\ \A k \in 1 .. m : rest[k] = words[n + k] /\ rest[k] \in Y
  <2>1. /\ \A k \in n + 1 .. Len(words) : words[k] \in Y
        /\ n + 1 \in Int /\ Len(words) \in Int
    BY <1>0
  <2>2. /\ rest \in Seq(Y)
        /\ Len(rest) = IF n + 1 <= Len(words) THEN Len(words) - (n + 1) + 1 ELSE 0
        /\ \A k \in 1 .. Len(words) - (n + 1) + 1 : rest[k] = words[(n + 1) + k - 1]
    <3> HIDE DEF Y
    <3> QED
      BY <2>1, SubSeqProperties
  <2> HIDE DEF rest, Y
  <2>3. Len(rest) = m /\ DOMAIN rest = 1 .. Len(rest)
    BY <1>0, <2>2
  <2>4. \A k \in 1 .. m : rest[k] \in Y
    BY <2>2, <2>3
  <2>5. \A k \in 1 .. m : k \in 1 .. Len(words) - (n + 1) + 1 /\ (n + 1) + k - 1 = n + k
    BY <1>0
  <2>6. \A k \in 1 .. m : rest[k] = words[n + k]
    BY <2>2, <2>5
  <2> QED
    BY <2>2, <2>3, <2>4, <2>6
<1>2. base \in X
  <2>1. \A k \in 1 .. n : words[k] \in Y
    BY <1>0
  <2> HIDE DEF Y
  <2> QED
    BY <1>0, <2>1, SubSeqProperties
<1>3. G \in [X \X Y -> X]
  <2> SUFFICES ASSUME NEW x \in X \X Y PROVE MergeWord(x[1], x[2]) \in X
    OBVIOUS
  <2>1. x[1] \in X /\ x[2] \in Y
    OBVIOUS
  <2> QED
    BY <2>1, MergeCases
<1> HIDE DEF X, Y, G, base, rest, m
<1> DEFINE elem == [k \in 1 .. m |-> rest[k]]
<1>4. elem \in [1 .. m -> Y]
  BY <1>1
<1>5. \E F : Is(F)
  <2>1. PICK F : FoldOf(F, X, G, base, elem, m)
    BY <1>0, <1>2, <1>3, <1>4, FoldDefined
  <2>2. F \in [SUBSET (1 .. m) -> X] /\ \A s \in SUBSET (1 .. m) :
           F[s] = IF s = {} THEN base ELSE G[<<F[s \ {Max(s)}], elem[Max(s)]>>]
    BY <2>1 DEF FoldOf
  <2>3. ASSUME NEW s \in SUBSET (1 .. m), s # {}
        PROVE  F[s] = MergeWord(F[s \ {Max(s)}], rest[Max(s)])
    <3>1. Max(s) \in 1 .. m
      BY <1>0, <2>3, GreatestNatural
    <3>2. F[s \ {Max(s)}] \in X /\ rest[Max(s)] \in Y /\ elem[Max(s)] = rest[Max(s)]
      BY <1>1, <2>2, <3>1
    <3>3. F[s] = G[<<F[s \ {Max(s)}], elem[Max(s)]>>]
      BY <2>2, <2>3
    <3> QED
      BY <3>2, <3>3 DEF G
  <2>4. F = [s \in SUBSET DOMAIN rest |->
               IF s = {} THEN base ELSE MergeWord(F[s \ {Max(s)}], rest[Max(s)])]
    <3>1. F = [s \in SUBSET (1 .. m) |-> F[s]] /\ F[{}] = base
      BY <2>2
    <3> QED
      BY <1>1, <2>3, <3>1
  <2> QED
    BY <2>4 DEF MergeFold
<1>6. PICK F : Is(F) /\ MergedOf(words, n) = F[1 .. m]
  <2>1. MergedOf(words, n) = (CHOOSE F : Is(F))[DOMAIN rest]
    BY MergedFold DEF base, rest
  <2> HIDE DEF Is
  <2>2. Is(CHOOSE F : Is(F))
    BY <1>5
  <2> QED
    BY <1>1, <2>1, <2>2
<1> DEFINE v == [k \in 0 .. m |-> F[1 .. k]]
<1>7. v[0] = base
  <2>1. v[0] = F[1 .. 0] /\ 1 .. 0 = {}
    BY <1>0
  <2> QED
    BY <1>6, <2>1 DEF MergeFold
<1>8. MergedOf(words, n) = v[m]
  BY <1>0, <1>6
<1>9. ASSUME NEW k \in 0 .. m - 1
      PROVE  v[k + 1] = MergeWord(v[k], words[n + k + 1])
  <2>1. k \in Nat /\ k \in 0 .. m /\ k + 1 \in 0 .. m /\ k + 1 \in 1 .. m
    BY <1>0
  <2>2. 1 .. k + 1 \in SUBSET (1 .. m) /\ 1 .. k + 1 # {}
    <3>1. k + 1 <= m /\ k + 1 \in 1 .. k + 1
      BY <1>0, <2>1
    <3>2. \A x \in 1 .. k + 1 : x \in 1 .. m
      BY <1>0, <2>1, <3>1
    <3> QED
      BY <3>1, <3>2
  <2>3. (1 .. k + 1) \ {k + 1} = 1 .. k
    BY <2>1
  <2>4. Max(1 .. k + 1) = k + 1 /\ rest[k + 1] = words[n + k + 1]
    BY <1>0, <1>1, <2>1, LastOf
  <2>5. F[1 .. k + 1] = MergeWord(F[(1 .. k + 1) \ {Max(1 .. k + 1)}], rest[Max(1 .. k + 1)])
    BY <1>1, <1>6, <2>2 DEF MergeFold
  <2>6. F[1 .. k + 1] = MergeWord(F[1 .. k], rest[k + 1])
    BY <2>3, <2>4, <2>5
  <2> QED
    BY <2>1, <2>4, <2>6
<1> HIDE DEF v
<1> QED
  BY <1>7, <1>8, <1>9 DEF WordsMerged, base, m

\* The documents with word w in the first m entries that have been received.
UpTo(c, Sh, words, own, m, w) ==
    UNION {Having(c, Sh, own[q], w) : q \in {x \in 1 .. m : words[x].word = w}}

\* M is the merge of the first m entries.
MergedUpTo(c, Sh, words, own, m, M) ==
    /\ M \in Seq(UniqueOver(WordsIn(c)))
    /\ \A j \in 1 .. Len(M) : M[j].numDocsWithWord = Cardinality(UpTo(c, Sh, words, own, m, M[j].word))
    /\ \A j, k \in 1 .. Len(M) : M[j].word = M[k].word => j = k
    /\ \A q \in 1 .. m : \E j \in 1 .. Len(M) : M[j].word = words[q].word

\* What it is to be one of these documents.
LEMMA UpToHas ==
    ASSUME NEW c, NEW Sh, NEW words, NEW own, NEW m, NEW w, NEW d
    PROVE  d \in UpTo(c, Sh, words, own, m, w) <=>
              \E q \in 1 .. m : words[q].word = w /\ d \in Having(c, Sh, own[q], w)
  BY DEF UpTo

\* These documents are a finite set.
LEMMA UpToFinite ==
    ASSUME NEW c, GoodCorpus(c), NEW Sh, NEW words, NEW own, NEW m, NEW w
    PROVE  /\ IsFiniteSet(UpTo(c, Sh, words, own, m, w))
           /\ Cardinality(UpTo(c, Sh, words, own, m, w)) \in Nat
<1>1. IsFiniteSet(DOMAIN c)
  BY Interval DEF GoodCorpus
<1>2. UpTo(c, Sh, words, own, m, w) \subseteq DOMAIN c
  BY DEF UpTo, Having, FoundIn
<1> QED
  BY <1>1, <1>2, FS_Subset, FS_CardinalityType

\* Disjoint sets add up.
LEMMA AddUp ==
    ASSUME NEW A, NEW B, IsFiniteSet(A), IsFiniteSet(B), A \intersect B = {}
    PROVE  Cardinality(A \union B) = Cardinality(A) + Cardinality(B)
<1>1. /\ Cardinality(A \union B) = Cardinality(A) + Cardinality(B) - Cardinality(A \intersect B)
      /\ Cardinality(A) \in Nat /\ Cardinality(B) \in Nat
  BY FS_Union, FS_CardinalityType
<1>2. Cardinality(A \intersect B) = 0
  BY FS_EmptySet
<1> QED
  BY <1>1, <1>2

\* The entries of the first worker are a merge of themselves.
LEMMA MergeFirst ==
    ASSUME NEW c, NEW Sh, NEW S, 1 \in S, NEW words, NEW own, NEW n, Gathered(c, Sh, S, words, own, n)
    PROVE  n \in 0 .. Len(words) /\ MergedUpTo(c, Sh, words, own, n, SubSeq(words, 1, n))
<1> DEFINE Y == UniqueOver(WordsIn(c))
           M == SubSeq(words, 1, n)
<1>1. /\ words \in Seq(Y) /\ n \in 0 .. Len(words)
      /\ \A q \in 1 .. Len(words) :
            words[q].numDocsWithWord = Cardinality(Having(c, Sh, own[q], words[q].word))
      /\ \A p, q \in 1 .. Len(words) : own[p] = own[q] /\ words[p].word = words[q].word => p = q
      /\ \A q \in 1 .. Len(words) : own[q] = 1 <=> q <= n
  BY DEF Gathered
<1>2. M \in Seq(Y) /\ Len(M) = n /\ \A k \in 1 .. n : M[k] = words[k] /\ k \in 1 .. Len(words)
  <2>1. \A k \in 1 .. n : words[k] \in Y /\ k \in 1 .. Len(words)
    BY <1>1
  <2> HIDE DEF Y
  <2> QED
    BY <1>1, <2>1, SubSeqProperties
<1> HIDE DEF M
<1>3. \A p, q \in 1 .. n : words[p].word = words[q].word => p = q
  <2>1. \A p \in 1 .. n : p \in 1 .. Len(words) /\ own[p] = 1
    BY <1>1
  <2> QED
    BY <1>1, <2>1
<1>4. ASSUME NEW j \in 1 .. n
      PROVE  M[j].numDocsWithWord = Cardinality(UpTo(c, Sh, words, own, n, M[j].word))
  <2> DEFINE w == words[j].word
  <2>1. {x \in 1 .. n : words[x].word = w} = {j}
    BY <1>3
  <2>2. UpTo(c, Sh, words, own, n, w) = Having(c, Sh, own[j], w)
    BY <2>1 DEF UpTo
  <2> QED
    BY <1>1, <1>2, <2>2
<1> QED
  BY <1>1, <1>2, <1>3, <1>4 DEF MergedUpTo, M

\* One more entry is merged.
LEMMA MergeMore ==
    ASSUME NEW c, GoodCorpus(c), NEW Sh, NEW S \in SUBSET Worker, Shares(c, Sh), NEW words, NEW own,
           NEW n, Gathered(c, Sh, S, words, own, n), NEW m \in Nat, m < Len(words),
           NEW M, MergedUpTo(c, Sh, words, own, m, M)
    PROVE  MergedUpTo(c, Sh, words, own, m + 1, MergeWord(M, words[m + 1]))
<1> DEFINE Y == UniqueOver(WordsIn(c))
           U(k, w) == UpTo(c, Sh, words, own, k, w)
<1> PICK u : u = words[m + 1]
  OBVIOUS
<1> PICK v : v = u.word
  OBVIOUS
<1> PICK R : R = MergeWord(M, u)
  OBVIOUS
<1>1. /\ words \in Seq(Y)
      /\ \A q \in 1 .. Len(words) :
            /\ own[q] \in S
            /\ words[q].numDocsWithWord = Cardinality(Having(c, Sh, own[q], words[q].word))
      /\ \A p, q \in 1 .. Len(words) : own[p] = own[q] /\ words[p].word = words[q].word => p = q
  BY DEF Gathered
<1>2. /\ M \in Seq(Y)
      /\ \A j \in 1 .. Len(M) : M[j].numDocsWithWord = Cardinality(U(m, M[j].word))
      /\ \A j, k \in 1 .. Len(M) : M[j].word = M[k].word => j = k
      /\ \A q \in 1 .. m : \E j \in 1 .. Len(M) : M[j].word = words[q].word
  BY DEF MergedUpTo
<1>3. m + 1 \in 1 .. Len(words) /\ 1 .. m + 1 = (1 .. m) \union {m + 1} /\ u \in Y
      /\ \A q \in 1 .. m : q \in 1 .. Len(words) /\ q # m + 1
  BY <1>1
<1>4. R \in Seq(Y) /\ (MergeAppended(M, R, u) \/ MergeAdded(M, R, u))
  BY <1>2, <1>3, MergeCases
<1> DEFINE H == Having(c, Sh, own[m + 1], v)
<1> HIDE DEF Y
<1>5. U(m + 1, v) = U(m, v) \union H
  <2>1. ASSUME NEW d PROVE d \in U(m + 1, v) <=> d \in U(m, v) \/ d \in H
    <3>1. d \in U(m + 1, v) <=> \E q \in 1 .. m + 1 : words[q].word = v /\ d \in Having(c, Sh, own[q], v)
      BY UpToHas
    <3>2. d \in U(m, v) <=> \E q \in 1 .. m : words[q].word = v /\ d \in Having(c, Sh, own[q], v)
      BY UpToHas
    <3> HIDE DEF U
    <3> QED
      BY <1>3, <3>1, <3>2
  <2> HIDE DEF U, H
  <2> QED
    BY <2>1
<1>6. ASSUME NEW w, w # v PROVE U(m + 1, w) = U(m, w)
  <2>1. {x \in 1 .. m + 1 : words[x].word = w} = {x \in 1 .. m : words[x].word = w}
    BY <1>3, <1>6
  <2> QED
    BY <2>1 DEF UpTo
<1>7. U(m, v) \intersect H = {}
  <2> SUFFICES ASSUME NEW d, d \in U(m, v), d \in H PROVE FALSE
    OBVIOUS
  <2>1. PICK q \in 1 .. m : words[q].word = v /\ d \in Having(c, Sh, own[q], v)
    BY UpToHas
  <2>2. own[q] \in Worker /\ own[m + 1] \in Worker /\ own[q] # own[m + 1]
    BY <1>1, <1>3, <2>1
  <2>3. d \in Sh[own[q]]
    BY <2>1, <2>2, HavingWord
  <2>4. d \in Sh[own[m + 1]]
    BY <2>2, HavingWord
  <2> QED
    BY <2>2, <2>3, <2>4 DEF Shares
<1>8. /\ IsFiniteSet(U(m, v)) /\ IsFiniteSet(H) /\ Cardinality(H) = u.numDocsWithWord
  <2>1. IsFiniteSet(H)
    BY FoundFinite DEF Having
  <2> QED
    BY <1>1, <1>3, <2>1, UpToFinite
<1>9. Cardinality(U(m + 1, v)) = Cardinality(U(m, v)) + u.numDocsWithWord
  BY <1>5, <1>7, <1>8, AddUp
<1> HIDE DEF U, H
<1>10. CASE MergeAppended(M, R, u)
  <2>1. /\ \A j \in 1 .. Len(M) : M[j].word # v
        /\ Len(R) = Len(M) + 1 /\ \A k \in 1 .. Len(M) : R[k] = M[k]
        /\ R[Len(M) + 1] = u
    BY <1>10 DEF MergeAppended
  <2>2. Len(M) \in Nat /\ \A k \in 1 .. Len(R) : k \in 1 .. Len(M) \/ k = Len(M) + 1
    BY <1>2, <2>1
  <2>3. U(m, v) = {}
    <3>1. \A q \in 1 .. m : words[q].word # v
      BY <1>2, <2>1
    <3> QED
      BY <3>1 DEF U, UpTo
  <2>4. Cardinality(U(m + 1, v)) = u.numDocsWithWord
    <3>1. Cardinality(U(m, v)) = 0 /\ u.numDocsWithWord \in Int
      BY <1>3, <2>3, FS_EmptySet DEF Y, UniqueOver
    <3> QED
      BY <1>9, <3>1
  <2>5. \A k \in 1 .. Len(R) : R[k].numDocsWithWord = Cardinality(U(m + 1, R[k].word))
    BY <1>2, <1>6, <2>1, <2>2, <2>4
  <2>6. \A j, k \in 1 .. Len(R) : R[j].word = R[k].word => j = k
    <3>1. R[Len(M) + 1].word = v /\ \A j \in 1 .. Len(M) : R[j].word # v
      BY <2>1
    <3>2. ASSUME NEW j \in 1 .. Len(R), NEW k \in 1 .. Len(R), R[j].word = R[k].word PROVE j = k
      <4>1. CASE j \in 1 .. Len(M) /\ k \in 1 .. Len(M)
        BY <1>2, <2>1, <3>2, <4>1
      <4>2. CASE j = Len(M) + 1 \/ k = Len(M) + 1
        BY <2>2, <3>1, <3>2, <4>2
      <4> QED
        BY <2>2, <4>1, <4>2
    <3> QED
      BY <3>2
  <2>7. \A q \in 1 .. m + 1 : \E j \in 1 .. Len(R) : R[j].word = words[q].word
    <3>1. Len(M) + 1 \in 1 .. Len(R) /\ \A j \in 1 .. Len(M) : j \in 1 .. Len(R)
      BY <2>1, <2>2
    <3>2. ASSUME NEW q \in 1 .. m PROVE \E j \in 1 .. Len(R) : R[j].word = words[q].word
      <4>1. PICK j \in 1 .. Len(M) : M[j].word = words[q].word
        BY <1>2
      <4> QED
        BY <2>1, <3>1, <4>1
    <3>3. R[Len(M) + 1].word = words[m + 1].word
      BY <2>1
    <3> QED
      BY <1>3, <3>1, <3>2, <3>3
  <2> QED
    BY <1>4, <2>5, <2>6, <2>7 DEF MergedUpTo, U, Y
<1>11. CASE MergeAdded(M, R, u)
  <2>1. PICK j \in 1 .. Len(M) :
           /\ M[j].word = v
           /\ Len(R) = Len(M) /\ \A k \in 1 .. Len(M) \ {j} : R[k] = M[k]
           /\ R[j] = [word |-> v, numDocsWithWord |-> M[j].numDocsWithWord + u.numDocsWithWord,
                      currDoc |-> M[j].currDoc]
    BY <1>11 DEF MergeAdded
  <2>2. \A k \in 1 .. Len(M) \ {j} : M[k].word # v
    BY <1>2, <2>1
  <2>3. R[j].word = v /\ R[j].numDocsWithWord = M[j].numDocsWithWord + u.numDocsWithWord
    BY <2>1
  <2>4. \A k \in 1 .. Len(R) : R[k].word = M[k].word
    BY <2>1, <2>3
  <2>5. \A k \in 1 .. Len(R) : R[k].numDocsWithWord = Cardinality(U(m + 1, R[k].word))
    <3> SUFFICES ASSUME NEW k \in 1 .. Len(M)
                 PROVE  R[k].numDocsWithWord = Cardinality(U(m + 1, R[k].word))
      BY <2>1
    <3>1. CASE k = j
      <4>1. M[j].numDocsWithWord = Cardinality(U(m, v))
        BY <1>2, <2>1
      <4> QED
        BY <1>9, <2>3, <3>1, <4>1
    <3>2. CASE k # j
      BY <1>2, <1>6, <2>1, <2>2, <3>2
    <3> QED
      BY <3>1, <3>2
  <2>6. \A k, l \in 1 .. Len(R) : R[k].word = R[l].word => k = l
    BY <1>2, <2>1, <2>4
  <2>7. \A q \in 1 .. m + 1 : \E k \in 1 .. Len(R) : R[k].word = words[q].word
    BY <1>2, <1>3, <2>1, <2>3, <2>4
  <2> QED
    BY <1>4, <2>5, <2>6, <2>7 DEF MergedUpTo, U, Y
<1>12. MergedUpTo(c, Sh, words, own, m + 1, R)
  BY <1>4, <1>10, <1>11
<1> QED
  BY <1>12

\* All tables are merged: the counts are those of the whole corpus.
LEMMA MergeAll ==
    ASSUME NEW c, GoodCorpus(c), NEW Sh, Shares(c, Sh), \A d \in DOMAIN c : \E r \in Worker : d \in Sh[r],
           NEW words, NEW own, NEW n, Gathered(c, Sh, Worker, words, own, n), 1 \in Worker
    PROVE  CountsFor(c, MergedOf(words, n)) /\ WordsDiffer(MergedOf(words, n))
<1> DEFINE W == WordsIn(c)
           L == Len(words)
<1>0. ASSUME NEW r \in Worker, NEW w, NEW d
      PROVE  d \in Having(c, Sh, r, w) <=> d \in Sh[r] /\ \E p \in 1 .. Len(c[d]) : c[d][p] = w
  <2>1. d \in Having(c, Sh, r, w) <=> d \in Sh[r] /\ Occurs(c, w, d)
    BY HavingWord
  <2> QED
    BY <2>1 DEF Occurs
<1>1. words \in Seq(UniqueOver(W)) /\ n \in 0 .. L /\ L \in Nat
      /\ MergedUpTo(c, Sh, words, own, n, SubSeq(words, 1, n))
  BY MergeFirst DEF Gathered
<1>2. PICK v : WordsMerged(v, words, n)
  BY <1>1, MergeSteps
<1>3. /\ v[0] = SubSeq(words, 1, n) /\ MergedOf(words, n) = v[L - n]
      /\ \A k \in 0 .. L - n - 1 : v[k + 1] = MergeWord(v[k], words[n + k + 1])
  BY <1>2 DEF WordsMerged
<1> DEFINE Q == {k \in Nat : n + k <= L => MergedUpTo(c, Sh, words, own, n + k, v[k])}
<1>4. 0 \in Q
  <2>1. n + 0 = n
    BY <1>1
  <2> QED
    BY <1>1, <1>3, <2>1
<1>5. ASSUME NEW k \in Nat, k \in Q PROVE k + 1 \in Q
  <2> SUFFICES ASSUME n + (k + 1) <= L PROVE MergedUpTo(c, Sh, words, own, n + (k + 1), v[k + 1])
    OBVIOUS
  <2>1. PICK m \in Nat : m = n + k /\ m < L /\ n + (k + 1) = m + 1 /\ k \in 0 .. L - n - 1
    BY <1>1
  <2>2. MergedUpTo(c, Sh, words, own, m, v[k])
    BY <1>5, <2>1
  <2>3. MergedUpTo(c, Sh, words, own, m + 1, MergeWord(v[k], words[m + 1]))
    BY <2>1, <2>2, MergeMore
  <2>4. v[k + 1] = MergeWord(v[k], words[m + 1])
    BY <1>3, <2>1
  <2> QED
    BY <2>1, <2>3, <2>4
<1>6. Nat \subseteq Q
  <2> HIDE DEF Q
  <2> QED
    BY <1>4, <1>5, Induction
<1>7. PICK M : M = MergedOf(words, n)
  OBVIOUS
<1>8. MergedUpTo(c, Sh, words, own, L, M)
  <2>1. L - n \in Q /\ n + (L - n) = L
    BY <1>1, <1>6
  <2> QED
    BY <1>3, <1>7, <2>1
<1>9. ASSUME NEW w PROVE UpTo(c, Sh, words, own, L, w) = FoundIn(c, AllRead(c), w)
  <2>1. ASSUME NEW d
        PROVE  d \in FoundIn(c, AllRead(c), w) <=> d \in DOMAIN c /\ \E p \in 1 .. Len(c[d]) : c[d][p] = w
    BY DEF FoundIn, Places, AllRead, ReadOf
  <2>2. ASSUME NEW d \in UpTo(c, Sh, words, own, L, w) PROVE d \in FoundIn(c, AllRead(c), w)
    <3>1. PICK q \in 1 .. L : d \in Having(c, Sh, own[q], w)
      BY UpToHas
    <3>2. PICK r \in Worker : r = own[q]
      BY DEF Gathered
    <3>3. d \in Sh[r] /\ \E p \in 1 .. Len(c[d]) : c[d][p] = w
      <4>1. d \in Having(c, Sh, r, w)
        BY <3>1, <3>2
      <4> QED
        BY <1>0, <4>1
    <3>4. d \in DOMAIN c
      BY <3>2, <3>3 DEF Shares
    <3> QED
      BY <2>1, <3>3, <3>4
  <2>3. ASSUME NEW d \in FoundIn(c, AllRead(c), w) PROVE d \in UpTo(c, Sh, words, own, L, w)
    <3>1. PICK p \in 1 .. Len(c[d]) : c[d][p] = w
      BY <2>1
    <3>2. PICK r \in Worker : d \in Sh[r]
      BY <2>1
    <3>3. PICK q \in 1 .. L : own[q] = r /\ words[q].word = w
      <4>1. \A e \in Sh[r] : \A x \in 1 .. Len(c[e]) :
               \E q \in 1 .. L : own[q] = r /\ words[q].word = c[e][x]
        BY DEF Gathered
      <4> QED
        BY <3>1, <3>2, <4>1
    <3>4. d \in Having(c, Sh, r, w)
      BY <1>0, <3>1, <3>2
    <3> QED
      BY <3>3, <3>4, UpToHas
  <2> QED
    BY <2>2, <2>3
<1>10. /\ M \in Seq(UniqueOver(W))
       /\ \A j \in 1 .. Len(M) : M[j].numDocsWithWord = Cardinality(FoundIn(c, AllRead(c), M[j].word))
  BY <1>8, <1>9 DEF MergedUpTo
<1>11. ASSUME NEW d \in DOMAIN c, NEW p \in 1 .. Len(c[d])
       PROVE  \E j \in 1 .. Len(M) : M[j].word = c[d][p]
  <2>1. PICK r \in Worker : d \in Sh[r]
    OBVIOUS
  <2>2. PICK q \in 1 .. L : words[q].word = c[d][p]
    BY <2>1 DEF Gathered
  <2> QED
    BY <1>8, <2>2 DEF MergedUpTo
<1>12. WordsDiffer(M)
  BY <1>8 DEF MergedUpTo, WordsDiffer
<1> QED
  BY <1>7, <1>10, <1>11, <1>12 DEF CountsFor

\* No documents, no lines; and the lines of two shares one after the other.
LEMMA NoLines == ASSUME NEW c PROVE LinesFor(c, {}, << >>)
  BY DEF LinesFor

\* The lines of two shares, one after the other.
LEMMA MoreLines ==
    ASSUME NEW c, NEW D, NEW E, D \intersect E = {}, NEW s, LinesFor(c, D, s),
           NEW t, LinesFor(c, E, t)
    PROVE  LinesFor(c, D \union E, s \o t)
<1> DEFINE a == Len(s)
           b == Len(t)
           all == s \o t
           X == EntryOver(WordsIn(c))
<1>1. /\ s \in Seq(X)
      /\ \A j \in 1 .. a : \E d \in D : \E p \in 1 .. Len(c[d]) : s[j] = LineFor(c, c[d][p], d)
      /\ \A j, k \in 1 .. a : s[j] = s[k] => j = k
      /\ \A d \in D : \A p \in 1 .. Len(c[d]) : \E j \in 1 .. a : s[j] = LineFor(c, c[d][p], d)
  BY DEF LinesFor
<1>2. /\ t \in Seq(X)
      /\ \A j \in 1 .. b : \E d \in E : \E p \in 1 .. Len(c[d]) : t[j] = LineFor(c, c[d][p], d)
      /\ \A j, k \in 1 .. b : t[j] = t[k] => j = k
      /\ \A d \in E : \A p \in 1 .. Len(c[d]) : \E j \in 1 .. b : t[j] = LineFor(c, c[d][p], d)
  BY DEF LinesFor
<1>3. /\ a \in Nat /\ b \in Nat /\ all \in Seq(X) /\ Len(all) = a + b
      /\ \A x \in 1 .. a + b : all[x] = IF x <= a THEN s[x] ELSE t[x - a]
  <2> HIDE DEF X
  <2> QED
    BY <1>1, <1>2, ConcatProperties
<1>4. ASSUME NEW q \in 1 .. a PROVE q \in 1 .. a + b /\ all[q] = s[q]
  BY <1>3
<1>5. ASSUME NEW k \in 1 .. b PROVE a + k \in 1 .. a + b /\ all[a + k] = t[k]
  <2>1. a + k \in 1 .. a + b /\ ~(a + k <= a) /\ (a + k) - a = k
    BY <1>3
  <2> QED
    BY <1>3, <2>1
<1>6. ASSUME NEW q \in 1 .. a + b PROVE q \in 1 .. a \/ \E k \in 1 .. b : q = a + k
  <2>1. CASE q <= a
    BY <1>3, <2>1
  <2>2. CASE ~(q <= a)
    <3>1. q - a \in 1 .. b /\ q = a + (q - a)
      BY <1>3, <2>2
    <3> QED
      BY <3>1
  <2> QED
    BY <2>1, <2>2
<1> HIDE DEF all, a, b
<1>7. ASSUME NEW q \in 1 .. a + b
      PROVE  \E d \in D \union E : \E p \in 1 .. Len(c[d]) : all[q] = LineFor(c, c[d][p], d)
  <2>1. CASE q \in 1 .. a
    BY <1>1, <1>4, <2>1
  <2>2. CASE \E k \in 1 .. b : q = a + k
    BY <1>2, <1>5, <2>2
  <2> QED
    BY <1>6, <2>1, <2>2
<1>8. ASSUME NEW j \in 1 .. a, NEW k \in 1 .. b PROVE s[j] # t[k]
  <2>1. PICK d \in D : \E p \in 1 .. Len(c[d]) : s[j] = LineFor(c, c[d][p], d)
    BY <1>1
  <2>2. PICK e \in E : \E p \in 1 .. Len(c[e]) : t[k] = LineFor(c, c[e][p], e)
    BY <1>2
  <2>3. s[j].document = d /\ t[k].document = e
    BY <2>1, <2>2 DEF LineFor
  <2> QED
    BY <2>3
<1>9. ASSUME NEW p \in 1 .. a + b, NEW q \in 1 .. a + b, all[p] = all[q] PROVE p = q
  <2>1. CASE p \in 1 .. a /\ q \in 1 .. a
    BY <1>1, <1>4, <1>9, <2>1
  <2>2. CASE (\E k \in 1 .. b : p = a + k) /\ (\E k \in 1 .. b : q = a + k)
    BY <1>2, <1>5, <1>9, <2>2
  <2>3. CASE p \in 1 .. a /\ \E k \in 1 .. b : q = a + k
    BY <1>4, <1>5, <1>8, <1>9, <2>3
  <2>4. CASE q \in 1 .. a /\ \E k \in 1 .. b : p = a + k
    BY <1>4, <1>5, <1>8, <1>9, <2>4
  <2> QED
    BY <1>6, <2>1, <2>2, <2>3, <2>4
<1>10. ASSUME NEW d \in D \union E, NEW p \in 1 .. Len(c[d])
       PROVE  \E q \in 1 .. a + b : all[q] = LineFor(c, c[d][p], d)
  <2>1. CASE d \in D
    <3>1. PICK j \in 1 .. a : s[j] = LineFor(c, c[d][p], d)
      BY <1>1, <2>1
    <3> QED
      BY <1>4, <3>1
  <2>2. CASE d \in E
    <3>1. PICK j \in 1 .. b : t[j] = LineFor(c, c[d][p], d)
      BY <1>2, <2>2
    <3> QED
      BY <1>5, <3>1
  <2> QED
    BY <2>1, <2>2
<1>11. all \in Seq(X) /\ Len(all) = a + b
  BY <1>3
<1>12. LinesFor(c, D \union E, all)
  BY <1>7, <1>9, <1>10, <1>11 DEF LinesFor
<1> QED
  BY <1>12 DEF all

----------------------------------------------------------------------------
(* What the tables and lines of the ranks are *)

\* The documents of worker r, and those of them that it has read.
Share(r) == {d \in DOMAIN corpus : Turn(r, d)}
Before(r) == {d \in Share(r) : d < i[r]}
Dealt == [r \in Worker |-> Share(r)]
Received == {s \in Worker : s < i[Root]}

Early == {"start", "read", "exited", "uw_idx", "unique_words"}

\* Until worker r has the merged table its own is that of what it has read; then it has the
\* lines of its documents.
TableInv(r) ==
    /\ pc[r] = "start" => i[r] = 0
    /\ i[r] <= Len(corpus) + numproc - 1
    /\ pc[r] \in Early => /\ tables[r] \in TablesOver(WordsIn(corpus))
                          /\ Table(corpus, ReadOf(corpus, Before(r)), tables[r])
    /\ pc[r] \in WorkerPCs \ Early => LinesFor(corpus, Share(r), strings[r])

\* The root has gathered the tables of those it has received from, and then their lines.
GatherInv ==
    /\ pc[Root] = "start" => i[Root] = 0
    /\ pc[Root] \in {"start", "uw_idx"} => words_r = << >>
    /\ pc[Root] = "unique_words" =>
          \E own : Gathered(corpus, Dealt, Received, words_r, own, idx[1])
    /\ pc[Root] = "merge" => \E own : Gathered(corpus, Dealt, Worker, words_r, own, idx[1])
    /\ pc[Root] \in Late => CountsFor(corpus, bcasts[3])
    /\ pc[Root] \in RootPCs \ {"strings", "write", "done"} => strings[Root] = << >>
    /\ pc[Root] = "strings" =>
          LinesFor(corpus, UNION {Share(s) : s \in Received}, strings[Root])
    /\ pc[Root] \in {"write", "done"} => LinesFor(corpus, DOMAIN corpus, strings[Root])
    /\ output # NoFile => output = <<Definition(corpus)>>

DataInv ==
    /\ idx \in [Worker -> Nat \union {NotSet}]
    /\ \A r \in Worker : TableInv(r)
    /\ GatherInv

\* A document is the turn of one worker only.
LEMMA OneTurn ==
    ASSUME NEW r \in Worker, NEW s \in Worker, NEW d, Turn(r, d), Turn(s, d)
    PROVE  r = s
<1> PICK W \in Nat \ {0} : W = numproc - 1
  BY TficfAssumption
<1>1. r \in 1 .. W /\ s \in 1 .. W /\ r % W = s % W
  BY DEF Worker, Turn
<1>2. CASE r < s
  <2>1. r + W <= s
    BY <1>1, <1>2, FarApart
  <2> QED
    BY <1>1, <2>1
<1>3. CASE s < r
  <2>1. s + W <= r
    BY <1>1, <1>3, FarApart
  <2> QED
    BY <1>1, <2>1
<1> QED
  BY <1>1, <1>2, <1>3

\* The documents are dealt out among the workers.
LEMMA Dealing ==
    ASSUME Inv
    PROVE  /\ GoodCorpus(corpus) /\ Shares(corpus, Dealt) /\ 1 \in Worker
           /\ \A d \in DOMAIN corpus : \E r \in Worker : d \in Dealt[r]
<1>1. GoodCorpus(corpus)
  BY TficfAssumption DEF Inv, GoodCorpus
<1>2. \A r \in Worker : Dealt[r] \subseteq DOMAIN corpus
  BY DEF Dealt, Share
<1>3. ASSUME NEW r \in Worker, NEW s \in Worker, r # s
      PROVE  Dealt[r] \intersect Dealt[s] = {}
  <2> SUFFICES ASSUME NEW d, d \in Dealt[r], d \in Dealt[s] PROVE FALSE
    OBVIOUS
  <2>1. Turn(r, d) /\ Turn(s, d)
    BY DEF Dealt, Share
  <2> QED
    BY <1>3, <2>1, OneTurn
<1>4. ASSUME NEW d \in DOMAIN corpus PROVE \E r \in Worker : d \in Dealt[r]
  <2>1. d \in Nat \ {0}
    BY <1>1 DEF GoodCorpus
  <2>2. PICK r \in Worker : Turn(r, d)
    BY <2>1, SomeTurn
  <2> QED
    BY <2>2 DEF Dealt, Share
<1>5. 1 \in Worker
  BY TficfAssumption DEF Worker
<1>6. Shares(corpus, Dealt)
  BY <1>2, <1>3 DEF Shares
<1> QED
  BY <1>1, <1>4, <1>5, <1>6

\* A worker that has read its documents has read all of them.
LEMMA AllBefore ==
    ASSUME Inv, NEW r \in Worker, i[r] > Len(corpus), i[r] \in Int
    PROVE  Before(r) = Share(r)
<1>1. DOMAIN corpus = 1 .. Len(corpus) /\ Len(corpus) \in Nat
  BY Dealing DEF GoodCorpus
<1>2. \A d \in Share(r) : d \in 1 .. Len(corpus)
  BY <1>1 DEF Share
<1>3. \A d \in Share(r) : d < i[r]
  BY <1>1, <1>2
<1> QED
  BY <1>3 DEF Before

\* The shares depend on the corpus only.
LEMMA SameDocuments ==
    ASSUME corpus' = corpus
    PROVE  /\ \A r : Share(r)' = Share(r)
           /\ Dealt' = Dealt
           /\ \A r \in Worker : i'[r] = i[r] => Before(r)' = Before(r)
           /\ i'[Root] = i[Root] => Received' = Received
  BY DEF Share, Dealt, Before, Received, Turn

\* What a rank does leaves alone what the tables of another are.
LEMMA OtherTable ==
    ASSUME NEW s \in Worker, TableInv(s), corpus' = corpus, pc'[s] = pc[s], i'[s] = i[s],
           tables'[s] = tables[s], strings'[s] = strings[s]
    PROVE  TableInv(s)'
<1>1. Share(s)' = Share(s) /\ Before(s)' = Before(s)
  BY SameDocuments
<1> QED
  BY <1>1 DEF TableInv

\* A step of worker r leaves alone what the root has, and the other workers.
LEMMA WorkerData ==
    ASSUME Inv, DataInv, NEW r \in Worker, TableInv(r)',
           UNCHANGED <<corpus, rootVars, bcasts>>,
           \A s \in Rank \ {r} : /\ pc'[s] = pc[s] /\ i'[s] = i[s]
                                 /\ tables'[s] = tables[s] /\ strings'[s] = strings[s]
    PROVE  DataInv'
<1>1. \A s \in Worker : TableInv(s)'
  BY OtherTable, Ranks DEF DataInv
<1>2. pc'[Root] = pc[Root] /\ i'[Root] = i[Root] /\ strings'[Root] = strings[Root]
  BY Ranks
<1>3. Dealt' = Dealt /\ Received' = Received /\ \A s : Share(s)' = Share(s)
  BY <1>2, SameDocuments
<1>4. GatherInv'
  BY <1>2, <1>3 DEF DataInv, GatherInv, rootVars
<1> QED
  BY <1>1, <1>4 DEF DataInv, rootVars

\* A step of the root leaves alone what the workers have.
LEMMA RootData ==
    ASSUME DataInv, corpus' = corpus, GatherInv', idx' \in [Worker -> Nat \union {NotSet}],
           \A s \in Worker : /\ pc'[s] = pc[s] /\ i'[s] = i[s]
                             /\ tables'[s] = tables[s] /\ strings'[s] = strings[s]
    PROVE  DataInv'
  BY OtherTable DEF DataInv

----------------------------------------------------------------------------
(* The workers *)

\* A worker starts with its first document: it has read none.
LEMMA GetNumDocsData == ASSUME Inv, DataInv, NEW r \in Worker, GetNumDocs(r) PROVE DataInv'
<1>1. /\ pc[r] = "start" /\ pc' = [pc EXCEPT ![r] = "read"] /\ i' = [i EXCEPT ![r] = r]
      /\ UNCHANGED <<corpus, tables, rootVars, strings, bcasts, sends>>
  BY DEF GetNumDocs, Goto
<1>2. /\ pc'[r] = "read" /\ i'[r] = r
      /\ \A s \in Rank \ {r} : pc'[s] = pc[s] /\ i'[s] = i[s]
  BY <1>1, Ranks DEF Inv, Functions
<1>3. /\ TableInv(r) /\ r \in Nat /\ r >= 1 /\ r <= numproc - 1 /\ numproc - 1 \in Nat \ {0}
      /\ Len(corpus) \in Nat
  BY TficfAssumption, Dealing DEF DataInv, Worker, GoodCorpus
<1>4. Before(r) = {} /\ Before(r)' = {}
  <2>1. i[r] = 0
    BY <1>1, <1>3 DEF TableInv
  <2>2. ASSUME NEW d \in Share(r) PROVE ~(d < 0) /\ ~(d < r)
    <3>1. d \in 1 .. Len(corpus) /\ Turn(r, d)
      BY Dealing DEF Share, GoodCorpus
    <3>2. d \in Int /\ d >= 1
      BY <3>1
    <3>3. d < r => FALSE
      BY <1>3, <3>1, <3>2, FarApart DEF Turn
    <3> QED
      BY <3>2, <3>3
  <2>3. Share(r)' = Share(r)
    BY <1>1, SameDocuments
  <2> QED
    BY <1>2, <2>1, <2>2, <2>3 DEF Before
<1>5. TableInv(r)'
  <2>1. /\ tables[r] \in TablesOver(WordsIn(corpus))
        /\ Table(corpus, ReadOf(corpus, Before(r)), tables[r])
    BY <1>1, <1>3 DEF TableInv, Early
  <2>2. r <= Len(corpus) + numproc - 1
    BY <1>3
  <2> QED
    BY <1>1, <1>2, <1>4, <2>1, <2>2 DEF TableInv, Early
<1> QED
  BY <1>1, <1>2, <1>5, WorkerData

\* A worker reads its next document, the first after those it has read.
LEMMA ReadDocData == ASSUME Inv, DataInv, NEW r \in Worker, ReadDoc(r) PROVE DataInv'
<1> DEFINE W == numproc - 1
           d == i[r]
           gone == corpus[d] = Absent
<1>1. /\ pc[r] = "read" /\ d <= bcasts[1][1]
      /\ UNCHANGED <<corpus, rootVars, strings, bcasts, sends>>
      /\ pc' = [pc EXCEPT ![r] = IF gone THEN "exited" ELSE "read"]
      /\ i' = IF gone THEN i ELSE [i EXCEPT ![r] = @ + numproc - 1]
      /\ tables' = IF gone THEN tables
                   ELSE [tables EXCEPT ![r] = ReadDocument(@, d, corpus[d], bcasts[1][1])]
  BY DEF ReadDoc, Goto
<1>2. /\ TableInv(r) /\ ReadInv(r) /\ numproc \in Nat /\ numproc > 1 /\ r \in Nat /\ r >= 1
      /\ Len(corpus) \in Nat /\ DOMAIN corpus = 1 .. Len(corpus)
  BY TficfAssumption, Dealing DEF DataInv, Inv, WorkerInv, Worker, GoodCorpus
<1>3. /\ pc[Root] # "start" /\ d \in Nat /\ d >= r /\ Turn(r, d)
      /\ \A e \in 1 .. Len(corpus) : e < d /\ Turn(r, e) => corpus[e] # Absent
  BY <1>1, <1>2 DEF ReadInv
<1>4. bcasts[1][1] = Len(corpus) /\ d \in DOMAIN corpus
  <2>1. bcasts[1][1] = Len(corpus)
    BY <1>3 DEF Inv, RootInv
  <2> QED
    BY <1>1, <1>2, <1>3, <2>1
<1>5. /\ tables[r] \in TablesOver(WordsIn(corpus))
      /\ Table(corpus, ReadOf(corpus, Before(r)), tables[r])
  BY <1>1, <1>2 DEF TableInv, Early
<1>6. CASE gone
  <2>1. /\ pc'[r] = "exited" /\ i'[r] = i[r] /\ tables'[r] = tables[r] /\ strings'[r] = strings[r]
        /\ \A s \in Rank \ {r} : /\ pc'[s] = pc[s] /\ i'[s] = i[s]
                                 /\ tables'[s] = tables[s] /\ strings'[s] = strings[s]
    BY <1>1, <1>6, Ranks DEF Inv, Functions
  <2>2. Before(r)' = Before(r)
    BY <1>1, <2>1, SameDocuments
  <2>3. TableInv(r)'
    BY <1>1, <1>2, <1>5, <2>1, <2>2 DEF TableInv, Early
  <2> QED
    BY <1>1, <2>1, <2>3, WorkerData
<1>7. CASE ~gone
  <2>1. /\ pc'[r] = "read" /\ i'[r] = d + W
        /\ tables'[r] = ReadDocument(tables[r], d, corpus[d], Len(corpus))
        /\ strings'[r] = strings[r]
        /\ \A s \in Rank \ {r} : /\ pc'[s] = pc[s] /\ i'[s] = i[s]
                                 /\ tables'[s] = tables[s] /\ strings'[s] = strings[s]
    <3>1. /\ pc' = [pc EXCEPT ![r] = "read"] /\ i' = [i EXCEPT ![r] = @ + numproc - 1]
          /\ tables' = [tables EXCEPT ![r] = ReadDocument(@, d, corpus[d], Len(corpus))]
          /\ strings' = strings
      BY <1>1, <1>4, <1>7
    <3>2. i'[r] = i[r] + numproc - 1
      BY <3>1, Ranks DEF Inv, Functions
    <3> HIDE DEF d
    <3> QED
      BY <1>2, <1>3, <3>1, <3>2, Ranks DEF Inv, Functions, d
  <2>2. Before(r)' = Before(r) \union {d}
    <3>1. Share(r)' = Share(r)
      BY <1>1, SameDocuments
    <3>2. ASSUME NEW e \in Share(r) PROVE e < d + W <=> e < d \/ e = d
      <4>1. e \in Int /\ Turn(r, e) /\ W \in Nat \ {0} /\ e % W = d % W
        BY <1>2, <1>3 DEF Share, Turn
      <4>2. CASE d < e
        <5>1. d + W <= e
          BY <1>3, <4>1, <4>2, FarApart
        <5> HIDE DEF d, W
        <5> QED
          BY <1>3, <4>1, <4>2, <5>1
      <4> HIDE DEF d, W
      <4>3. CASE e <= d
        BY <1>3, <4>1, <4>3
      <4> QED
        BY <1>3, <4>1, <4>2, <4>3
    <3>3. d \in Share(r)
      BY <1>3, <1>4 DEF Share
    <3> HIDE DEF d, W
    <3> QED
      BY <2>1, <3>1, <3>2, <3>3 DEF Before, d
  <2>3. /\ tables'[r] \in TablesOver(WordsIn(corpus))
        /\ Table(corpus, ReadOf(corpus, Before(r) \union {d}), tables'[r])
    <3>1. Before(r) \in SUBSET DOMAIN corpus /\ (\A e \in Before(r) : e < d /\ corpus[e] # Absent)
      BY <1>2, <1>3 DEF Before, Share
    <3> HIDE DEF d
    <3> QED
      BY <1>4, <1>5, <1>7, <2>1, <3>1, Dealing, ReadOneMore
  <2>4. i'[r] <= Len(corpus) + numproc - 1
    <3>1. d <= Len(corpus) /\ d \in Nat
      BY <1>2, <1>3, <1>4
    <3> HIDE DEF d
    <3> QED
      BY <1>2, <2>1, <3>1
  <2>5. TableInv(r)'
    BY <1>1, <2>1, <2>2, <2>3, <2>4 DEF TableInv, Early
  <2> QED
    BY <1>1, <2>1, <2>5, WorkerData
<1> QED
  BY <1>6, <1>7

\* Sending changes no table.
LEMMA SendingData ==
    ASSUME Inv, DataInv, NEW r \in Worker, NEW from, NEW to, Goto(r, from, to),
           UNCHANGED <<corpus, i, tables, rootVars, strings, bcasts>>,
           \/ from \in {"read", "uw_idx"} /\ to \in {"uw_idx", "unique_words"}
           \/ from \in {"tficf", "TF_idx", "strings"} /\ to \in {"TF_idx", "strings", "done"}
    PROVE  DataInv'
<1>1. /\ pc[r] = from /\ pc'[r] = to /\ \A s \in Rank \ {r} : pc'[s] = pc[s]
  BY Ranks DEF Inv, Functions, Goto
<1>2. Share(r)' = Share(r) /\ Before(r)' = Before(r)
  BY SameDocuments
<1>3. TableInv(r)
  BY DEF DataInv
<1>4. TableInv(r)'
  BY <1>1, <1>2, <1>3 DEF TableInv, Early, WorkerPCs
<1> QED
  BY <1>1, <1>4, WorkerData

\* A worker sends its own table.
LEMMA SendUniqueData == ASSUME Inv, DataInv, NEW r \in Worker, SendUnique(r) PROVE DataInv'
  BY SendingData DEF SendUnique

\* A worker sends its lines.
LEMMA SendStringsData == ASSUME Inv, DataInv, NEW r \in Worker, SendStrings(r) PROVE DataInv'
  BY SendingData DEF SendStrings

\* The lines of a worker are made from its table and the merged one.
LEMMA GetUniqueData == ASSUME Inv, DataInv, NEW r \in Worker, GetUnique(r) PROVE DataInv'
<1> DEFINE TFICF == Populate(tables[r].TFICF, bcasts[3])
<1>1. /\ pc[r] = "unique_words" /\ pc' = [pc EXCEPT ![r] = "tficf"] /\ Len(bcasts) = 3
      /\ tables' = [tables EXCEPT ![r] = [TFICF |-> TFICF, unique |-> bcasts[3]]]
      /\ strings' = [strings EXCEPT ![r] = TFICF]
      /\ UNCHANGED <<corpus, i, rootVars, bcasts, sends>>
  BY DEF GetUnique, Goto
<1> HIDE DEF TFICF
<1>2. /\ pc'[r] = "tficf" /\ strings'[r] = TFICF /\ i'[r] = i[r]
      /\ \A s \in Rank \ {r} : /\ pc'[s] = pc[s] /\ i'[s] = i[s]
                               /\ tables'[s] = tables[s] /\ strings'[s] = strings[s]
  BY <1>1, Ranks DEF Inv, Functions
<1>3. pc[Root] \in Late
  <2>1. bcasts # << >> /\ bcasts # <<<<Len(corpus)>>>>
    BY <1>1
  <2> QED
    BY <2>1 DEF Inv, RootInv
<1>4. CountsFor(corpus, bcasts[3]) /\ TableInv(r)
  BY <1>3 DEF DataInv, GatherInv
<1>5. Before(r) = Share(r)
  <2>1. ReadInv(r) /\ Posted(r) > 0
    BY <1>1 DEF Inv, WorkerInv, Posted
  <2>2. i[r] > Len(corpus) /\ i[r] \in Int
    BY <1>1, <2>1 DEF ReadInv
  <2> QED
    BY <2>2, AllBefore
<1>6. /\ tables[r].TFICF \in Seq(EntryOver(WordsIn(corpus)))
      /\ EntriesFor(corpus, ReadOf(corpus, Share(r)), tables[r].TFICF)
  BY <1>1, <1>4, <1>5 DEF TableInv, Early, TablesOver, Table
<1>7. LinesFor(corpus, Share(r), TFICF)
  <2>1. Share(r) \in SUBSET DOMAIN corpus
    BY DEF Share
  <2> QED
    BY <1>4, <1>6, <2>1, Dealing, PopulateLines DEF TFICF
<1>8. TableInv(r)'
  <2>1. Share(r)' = Share(r)
    BY <1>1, SameDocuments
  <2> QED
    BY <1>1, <1>2, <1>4, <1>7, <2>1 DEF TableInv, Early
<1> QED
  BY <1>1, <1>2, <1>8, WorkerData

----------------------------------------------------------------------------
(* The root *)

\* The root receives from the worker after those it has received from.
ReceivedOne(phase, after, w) ==
    /\ w = i[Root] /\ w \in Worker /\ pc[Root] = phase
    /\ \A s \in Worker : pc'[s] = pc[s] /\ i'[s] = i[s]
    /\ w \notin Received /\ (w = 1 => Received = {})
    /\ \/ /\ pc'[Root] = after /\ i'[Root] = 1
          /\ Received \union {w} = Worker /\ Received' = {}
       \/ pc'[Root] = phase /\ Received' = Received \union {w}

\* That is what a receive does.
LEMMA ReceivesOne ==
    ASSUME Inv, NEW phase, NEW after, FromEach(phase, after), phase # "start"
    PROVE  ReceivedOne(phase, after, i[Root])
<1> PICK w : w = i[Root]
  OBVIOUS
<1>1. /\ pc[Root] = phase /\ w \in Worker
      /\ \/ w = numproc - 1 /\ pc' = [pc EXCEPT ![Root] = after] /\ i' = [i EXCEPT ![Root] = 1]
         \/ w # numproc - 1 /\ pc' = [pc EXCEPT ![Root] = phase] /\ i' = [i EXCEPT ![Root] = w + 1]
  BY DEF FromEach, Goto, Inv, RootInv
<1>2. /\ \A s \in Worker : pc'[s] = pc[s] /\ i'[s] = i[s]
      /\ \/ w = numproc - 1 /\ pc'[Root] = after /\ i'[Root] = 1
         \/ w # numproc - 1 /\ pc'[Root] = phase /\ i'[Root] = w + 1
  BY <1>1, Ranks DEF Inv, Functions
<1>3. numproc \in Nat /\ numproc > 1 /\ Worker = 1 .. numproc - 1 /\ w \in 1 .. numproc - 1
  BY <1>1, TficfAssumption DEF Worker
<1>4. Received = {s \in Worker : s < w}
  BY DEF Received
<1>5. w \notin Received /\ (w = 1 => Received = {})
  BY <1>3, <1>4
<1>6. CASE w = numproc - 1 /\ pc'[Root] = after /\ i'[Root] = 1
  <2>1. Received \union {w} = Worker
    BY <1>3, <1>4, <1>6
  <2>2. Received' = {}
    BY <1>3, <1>6 DEF Received
  <2> QED
    BY <1>1, <1>2, <1>5, <1>6, <2>1, <2>2 DEF ReceivedOne
<1>7. CASE w # numproc - 1 /\ pc'[Root] = phase /\ i'[Root] = w + 1
  <2>1. Received' = Received \union {w}
    BY <1>3, <1>4, <1>7 DEF Received
  <2> QED
    BY <1>1, <1>2, <1>5, <1>7, <2>1 DEF ReceivedOne
<1> QED
  BY <1>2, <1>6, <1>7

\* The root counts the documents; it has received nothing.
LEMMA CountDocsData == ASSUME Inv, DataInv, CountDocs PROVE DataInv'
<1>1. /\ pc[Root] = "start" /\ pc' = [pc EXCEPT ![Root] = "uw_idx"]
      /\ i' = [i EXCEPT ![Root] = 1]
      /\ UNCHANGED <<corpus, tables, rootVars, strings>>
  BY DEF CountDocs, Goto
<1>2. /\ pc'[Root] = "uw_idx" /\ \A s \in Worker : pc'[s] = pc[s] /\ i'[s] = i[s]
  BY <1>1, Ranks DEF Inv, Functions
<1>3. words_r = << >> /\ strings[Root] = << >> /\ output = NoFile
  BY <1>1 DEF DataInv, GatherInv, RootPCs, Inv, RootInv
<1>4. GatherInv'
  BY <1>1, <1>2, <1>3 DEF GatherInv, Late, rootVars
<1> QED
  BY <1>1, <1>2, <1>4, RootData DEF DataInv, rootVars

\* The root receives sizes; before the tables and lines it has received none.
LEMMA RecvSizesData == ASSUME Inv, DataInv, RecvSizes PROVE DataInv'
<1>1. PICK phase, after :
        /\ FromEach(phase, after)
        /\ \/ phase = "uw_idx" /\ after = "unique_words"
           \/ phase = "TF_idx" /\ after = "strings"
  BY DEF RecvSizes
<1>2. PICK w : w = i[Root]
  OBVIOUS
<1>3. /\ idx' = [idx EXCEPT ![w] = Message(w)[1]]
      /\ UNCHANGED <<corpus, tables, words_r, output, strings, bcasts>>
  BY <1>2 DEF RecvSizes
<1>4. ReceivedOne(phase, after, w)
  BY <1>1, <1>2, ReceivesOne
<1>5. /\ w = i[Root] /\ w \in Worker /\ pc[Root] = phase
      /\ \A s \in Worker : pc'[s] = pc[s] /\ i'[s] = i[s]
      /\ \/ pc'[Root] = after /\ Received' = {}
         \/ pc'[Root] = phase
  BY <1>4 DEF ReceivedOne
<1>6. /\ QueueInv(w) /\ Arrived(w) /\ TableInv(w) /\ pc[w] \in WorkerPCs /\ LinesInv(w)
  BY <1>1, <1>2, <1>5 DEF FromEach, MPI_Recv, Inv, WorkerInv, DataInv
<1>7. Taken(w) < Posted(w) /\ Message(w) = Contents(w, Names[Taken(w) + 1])
  BY <1>5, <1>6, NextMessage
<1>8. ~(w < i[Root])
  BY <1>5 DEF Worker
<1>9. Message(w)[1] \in Nat
  <2>1. CASE phase = "uw_idx"
    <3>1. Taken(w) = 0
      BY <1>5, <1>8, <2>1 DEF Taken, Passed
    <3>2. Message(w) = <<Len(tables[w].unique)>>
      BY <1>7, <3>1 DEF Contents, Names
    <3>3. pc[w] \in Early
      BY <1>5, <1>6, <2>1 DEF LinesInv, Late, WorkerPCs, Early
    <3>4. tables[w].unique \in Seq(UniqueOver(WordsIn(corpus)))
      BY <1>6, <3>3 DEF TableInv, TablesOver
    <3>5. Len(tables[w].unique) \in Nat
      BY <3>4
    <3> QED
      BY <3>2, <3>5
  <2>2. CASE phase = "TF_idx"
    <3>1. Taken(w) = 2
      BY <1>5, <1>8, <2>2 DEF Taken, Passed
    <3>2. Message(w) = <<Len(tables[w].TFICF)>>
      BY <1>7, <3>1 DEF Contents, Names
    <3>3. pc[w] \in {"TF_idx", "strings", "done"}
      BY <1>6, <1>7, <3>1 DEF Posted, WorkerPCs
    <3>4. tables[w].TFICF \in Seq(EntryOver(WordsIn(corpus)))
      <4>1. tables[w].TFICF = strings[w]
        BY <1>6, <3>3 DEF LinesInv
      <4> QED
        BY <1>6, <3>3, <4>1 DEF TableInv, WorkerPCs, Early, LinesFor
    <3>5. Len(tables[w].TFICF) \in Nat
      BY <3>4
    <3> QED
      BY <3>2, <3>5
  <2> QED
    BY <1>1, <2>1, <2>2
<1>10. idx' \in [Worker -> Nat \union {NotSet}]
  BY <1>3, <1>9 DEF DataInv
<1>11. output = NoFile
  BY <1>1, <1>5 DEF Inv, RootInv
<1>12. GatherInv'
  <2>1. CASE phase = "uw_idx"
    <3>1. words_r = << >> /\ strings[Root] = << >>
      BY <1>5, <2>1 DEF DataInv, GatherInv, RootPCs
    <3>2. CASE pc'[Root] = phase
      BY <1>3, <1>11, <2>1, <3>1, <3>2 DEF GatherInv, Late
    <3>3. CASE pc'[Root] = after /\ Received' = {}
      <4>1. Gathered(corpus', Dealt', Received', words_r', << >>, idx'[1])
        BY <1>3, <3>1, <3>3, NothingGathered
      <4> QED
        BY <1>1, <1>3, <1>11, <2>1, <3>1, <3>3, <4>1 DEF GatherInv, Late
    <3> QED
      BY <1>5, <3>2, <3>3
  <2>2. CASE phase = "TF_idx"
    <3>1. CountsFor(corpus, bcasts[3]) /\ strings[Root] = << >>
      BY <1>5, <2>2 DEF DataInv, GatherInv, RootPCs, Late
    <3>2. CASE pc'[Root] = phase
      BY <1>3, <1>11, <2>2, <3>1, <3>2 DEF GatherInv, Late
    <3>3. CASE pc'[Root] = after /\ Received' = {}
      <4>1. UNION {Share(s) : s \in Received}' = {}
        BY <3>3
      <4>2. LinesFor(corpus', UNION {Share(s) : s \in Received}', strings'[Root])
        BY <1>3, <3>1, <4>1, NoLines
      <4> QED
        BY <1>1, <1>3, <1>11, <2>2, <3>1, <3>3, <4>2 DEF GatherInv, Late
    <3> QED
      BY <1>5, <3>2, <3>3
  <2> QED
    BY <1>1, <2>1, <2>2
<1> QED
  BY <1>3, <1>5, <1>10, <1>12, RootData

\* The message is the table of the worker, and it is complete.
LEMMA RecvUniqueData == ASSUME Inv, DataInv, RecvUnique PROVE DataInv'
<1>1. PICK w : w = i[Root]
  OBVIOUS
<1>2. /\ FromEach("unique_words", "merge") /\ words_r' = words_r \o Message(w)
      /\ UNCHANGED <<corpus, tables, idx, output, strings, bcasts>>
  BY <1>1 DEF RecvUnique
<1>3. ReceivedOne("unique_words", "merge", w)
  BY <1>1, <1>2, ReceivesOne
<1>4. /\ w = i[Root] /\ w \in Worker /\ pc[Root] = "unique_words"
      /\ \A s \in Worker : pc'[s] = pc[s] /\ i'[s] = i[s]
      /\ w \notin Received /\ (w = 1 => Received = {})
      /\ \/ pc'[Root] = "merge" /\ Received \union {w} = Worker
         \/ pc'[Root] = "unique_words" /\ Received' = Received \union {w}
  BY <1>3 DEF ReceivedOne
<1>5. /\ QueueInv(w) /\ Arrived(w) /\ TableInv(w) /\ pc[w] \in WorkerPCs /\ WorkerInv(w)
  BY <1>1, <1>2, <1>4 DEF FromEach, MPI_Recv, Inv, WorkerInv, DataInv
<1>6. Taken(w) = 1
  <2>1. ~(w < i[Root])
    BY <1>4 DEF Worker
  <2> QED
    BY <1>4, <2>1 DEF Taken, Passed
<1> PICK U : U = tables[w].unique
  OBVIOUS
<1>7. Posted(w) > 0 /\ Posted(w) > 1 /\ Message(w) = U
  <2>1. Taken(w) < Posted(w) /\ Message(w) = Contents(w, Names[Taken(w) + 1])
    BY <1>4, <1>5, NextMessage
  <2>2. Message(w) = U
    BY <1>6, <2>1 DEF Contents, Names
  <2>3. Posted(w) \in Int
    BY DEF Posted
  <2> QED
    BY <1>6, <2>1, <2>2, <2>3
<1>8. pc[w] \in Early /\ pc[w] # "start"
  BY <1>4, <1>5, <1>7 DEF WorkerInv, LinesInv, Late, WorkerPCs, Early, Posted
<1>9. Before(w) = Share(w)
  <2>1. i[w] > Len(corpus) /\ i[w] \in Int
    BY <1>5, <1>7, <1>8 DEF WorkerInv, ReadInv
  <2> QED
    BY <1>4, <2>1, AllBefore
<1>10. U \in Seq(UniqueOver(WordsIn(corpus))) /\ UniquesFor(corpus, ReadOf(corpus, Dealt[w]), U)
  <2>1. Dealt[w] = Share(w)
    BY <1>4 DEF Dealt
  <2> QED
    BY <1>5, <1>8, <1>9, <2>1 DEF TableInv, TablesOver, Table
<1>11. w = 1 => Received = {} /\ idx[1] = Len(U)
  BY <1>4, <1>5, <1>6 DEF WorkerInv, SizeInv
<1>12. \E now : Gathered(corpus, Dealt, Received \union {w}, words_r', now, idx[1])
  <2>1. PICK own : Gathered(corpus, Dealt, Received, words_r, own, idx[1])
    BY <1>4 DEF DataInv, GatherInv
  <2>2. Received \in SUBSET Worker /\ w \in Worker \ Received /\ Dealt[w] \subseteq DOMAIN corpus
    BY <1>4 DEF Received, Dealt, Share
  <2>3. PICK S : S = Received
    OBVIOUS
  <2>4. \E now : Gathered(corpus, Dealt, S \union {w}, words_r \o U, now, idx[1])
    BY <1>10, <1>11, <2>1, <2>2, <2>3, GatherOne
  <2> QED
    BY <1>2, <1>7, <2>3, <2>4
<1>13. /\ strings[Root] = << >> /\ output = NoFile /\ Dealt' = Dealt
  BY <1>2, <1>4, SameDocuments DEF DataInv, GatherInv, RootPCs, Inv, RootInv
<1>14. GatherInv'
  <2>1. CASE pc'[Root] = "merge" /\ Received \union {w} = Worker
    BY <1>2, <1>12, <1>13, <2>1 DEF GatherInv, Late
  <2>2. CASE pc'[Root] = "unique_words" /\ Received' = Received \union {w}
    BY <1>2, <1>12, <1>13, <2>2 DEF GatherInv, Late
  <2> QED
    BY <1>4, <2>1, <2>2
<1> QED
  BY <1>2, <1>4, <1>14, RootData DEF DataInv

\* What the root broadcasts counts the documents with each word of the corpus.
LEMMA MergeData == ASSUME Inv, DataInv, Merge PROVE DataInv'
<1>1. PICK merged : merged = MergedOf(words_r, idx[1])
  OBVIOUS
<1>2. /\ pc[Root] = "merge" /\ pc' = [pc EXCEPT ![Root] = "TF_idx"]
      /\ tables' = [tables EXCEPT ![Root].unique = merged]
      /\ bcasts' = bcasts \o <<<<Len(merged)>>, merged>>
      /\ UNCHANGED <<corpus, i, rootVars, strings>>
  BY <1>1 DEF Merge, Goto, Broadcasts, Merged, MergedOf
<1>3. /\ pc'[Root] = "TF_idx"
      /\ \A s \in Worker : pc'[s] = pc[s] /\ tables'[s] = tables[s]
  BY <1>2, Ranks DEF Inv, Functions
<1>4. CountsFor(corpus, merged)
  <2>1. PICK own : Gathered(corpus, Dealt, Worker, words_r, own, idx[1])
    BY <1>2 DEF DataInv, GatherInv
  <2> QED
    BY <1>1, <2>1, Dealing, MergeAll
<1>5. bcasts'[3] = merged
  <2>1. PICK c, d : c = <<Len(corpus)>> /\ d = <<Len(merged)>>
    OBVIOUS
  <2>2. bcasts' = <<c>> \o <<d, merged>>
    BY <1>2, <2>1 DEF Inv, RootInv, Late
  <2> QED
    BY <2>2, ThreeElements
<1>6. strings[Root] = << >> /\ output = NoFile
  BY <1>2 DEF DataInv, GatherInv, RootPCs, Inv, RootInv
<1>7. GatherInv'
  BY <1>2, <1>3, <1>4, <1>5, <1>6 DEF GatherInv, Late, rootVars
<1> QED
  BY <1>2, <1>3, <1>7, RootData DEF DataInv, rootVars

\* The message is the lines of the worker.
LEMMA RecvStringsData == ASSUME Inv, DataInv, RecvStrings PROVE DataInv'
<1>1. PICK w : w = i[Root]
  OBVIOUS
<1>2. /\ FromEach("strings", "write")
      /\ strings' = [strings EXCEPT ![Root] = @ \o Message(w)]
      /\ UNCHANGED <<corpus, tables, rootVars, bcasts>>
  BY <1>1 DEF RecvStrings
<1>3. ReceivedOne("strings", "write", w)
  BY <1>1, <1>2, ReceivesOne
<1>4. /\ w = i[Root] /\ w \in Worker /\ pc[Root] = "strings"
      /\ \A s \in Worker : pc'[s] = pc[s] /\ i'[s] = i[s]
      /\ w \notin Received
      /\ \/ pc'[Root] = "write" /\ Received \union {w} = Worker
         \/ pc'[Root] = "strings" /\ Received' = Received \union {w}
  BY <1>3 DEF ReceivedOne
<1>5. /\ QueueInv(w) /\ Arrived(w) /\ TableInv(w) /\ pc[w] \in WorkerPCs
  BY <1>1, <1>2, <1>4 DEF FromEach, MPI_Recv, Inv, WorkerInv, DataInv
<1>6. Taken(w) = 3
  <2>1. ~(w < i[Root])
    BY <1>4 DEF Worker
  <2> QED
    BY <1>4, <2>1 DEF Taken, Passed
<1>7. Posted(w) > 3 /\ Message(w) = strings[w]
  <2>1. Taken(w) < Posted(w) /\ Message(w) = Contents(w, Names[Taken(w) + 1])
    BY <1>4, <1>5, NextMessage
  <2>2. Message(w) = strings[w]
    BY <1>6, <2>1 DEF Contents, Names
  <2> QED
    BY <1>6, <2>1, <2>2
<1>8. LinesFor(corpus, Share(w), strings[w])
  <2>1. pc[w] \in WorkerPCs \ Early
    BY <1>5, <1>7 DEF Posted, WorkerPCs, Early
  <2> QED
    BY <1>5, <2>1 DEF TableInv
<1>9. strings'[Root] = strings[Root] \o strings[w] /\ \A s \in Worker : strings'[s] = strings[s]
  BY <1>2, <1>7, Ranks DEF Inv, Functions
<1> DEFINE D == UNION {Share(s) : s \in Received}
<1>10. LinesFor(corpus, D \union Share(w), strings'[Root])
  <2>1. LinesFor(corpus, D, strings[Root])
    BY <1>4 DEF DataInv, GatherInv
  <2>2. D \intersect Share(w) = {}
    <3> SUFFICES ASSUME NEW s \in Received, NEW d, d \in Share(s), d \in Share(w) PROVE FALSE
      OBVIOUS
    <3>1. s \in Worker /\ Turn(s, d) /\ Turn(w, d)
      BY DEF Received, Share
    <3>2. s = w
      BY <1>4, <3>1, OneTurn
    <3> QED
      BY <1>4, <3>2
  <2> HIDE DEF D
  <2> QED
    BY <1>8, <1>9, <2>1, <2>2, MoreLines
<1>11. D \union Share(w) = UNION {Share(s) : s \in Received \union {w}}
  OBVIOUS
<1>12. CountsFor(corpus, bcasts[3]) /\ output = NoFile /\ \A s : Share(s)' = Share(s)
  BY <1>2, <1>4, SameDocuments DEF DataInv, GatherInv, Late, Inv, RootInv
<1>13. GatherInv'
  <2>1. CASE pc'[Root] = "write" /\ Received \union {w} = Worker
    <3>1. UNION {Share(s) : s \in Worker} = DOMAIN corpus
      <4>1. \A d \in DOMAIN corpus : \E r \in Worker : d \in Share(r)
        BY Dealing DEF Dealt
      <4> QED
        BY <4>1 DEF Share
    <3>2. LinesFor(corpus, DOMAIN corpus, strings'[Root])
      BY <1>10, <1>11, <2>1, <3>1
    <3> QED
      BY <1>2, <1>12, <2>1, <3>2 DEF GatherInv, Late, rootVars
  <2>2. CASE pc'[Root] = "strings" /\ Received' = Received \union {w}
    <3>1. UNION {Share(s) : s \in Received}' = UNION {Share(s) : s \in Received \union {w}}
      BY <1>12, <2>2
    <3> QED
      BY <1>2, <1>10, <1>11, <1>12, <2>2, <3>1 DEF GatherInv, Late, rootVars
  <2> QED
    BY <1>4, <2>1, <2>2
<1> QED
  BY <1>2, <1>4, <1>9, <1>13, RootData DEF DataInv, rootVars

\* The lines of all documents, sorted, are the defined file.
LEMMA WriteOutputData == ASSUME Inv, DataInv, WriteOutput PROVE DataInv'
<1>1. /\ pc[Root] = "write" /\ pc' = [pc EXCEPT ![Root] = "done"]
      /\ output' = <<SortedFile(strings[Root])>>
      /\ UNCHANGED <<corpus, i, tables, idx, words_r, strings, bcasts>>
  BY DEF WriteOutput, Goto
<1>2. pc'[Root] = "done" /\ \A s \in Worker : pc'[s] = pc[s]
  BY <1>1, Ranks DEF Inv, Functions
<1>3. LinesFor(corpus, DOMAIN corpus, strings[Root]) /\ CountsFor(corpus, bcasts[3])
  BY <1>1 DEF DataInv, GatherInv, Late
<1>4. AllPresent(corpus)
  BY <1>1, AllFound DEF AllThere, AllPresent, Late
<1>5. output' = <<Definition(corpus)>>
  BY <1>1, <1>3, <1>4, Dealing, FileOfLines
<1>6. GatherInv'
  BY <1>1, <1>2, <1>3, <1>5 DEF GatherInv, Late
<1> QED
  BY <1>1, <1>2, <1>6, RootData DEF DataInv

----------------------------------------------------------------------------

\* Nothing has been read.
LEMMA InitData == Init => DataInv
<1> SUFFICES ASSUME Init PROVE DataInv
  OBVIOUS
<1>1. idx \in [Worker -> Nat \union {NotSet}]
  BY DEF Init
<1>2. ASSUME NEW r \in Worker PROVE TableInv(r)
  <2>1. pc[r] = "start" /\ i[r] = 0 /\ tables[r] = NoTables
    BY Ranks DEF Init
  <2>2. Before(r) = {}
    <3>1. Len(corpus) \in Nat /\ DOMAIN corpus = 1 .. Len(corpus)
      BY TficfAssumption DEF Init
    <3>2. \A d \in Share(r) : d \in 1 .. Len(corpus)
      BY <3>1 DEF Share
    <3>3. \A d \in Share(r) : ~(d < 0)
      BY <3>1, <3>2
    <3> QED
      BY <2>1, <3>3 DEF Before
  <2>3. 0 <= Len(corpus) + numproc - 1
    BY TficfAssumption DEF Init
  <2> QED
    BY <2>1, <2>2, <2>3, EmptyTable, NoTablesType DEF TableInv, Early
<1>3. GatherInv
  <2>1. pc[Root] = "start" /\ i[Root] = 0 /\ words_r = << >> /\ strings[Root] = << >> /\ output = NoFile
    BY Ranks DEF Init
  <2> QED
    BY <2>1 DEF GatherInv, Late
<1> QED
  BY <1>1, <1>2, <1>3 DEF DataInv

\* Stuttering.
LEMMA StutterData == DataInv /\ UNCHANGED vars => DataInv'
<1> SUFFICES ASSUME DataInv, UNCHANGED vars PROVE DataInv'
  OBVIOUS
<1>1. Dealt' = Dealt /\ Received' = Received /\ \A s : Share(s)' = Share(s)
  BY SameDocuments DEF vars
<1>2. GatherInv'
  BY <1>1 DEF DataInv, GatherInv, vars, rootVars
<1> QED
  BY <1>2, RootData DEF DataInv, vars, rootVars

\* Before the merge a worker's table counts the words of the documents it has read, the
\* merge counts those of the corpus, and the lines the root has are those of the workers it
\* has received from (TFICF.c:130-330), for every number of ranks and every corpus.
THEOREM DataAgrees == Spec => []DataInv
<1>1. Inv /\ DataInv /\ [Next]_vars => DataInv'
  <2>1. ASSUME Inv, DataInv, NEW r \in Worker, WorkerStep(r) PROVE DataInv'
    BY <2>1, GetNumDocsData, ReadDocData, SendUniqueData, GetUniqueData, SendStringsData
       DEF WorkerStep
  <2>2. ASSUME Inv, DataInv, RootStep PROVE DataInv'
    BY <2>2, CountDocsData, RecvSizesData, RecvUniqueData, MergeData, RecvStringsData,
       WriteOutputData DEF RootStep
  <2> QED
    BY <2>1, <2>2, StutterData DEF Next
<1> QED
  BY <1>1, InitData, MessagesAgree, PTL DEF Spec

\* SameAsSerial: for every corpus whose pairs of a document and a word are no more than the
\* arrays have entries, which by ArraysSuffice are never overrun, the file that the root
\* writes is that of the sequential program, which is what TF-ICF is defined from, and it
\* writes none if a document is missing (TFICF.c:138).
THEOREM SameFile == Spec => []SameAsSerial
<1>1. Inv /\ DataInv => SameAsSerial
  <2> SUFFICES ASSUME Inv, DataInv, CorpusFits, output # NoFile
               PROVE  AllThere /\ output[1] = SerialFile(corpus) /\ output[1] = Definition(corpus)
    BY DEF SameAsSerial
  <2>1. AllThere
    BY AllFound DEF Inv, RootInv, Late
  <2>2. output[1] = Definition(corpus)
    BY DEF DataInv, GatherInv
  <2>3. SerialFile(corpus) = Definition(corpus)
    BY <2>1, Dealing, SerialDefinition DEF AllThere, AllPresent
  <2> QED
    BY <2>1, <2>2, <2>3
<1> QED
  BY <1>1, MessagesAgree, DataAgrees, PTL

----------------------------------------------------------------------------
(* The arrays *)

\* A text has finitely many words, and a corpus finitely many pairs.
LEMMA PairsFinite == ASSUME NEW c, GoodCorpus(c) PROVE IsFiniteSet(WordPairs(c))
<1> DEFINE D == {e \in DOMAIN c : c[e] # Absent}
           Pairs(d) == {<<w, d>> : w \in ToSet(c[d])}
           S == {Pairs(d) : d \in D}
<1>1. IsFiniteSet(D)
  <2>1. IsFiniteSet(DOMAIN c)
    BY Interval DEF GoodCorpus
  <2> QED
    BY <2>1, FS_Subset
<1>2. ASSUME NEW d \in D PROVE IsFiniteSet(Pairs(d))
  <2> DEFINE f == [k \in DOMAIN c[d] |-> <<c[d][k], d>>]
  <2>1. IsFiniteSet(DOMAIN c[d])
    BY Interval DEF GoodCorpus
  <2>2. f \in Surjection(DOMAIN c[d], Pairs(d))
    BY DEF Surjection, ToSet
  <2> HIDE DEF f, Pairs
  <2> QED
    BY <2>1, <2>2, FS_Surjection
<1>3. IsFiniteSet(S)
  <2> DEFINE g == [d \in D |-> Pairs(d)]
  <2>1. g \in Surjection(D, S)
    <3> HIDE DEF D, Pairs
    <3> QED
      BY DEF Surjection
  <2> HIDE DEF g, S, D
  <2> QED
    BY <1>1, <2>1, FS_Surjection
<1>4. IsFiniteSet(UNION S)
  <2>1. \A T \in S : IsFiniteSet(T)
    BY <1>2
  <2> HIDE DEF S
  <2> QED
    BY <1>3, <2>1, FS_UNION
<1>5. WordPairs(c) = UNION S
  BY DEF WordPairs
<1> QED
  BY <1>4, <1>5

\* So many different pairs are no more than all of them.
LEMMA PairsSuffice ==
    ASSUME NEW c, GoodCorpus(c), NEW n \in Nat, NEW f \in [1 .. n -> WordPairs(c)],
           \A j, k \in 1 .. n : f[j] = f[k] => j = k
    PROVE  n <= Cardinality(WordPairs(c))
<1>1. f \in Injection(1 .. n, WordPairs(c))
  BY DEF Injection, IsInjective
<1>2. Cardinality(1 .. n) <= Cardinality(WordPairs(c))
  BY <1>1, PairsFinite, FS_Injection
<1>3. Cardinality(1 .. n) = n
  BY FS_Interval
<1> QED
  BY <1>2, <1>3

\* A table of different words of the corpus has no more entries than there are pairs.
LEMMA UniqueSuffices ==
    ASSUME NEW c, GoodCorpus(c), NEW U \in Seq(UniqueOver(WordsIn(c))), WordsDiffer(U)
    PROVE  Len(U) <= Cardinality(WordPairs(c))
<1> DEFINE doc(w) == CHOOSE d \in DOMAIN c : c[d] # Absent /\ w \in ToSet(c[d])
           f == [j \in 1 .. Len(U) |-> <<U[j].word, doc(U[j].word)>>]
<1>1. ASSUME NEW w \in WordsIn(c) PROVE <<w, doc(w)>> \in WordPairs(c)
  <2>1. \E d \in DOMAIN c : c[d] # Absent /\ w \in ToSet(c[d])
    BY DEF WordsIn
  <2>2. doc(w) \in DOMAIN c /\ c[doc(w)] # Absent /\ w \in ToSet(c[doc(w)])
    BY <2>1
  <2> HIDE DEF doc
  <2> QED
    BY <2>2 DEF WordPairs
<1>2. ASSUME NEW j \in 1 .. Len(U) PROVE U[j].word \in WordsIn(c)
  <2>1. U[j] \in UniqueOver(WordsIn(c))
    OBVIOUS
  <2> QED
    BY <2>1 DEF UniqueOver
<1> HIDE DEF doc
<1>3. f \in [1 .. Len(U) -> WordPairs(c)]
  BY <1>1, <1>2
<1>4. \A j, k \in 1 .. Len(U) : f[j] = f[k] => j = k
  BY DEF WordsDiffer
<1>5. Len(U) \in Nat
  OBVIOUS
<1> HIDE DEF f
<1> QED
  BY <1>3, <1>4, <1>5, PairsSuffice

\* So has a table of entries, one for each pair.
LEMMA EntriesSuffice ==
    ASSUME NEW c, GoodCorpus(c), NEW X, NEW T \in Seq(X),
           \A j \in 1 .. Len(T) :
              \E d \in DOMAIN c : \E p \in 1 .. Len(c[d]) :
                 c[d] # Absent /\ T[j].word = c[d][p] /\ T[j].document = d,
           \A j, k \in 1 .. Len(T) :
              T[j].word = T[k].word /\ T[j].document = T[k].document => j = k
    PROVE  Len(T) <= Cardinality(WordPairs(c))
<1> DEFINE f == [j \in 1 .. Len(T) |-> <<T[j].word, T[j].document>>]
<1>1. ASSUME NEW j \in 1 .. Len(T) PROVE f[j] \in WordPairs(c)
  <2>1. PICK d \in DOMAIN c : \E p \in 1 .. Len(c[d]) :
           c[d] # Absent /\ T[j].word = c[d][p] /\ T[j].document = d
    OBVIOUS
  <2>2. T[j].word \in ToSet(c[d]) /\ c[d] # Absent
    BY <2>1 DEF ToSet, GoodCorpus
  <2> QED
    BY <2>1, <2>2 DEF WordPairs
<1>2. f \in [1 .. Len(T) -> WordPairs(c)]
  BY <1>1
<1>3. \A j, k \in 1 .. Len(T) : f[j] = f[k] => j = k
  OBVIOUS
<1>4. Len(T) \in Nat
  OBVIOUS
<1> HIDE DEF f
<1> QED
  BY <1>2, <1>3, <1>4, PairsSuffice

\* And so have the lines of documents that are there.
LEMMA LinesFit ==
    ASSUME Inv, CorpusFits, AllThere, NEW D \in SUBSET DOMAIN corpus, NEW s, LinesFor(corpus, D, s)
    PROVE  Fits(s)
<1>1. GoodCorpus(corpus) /\ MaxWords \in Nat /\ Cardinality(WordPairs(corpus)) \in Nat
  BY Dealing, TficfAssumption, PairsFinite, FS_CardinalityType
<1>2. /\ s \in Seq(EntryOver(WordsIn(corpus))) /\ Len(s) \in Nat
      /\ \A j \in 1 .. Len(s) :
            \E d \in D : \E p \in 1 .. Len(corpus[d]) : s[j] = LineFor(corpus, corpus[d][p], d)
      /\ \A j, k \in 1 .. Len(s) : s[j] = s[k] => j = k
  BY DEF LinesFor
<1>3. ASSUME NEW j \in 1 .. Len(s)
      PROVE  \E d \in DOMAIN corpus : \E p \in 1 .. Len(corpus[d]) :
                /\ corpus[d] # Absent /\ s[j].word = corpus[d][p] /\ s[j].document = d
                /\ s[j] = LineFor(corpus, s[j].word, s[j].document)
  <2>1. PICK d \in D : \E p \in 1 .. Len(corpus[d]) : s[j] = LineFor(corpus, corpus[d][p], d)
    BY <1>2
  <2>2. PICK p \in 1 .. Len(corpus[d]) : s[j] = LineFor(corpus, corpus[d][p], d)
    BY <2>1
  <2>3. s[j].word = corpus[d][p] /\ s[j].document = d
    BY <2>2 DEF LineFor
  <2> QED
    BY <2>2, <2>3 DEF AllThere
<1>4. \A j, k \in 1 .. Len(s) :
         s[j].word = s[k].word /\ s[j].document = s[k].document => j = k
  <2>1. \A j \in 1 .. Len(s) : s[j] = LineFor(corpus, s[j].word, s[j].document)
    BY <1>3
  <2> QED
    BY <1>2, <2>1
<1>5. Len(s) <= Cardinality(WordPairs(corpus))
  BY <1>1, <1>2, <1>3, <1>4, EntriesSuffice
<1> QED
  BY <1>1, <1>2, <1>5 DEF Fits, CorpusFits

\* Which arrays are in use: the root has no entries of its own and no words before the merge,
\* a worker no lines before it has the merged table, which has no word twice.
SpaceInv ==
    /\ tables[Root] = [TFICF |-> << >>, unique |-> tables[Root].unique]
    /\ pc[Root] \notin Late => tables[Root].unique = << >>
    /\ pc[Root] \in Late => tables[Root].unique = bcasts[3] /\ WordsDiffer(bcasts[3])
    /\ \A r \in Worker : pc[r] \in Early => strings[r] = << >>
    /\ \A r \in Worker : pc[r] \in WorkerPCs \ Early => tables[r].unique = bcasts[3]

\* A step that changes neither tables nor lines of a rank, nor what is broadcast, nor where
\* the merge is.
LEMMA SpaceKept ==
    ASSUME SpaceInv, tables'[Root] = tables[Root], pc'[Root] \in Late <=> pc[Root] \in Late,
           pc[Root] \in Late => bcasts'[3] = bcasts[3],
           \A r \in Worker : /\ pc'[r] \in Early <=> pc[r] \in Early
                             /\ pc'[r] \in WorkerPCs <=> pc[r] \in WorkerPCs
                             /\ tables'[r].unique = tables[r].unique \/ pc[r] \in Early
                             /\ strings'[r] = strings[r],
           \A r \in Worker : pc[r] \in WorkerPCs \ Early => pc[Root] \in Late
    PROVE  SpaceInv'
  BY DEF SpaceInv, WordsDiffer

\* A worker, unless it gets the merged table.
LEMMA WorkerSpace ==
    ASSUME Inv, SpaceInv, NEW r \in Worker,
           GetNumDocs(r) \/ ReadDoc(r) \/ SendUnique(r) \/ SendStrings(r)
    PROVE  SpaceInv'
<1>1. UNCHANGED <<bcasts, strings>>
  BY DEF GetNumDocs, ReadDoc, SendUnique, SendStrings
<1>2. /\ \A s \in Rank \ {r} : pc'[s] = pc[s] /\ tables'[s] = tables[s]
      /\ pc'[r] \in Early <=> pc[r] \in Early
      /\ pc'[r] \in WorkerPCs <=> pc[r] \in WorkerPCs
      /\ tables'[r] = tables[r] \/ pc[r] \in Early
  <2>1. CASE GetNumDocs(r)
    BY <2>1, Ranks DEF GetNumDocs, Goto, Early, WorkerPCs, Inv, Functions
  <2>2. CASE ReadDoc(r)
    BY <2>2, Ranks DEF ReadDoc, Goto, Early, WorkerPCs, Inv, Functions
  <2>3. CASE SendUnique(r)
    BY <2>3, Ranks DEF SendUnique, Goto, Early, WorkerPCs, Inv, Functions
  <2>4. CASE SendStrings(r)
    BY <2>4, Ranks DEF SendStrings, Goto, Early, WorkerPCs, Inv, Functions
  <2> QED
    BY <2>1, <2>2, <2>3, <2>4
<1>3. \A s \in Worker : pc[s] \in WorkerPCs \ Early => pc[Root] \in Late
  BY DEF Inv, WorkerInv, LinesInv, WorkerPCs, Early
<1> QED
  BY <1>1, <1>2, <1>3, Ranks, SpaceKept

\* It gets the table that the root has broadcast, and has its lines.
LEMMA GetUniqueSpace == ASSUME Inv, SpaceInv, NEW r \in Worker, GetUnique(r) PROVE SpaceInv'
<1> DEFINE TFICF == Populate(tables[r].TFICF, bcasts[3])
<1>1. /\ pc[r] = "unique_words" /\ pc' = [pc EXCEPT ![r] = "tficf"]
      /\ tables' = [tables EXCEPT ![r] = [TFICF |-> TFICF, unique |-> bcasts[3]]]
      /\ strings' = [strings EXCEPT ![r] = TFICF] /\ bcasts' = bcasts
  BY DEF GetUnique, Goto
<1> HIDE DEF TFICF
<1>2. /\ pc'[r] = "tficf" /\ tables'[r].unique = bcasts[3]
      /\ \A s \in Rank \ {r} : /\ pc'[s] = pc[s] /\ tables'[s] = tables[s]
                               /\ strings'[s] = strings[s]
  BY <1>1, Ranks DEF Inv, Functions
<1>3. pc'[Root] = pc[Root] /\ tables'[Root] = tables[Root]
  BY <1>2, Ranks
<1>4. \A s \in Worker : pc'[s] \in Early => strings'[s] = << >>
  BY <1>2, Ranks DEF SpaceInv, Early
<1>5. \A s \in Worker : pc'[s] \in WorkerPCs \ Early => tables'[s].unique = bcasts[3]
  BY <1>2, Ranks DEF SpaceInv
<1> QED
  BY <1>1, <1>3, <1>4, <1>5 DEF SpaceInv, WordsDiffer

\* The root, unless it merges.
LEMMA RootSpace ==
    ASSUME Inv, SpaceInv, CountDocs \/ RecvSizes \/ RecvUnique \/ RecvStrings \/ WriteOutput
    PROVE  SpaceInv'
<1>1. /\ UNCHANGED tables
      /\ \A s \in Worker : pc'[s] = pc[s] /\ strings'[s] = strings[s]
      /\ pc'[Root] \in Late <=> pc[Root] \in Late
      /\ pc[Root] \in Late => bcasts' = bcasts
  <2>1. CASE CountDocs
    BY <2>1, Ranks DEF CountDocs, Goto, Late, Inv, Functions
  <2>2. CASE RecvSizes
    BY <2>2, Ranks DEF RecvSizes, FromEach, Goto, Late, Inv, Functions
  <2>3. CASE RecvUnique
    BY <2>3, Ranks DEF RecvUnique, FromEach, Goto, Late, Inv, Functions
  <2>4. CASE RecvStrings
    BY <2>4, Ranks DEF RecvStrings, FromEach, Goto, Late, Inv, Functions
  <2>5. CASE WriteOutput
    BY <2>5, Ranks DEF WriteOutput, Goto, Late, Inv, Functions
  <2> QED
    BY <2>1, <2>2, <2>3, <2>4, <2>5
<1>2. \A s \in Worker : pc[s] \in WorkerPCs \ Early => pc[Root] \in Late
  BY DEF Inv, WorkerInv, LinesInv, WorkerPCs, Early
<1> QED
  BY <1>1, <1>2, SpaceKept

\* The merged table has no word twice.
LEMMA MergeSpace == ASSUME Inv, DataInv, SpaceInv, Merge PROVE SpaceInv'
<1>1. PICK merged : merged = MergedOf(words_r, idx[1])
  OBVIOUS
<1>2. /\ pc[Root] = "merge" /\ pc' = [pc EXCEPT ![Root] = "TF_idx"]
      /\ tables' = [tables EXCEPT ![Root].unique = merged]
      /\ bcasts' = bcasts \o <<<<Len(merged)>>, merged>>
      /\ UNCHANGED strings
  BY <1>1 DEF Merge, Goto, Broadcasts, Merged, MergedOf
<1>3. WordsDiffer(merged)
  <2>1. PICK own : Gathered(corpus, Dealt, Worker, words_r, own, idx[1])
    BY <1>2 DEF DataInv, GatherInv
  <2> QED
    BY <1>1, <2>1, Dealing, MergeAll
<1>4. bcasts'[3] = merged
  <2>1. PICK c, d : c = <<Len(corpus)>> /\ d = <<Len(merged)>>
    OBVIOUS
  <2>2. bcasts' = <<c>> \o <<d, merged>>
    BY <1>2, <2>1 DEF Inv, RootInv, Late
  <2> QED
    BY <2>2, ThreeElements
<1>5. /\ pc'[Root] \in Late
      /\ \A s \in Worker : pc'[s] = pc[s] /\ tables'[s] = tables[s] /\ strings'[s] = strings[s]
  BY <1>2, Ranks DEF Inv, Functions, Late
<1>6. \A s \in Worker : pc[s] \notin WorkerPCs \ Early
  BY <1>2 DEF Inv, WorkerInv, LinesInv, WorkerPCs, Early, Late
<1>7. tables'[Root] = [TFICF |-> << >>, unique |-> merged]
  <2>1. PICK U : tables[Root] = [TFICF |-> << >>, unique |-> U]
    BY DEF SpaceInv
  <2>2. tables'[Root] = [tables[Root] EXCEPT !.unique = merged]
    BY <1>2, Ranks DEF Inv, Functions
  <2> QED
    BY <2>1, <2>2
<1> QED
  BY <1>3, <1>4, <1>5, <1>6, <1>7 DEF SpaceInv, WordsDiffer

\* Within the arrays are the tables of the root, and those of each worker.
LEMMA RootFits ==
    ASSUME Inv, DataInv, SpaceInv, CorpusFits
    PROVE  Fits(tables[Root].TFICF) /\ Fits(tables[Root].unique) /\ Fits(strings[Root])
<1>1. GoodCorpus(corpus) /\ MaxWords \in Nat
  BY Dealing, TficfAssumption
<1>2. Len(<< >>) = 0 /\ Fits(<< >>)
  BY <1>1 DEF Fits
<1>3. tables[Root].TFICF = << >>
  BY DEF SpaceInv
<1>4. CASE pc[Root] \notin Late
  <2>1. tables[Root].unique = << >> /\ strings[Root] = << >>
    BY <1>4 DEF SpaceInv, DataInv, GatherInv, Inv, RootInv, Late
  <2> QED
    BY <1>2, <1>3, <2>1
<1>5. CASE pc[Root] \in Late
  <2>1. AllThere
    BY <1>5, AllFound
  <2>2. Len(bcasts[3]) <= Cardinality(WordPairs(corpus))
    BY <1>1, <1>5, UniqueSuffices DEF DataInv, GatherInv, CountsFor, SpaceInv
  <2>3. Fits(tables[Root].unique)
    <3>1. Len(bcasts[3]) \in Nat
      BY <1>5 DEF DataInv, GatherInv, CountsFor
    <3>2. Cardinality(WordPairs(corpus)) \in Nat
      BY <1>1, PairsFinite, FS_CardinalityType
    <3> QED
      BY <1>1, <1>5, <2>2, <3>1, <3>2 DEF SpaceInv, Fits, CorpusFits
  <2>4. strings[Root] = << >> \/ \E D \in SUBSET DOMAIN corpus : LinesFor(corpus, D, strings[Root])
    <3>1. UNION {Share(s) : s \in Received} \in SUBSET DOMAIN corpus
      BY DEF Share
    <3> QED
      BY <3>1 DEF DataInv, GatherInv, Inv, RootInv
  <2>5. Fits(strings[Root])
    BY <1>2, <2>1, <2>4, LinesFit
  <2> QED
    BY <1>2, <1>3, <2>3, <2>5
<1> QED
  BY <1>4, <1>5

LEMMA WorkerFits ==
    ASSUME Inv, DataInv, SpaceInv, CorpusFits, NEW r \in Worker
    PROVE  Fits(tables[r].TFICF) /\ Fits(tables[r].unique) /\ Fits(strings[r])
<1>1. GoodCorpus(corpus) /\ MaxWords \in Nat /\ Cardinality(WordPairs(corpus)) \in Nat
  BY Dealing, TficfAssumption, PairsFinite, FS_CardinalityType
<1>2. TableInv(r) /\ pc[r] \in WorkerPCs /\ WorkerInv(r)
  BY DEF Inv, DataInv
<1>3. CASE pc[r] \in Early
  <2>1. /\ tables[r] \in TablesOver(WordsIn(corpus))
        /\ Table(corpus, ReadOf(corpus, Before(r)), tables[r])
        /\ strings[r] = << >>
    BY <1>2, <1>3 DEF TableInv, SpaceInv
  <2>2. Len(tables[r].unique) <= Cardinality(WordPairs(corpus))
    BY <1>1, <2>1, UniqueSuffices DEF TablesOver, Table, UniquesFor, WordsDiffer
  <2>3. ASSUME NEW d \in Before(r) PROVE corpus[d] # Absent
    <3>1. d \in DOMAIN corpus /\ Turn(r, d) /\ d < i[r] /\ d \in 1 .. Len(corpus)
      BY <1>1 DEF Before, Share, GoodCorpus
    <3>2. pc[r] # "start"
      <4>1. ~(d < 0)
        BY <1>1, <3>1 DEF GoodCorpus
      <4> QED
        BY <1>2, <3>1, <4>1 DEF TableInv
    <3> QED
      BY <1>2, <3>1, <3>2 DEF WorkerInv, ReadInv
  <2>4. ASSUME NEW j \in 1 .. Len(tables[r].TFICF)
        PROVE  \E d \in DOMAIN corpus : \E p \in 1 .. Len(corpus[d]) :
                  /\ corpus[d] # Absent /\ tables[r].TFICF[j].word = corpus[d][p]
                  /\ tables[r].TFICF[j].document = d
    <3> DEFINE e == tables[r].TFICF[j]
    <3>1. e.document \in FoundIn(corpus, ReadOf(corpus, Before(r)), e.word)
      BY <2>1 DEF Table, EntriesFor
    <3>2. PICK d \in DOMAIN corpus : /\ d = e.document
             /\ \E p \in 1 .. ReadOf(corpus, Before(r))[d] : corpus[d][p] = e.word
      BY <3>1 DEF FoundIn, Places
    <3>3. d \in Before(r)
      BY <3>2 DEF ReadOf
    <3> QED
      BY <2>3, <3>2, <3>3 DEF ReadOf
  <2>5. /\ tables[r].TFICF \in Seq(EntryOver(WordsIn(corpus)))
        /\ \A j, k \in 1 .. Len(tables[r].TFICF) :
              (/\ tables[r].TFICF[j].word = tables[r].TFICF[k].word
               /\ tables[r].TFICF[j].document = tables[r].TFICF[k].document) => j = k
    BY <2>1 DEF TablesOver, Table, EntriesFor
  <2>6. Len(tables[r].TFICF) <= Cardinality(WordPairs(corpus))
    BY <1>1, <2>4, <2>5, EntriesSuffice
  <2>7. Len(tables[r].TFICF) \in Nat /\ Len(tables[r].unique) \in Nat /\ Len(<< >>) = 0
    BY <2>1 DEF TablesOver
  <2> QED
    BY <1>1, <2>1, <2>2, <2>6, <2>7 DEF Fits, CorpusFits
<1>4. CASE pc[r] \notin Early
  <2>1. /\ LinesFor(corpus, Share(r), strings[r]) /\ tables[r].unique = bcasts[3]
        /\ strings[r] = tables[r].TFICF /\ pc[Root] \in Late
    BY <1>2, <1>4 DEF TableInv, SpaceInv, WorkerInv, LinesInv, WorkerPCs, Early
  <2>2. AllThere /\ Share(r) \in SUBSET DOMAIN corpus
    BY <2>1, AllFound DEF Share
  <2>3. Fits(strings[r])
    BY <2>1, <2>2, LinesFit
  <2>4. tables[Root].unique = bcasts[3]
    BY <2>1 DEF SpaceInv
  <2> QED
    BY <2>1, <2>3, <2>4, RootFits
<1> QED
  BY <1>3, <1>4

\* ArraysHold: for every number of ranks, every size of the arrays and every corpus with no
\* more pairs of a document and a word than the arrays have entries, no array of any rank is
\* written past its end (TFICF.c:44, 48, 78, 159, 183, 251, 265, 314).
THEOREM ArraysSuffice == Spec => []ArraysHold
<1>1. Init => SpaceInv
  <2> SUFFICES ASSUME Init PROVE SpaceInv
    OBVIOUS
  <2>1. pc[Root] = "start" /\ tables[Root] = NoTables
    BY Ranks DEF Init
  <2>2. \A r \in Worker : pc[r] = "start" /\ strings[r] = << >>
    BY Ranks DEF Init
  <2> QED
    BY <2>1, <2>2 DEF SpaceInv, NoTables, Late, Early
<1>2. Inv /\ DataInv /\ SpaceInv /\ [Next]_vars => SpaceInv'
  <2>1. ASSUME Inv, SpaceInv, NEW r \in Worker, WorkerStep(r) PROVE SpaceInv'
    BY <2>1, WorkerSpace, GetUniqueSpace DEF WorkerStep
  <2>2. ASSUME Inv, DataInv, SpaceInv, RootStep PROVE SpaceInv'
    BY <2>2, RootSpace, MergeSpace DEF RootStep
  <2>3. ASSUME SpaceInv, UNCHANGED vars PROVE SpaceInv'
    BY <2>3 DEF SpaceInv, WordsDiffer, vars
  <2> QED
    BY <2>1, <2>2, <2>3 DEF Next
<1>3. Inv /\ DataInv /\ SpaceInv => ArraysHold
  <2>1. \A r \in Rank : r = Root \/ r \in Worker
    BY TficfAssumption DEF Rank, Worker, Root
  <2> QED
    BY <2>1, RootFits, WorkerFits DEF ArraysHold, Overrun
<1> QED
  BY <1>1, <1>2, <1>3, MessagesAgree, DataAgrees, PTL DEF Spec

\* TypeOK: the ranks are where their programs have a place, the sizes the root has received
\* are numbers, and it broadcasts one value or all three.
THEOREM TypeCorrect == Spec => []TypeOK
<1>1. Inv /\ DataInv => TypeOK
  <2> SUFFICES ASSUME Inv, DataInv PROVE TypeOK
    OBVIOUS
  <2>1. Rank = Worker \union {Root} /\ numproc \in Nat /\ numproc > 1 /\ Worker = 1 .. numproc - 1
        /\ Root = 0 /\ Len(corpus) \in Nat
    BY TficfAssumption DEF Rank, Worker, Root, Inv
  <2>2. i[Root] \in 0 .. numproc - 1
    BY <2>1 DEF Inv, RootInv, DataInv, GatherInv
  <2>3. pc \in [Rank -> {"start", "read", "exited", "uw_idx", "unique_words", "merge",
                         "tficf", "TF_idx", "strings", "write", "done"}]
    <3>1. \A r \in Worker : pc[r] \in WorkerPCs
      BY DEF Inv
    <3>2. pc[Root] \in RootPCs /\ pc = [r \in Rank |-> pc[r]]
      BY DEF Inv, RootInv, Functions
    <3> QED
      BY <2>1, <3>1, <3>2 DEF WorkerPCs, RootPCs
  <2>4. ASSUME NEW r \in Worker PROVE i[r] \in 0 .. Len(corpus) + numproc
    <3>1. i[r] \in Nat
      BY DEF Inv, WorkerInv, ReadInv, DataInv, TableInv
    <3>2. i[r] <= Len(corpus) + numproc - 1
      BY DEF DataInv, TableInv
    <3> QED
      BY <2>1, <3>1, <3>2
  <2>5. i \in [Rank -> 0 .. Len(corpus) + numproc]
    <3>1. i[Root] \in 0 .. Len(corpus) + numproc
      BY <2>1, <2>2
    <3>2. i = [r \in Rank |-> i[r]]
      BY DEF Inv, Functions
    <3> QED
      BY <2>1, <2>4, <3>1, <3>2
  <2>6. DOMAIN tables = Rank /\ DOMAIN strings = Rank
    BY DEF Inv, Functions
  <2>7. Len(bcasts) \in {0, 1, 3}
    <3>1. PICK a, b, c : a = <<Len(corpus)>> /\ b = bcasts[2] /\ c = bcasts[3]
      OBVIOUS
    <3>2. bcasts = << >> \/ bcasts = <<a>> \/ bcasts = <<a, b, c>>
      BY <3>1 DEF Inv, RootInv
    <3> QED
      BY <3>2
  <2>8. Len(output) <= 1
    <3>1. PICK f : f = Definition(corpus)
      OBVIOUS
    <3>2. output = << >> \/ output = <<f>>
      BY <3>1 DEF DataInv, GatherInv, NoFile
    <3>3. Len(<< >>) = 0 /\ Len(<<f>>) = 1
      OBVIOUS
    <3>4. CASE output = << >>
      BY <3>3, <3>4
    <3>5. CASE output = <<f>>
      BY <3>3, <3>5
    <3> QED
      BY <3>2, <3>4, <3>5
  <2> QED
    BY <2>2, <2>3, <2>5, <2>6, <2>7, <2>8 DEF TypeOK, DataInv
<1> QED
  BY <1>1, MessagesAgree, DataAgrees, PTL

\* While Hadoop or Spark runs nothing of the MPI program changes, so that the theorems
\* above hold of the three programs together.
THEOREM MpiProgram == ProgramsSpec => Spec
<1>1. ProgramsInit => Init
  BY DEF ProgramsInit
<1>2. [ProgramsNext]_allVars => [Next]_vars
  BY DEF ProgramsNext, allVars, Mpi, OnHadoop, JobFails, OnSpark
<1> QED
  BY <1>1, <1>2, PTL DEF ProgramsSpec, Spec
=============================================================================
