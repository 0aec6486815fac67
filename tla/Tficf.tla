-------------------------------- MODULE Tficf --------------------------------
(***************************************************************************)
(* The parallel TF-ICF program hw6/p1/TFICF/TFICF.c.  The root counts the  *)
(* documents; every other rank reads its share of them and sends the root  *)
(* its table of words; the root merges the tables and broadcasts them, and *)
(* collects and sorts the lines of the workers.                            *)
(*                                                                         *)
(* MPI_Bcast: the k-th broadcast of a rank returns the k-th value the root *)
(* gave to it; the root does not wait for the others.                      *)
(***************************************************************************)
EXTENDS TficfTables, MpiPt2pt

CONSTANTS
    numproc,
    Corpora,   \* contents of the input directory that are considered
    Eager      \* entries in a message the library copies

ASSUME TficfAssumption ==
    /\ numproc \in Nat /\ numproc > 1 /\ Eager \in Nat /\ MaxWords \in Nat
    /\ \A c \in Corpora :
          /\ Len(c) \in Nat /\ DOMAIN c = 1 .. Len(c)
          /\ \A d \in DOMAIN c :
                c[d] # Absent => Len(c[d]) \in Nat /\ DOMAIN c[d] = 1 .. Len(c[d])

Root   == 0
Rank   == 0 .. numproc - 1
Worker == 1 .. numproc - 1

VARIABLES
    corpus,   \* the documents
    pc,
    i,        \* the document a worker reads; the worker the root receives from
    tables,   \* tables[r]: TFICF and unique_words of rank r
    idx,      \* what the root has received: sizes of tables ...
    words_r,  \* ... and entries of unique_words
    strings,  \* strings[r]
    bcasts,   \* what the root has broadcast
    output    \* output.txt

rootVars == <<idx, words_r, output>>
vars == <<corpus, pc, i, tables, rootVars, strings, bcasts, sends, recvs>>

NoFile == <<>>

\* An array has been written past its end, as TFICF.c does on the stack of main without
\* looking: what the program does from then on is not defined, and the model stops.
Overrun ==
    \E r \in Rank : ~Fits(tables[r].TFICF) \/ ~Fits(tables[r].unique) \/ ~Fits(strings[r])

Goto(r, from, to) == pc[r] = from /\ pc' = [pc EXCEPT ![r] = to]

\* The buffers a worker sends from.
Contents(r, b) ==
    CASE b = "uw_idx"       -> <<Len(tables[r].unique)>>
      [] b = "unique_words" -> tables[r].unique
      [] b = "TF_idx"       -> <<Len(tables[r].TFICF)>>
      [] b = "strings"      -> strings[r]

\* mutant: the size of the other table is sent (TFICF.c:194 has it as a comment)
Sent_TF_idx(r, b) == Contents(r, IF b = "uw_idx" THEN "TF_idx" ELSE b)
Sent(r, b) == Contents(r, b)

\* MPI_Send(b, ..., 0, rank, ...) returns when the message is copied or received.
MPI_Send(r, b) == Post(r, Root, r, b, Sent(r, b), Eager) /\ UNCHANGED recvs
MPI_Sent(r, b) == SendDone(r, Root, b)

\* The next message of rank r for the root, and MPI_Recv of it: all have the tag r.
Arrived(r) == sends[<<r, Root>>] # << >>
Message(r) ==
    LET m == Head(sends[<<r, Root>>]) IN IF m.copied THEN m.data ELSE Sent(r, m.from)
MPI_Recv(r) ==
    /\ Arrived(r)
    /\ sends' = [sends EXCEPT ![<<r, Root>>] = Tail(@)]
    /\ UNCHANGED recvs

----------------------------------------------------------------------------
(* A worker.  *)

GetNumDocs(r) ==
    /\ Goto(r, "start", "read")
    /\ Len(bcasts) >= 1
    /\ i' = [i EXCEPT ![r] = r]
    /\ UNCHANGED <<corpus, tables, rootVars, strings, bcasts, sends, recvs>>

ReadDoc(r) ==
    /\ pc[r] = "read" /\ i[r] <= bcasts[1][1]
    /\ IF corpus[i[r]] = Absent
       THEN Goto(r, "read", "exited") /\ UNCHANGED <<i, tables>>
       ELSE /\ Goto(r, "read", "read")
            /\ i' = [i EXCEPT ![r] = @ + numproc - 1]
            /\ tables' = [tables EXCEPT ![r] =
                             ReadDocument(@, i[r], corpus[i[r]], bcasts[1][1])]
    /\ UNCHANGED <<corpus, rootVars, strings, bcasts, sends, recvs>>

\* mutant: an empty table is not sent
SendUnique_some(r) ==
    /\ \/ Goto(r, "read", "uw_idx") /\ i[r] > bcasts[1][1] /\ MPI_Send(r, "uw_idx")
       \/ /\ Goto(r, "uw_idx", "unique_words") /\ MPI_Sent(r, "uw_idx")
          /\ IF tables[r].unique = << >> THEN UNCHANGED <<sends, recvs>>
             ELSE MPI_Send(r, "unique_words")
    /\ UNCHANGED <<corpus, i, tables, rootVars, strings, bcasts>>

SendUnique(r) ==
    /\ \/ Goto(r, "read", "uw_idx") /\ i[r] > bcasts[1][1] /\ MPI_Send(r, "uw_idx")
       \/ Goto(r, "uw_idx", "unique_words") /\ MPI_Sent(r, "uw_idx") /\ MPI_Send(r, "unique_words")
    /\ UNCHANGED <<corpus, i, tables, rootVars, strings, bcasts>>

\* The merged table replaces the worker's own, and the lines are made from it.
GetUnique(r) ==
    /\ Goto(r, "unique_words", "tficf")
    /\ MPI_Sent(r, "unique_words")
    /\ Len(bcasts) = 3
    /\ LET TFICF == Populate(tables[r].TFICF, bcasts[3])
       IN  /\ tables' = [tables EXCEPT ![r] = [TFICF |-> TFICF, unique |-> bcasts[3]]]
           /\ strings' = [strings EXCEPT ![r] = TFICF]
    /\ UNCHANGED <<corpus, i, rootVars, bcasts, sends, recvs>>

SendStrings(r) ==
    /\ \/ Goto(r, "tficf", "TF_idx") /\ MPI_Send(r, "TF_idx")
       \/ Goto(r, "TF_idx", "strings") /\ MPI_Sent(r, "TF_idx") /\ MPI_Send(r, "strings")
       \/ Goto(r, "strings", "done") /\ MPI_Sent(r, "strings") /\ UNCHANGED <<sends, recvs>>
    /\ UNCHANGED <<corpus, i, tables, rootVars, strings, bcasts>>

----------------------------------------------------------------------------
(* The root.  *)

CountDocs ==
    /\ Goto(Root, "start", "uw_idx")
    /\ bcasts' = Append(bcasts, <<Len(corpus)>>)
    /\ i' = [i EXCEPT ![Root] = 1]
    /\ UNCHANGED <<corpus, tables, rootVars, strings, sends, recvs>>

\* for(i=1;i<numproc;i++) MPI_Recv(..., i, i, ...)
FromEach(phase, after) ==
    /\ pc[Root] = phase /\ MPI_Recv(i[Root])
    /\ IF i[Root] = numproc - 1
       THEN Goto(Root, phase, after) /\ i' = [i EXCEPT ![Root] = 1]
       ELSE Goto(Root, phase, phase) /\ i' = [i EXCEPT ![Root] = @ + 1]

RecvSizes ==
    /\ FromEach("uw_idx", "unique_words") \/ FromEach("TF_idx", "strings")
    /\ idx' = [idx EXCEPT ![i[Root]] = Message(i[Root])[1]]
    /\ UNCHANGED <<corpus, tables, words_r, output, strings, bcasts>>

RecvUnique ==
    /\ FromEach("unique_words", "merge")
    /\ words_r' = words_r \o Message(i[Root])
    /\ UNCHANGED <<corpus, tables, idx, output, strings, bcasts>>

\* mutant: a later table's count replaces the earlier ones
MergeWord_replace(unique_words, u) ==
    LET k == SelectInSeq(unique_words, LAMBDA v : v.word = u.word)
    IN  IF k = 0 THEN Append(unique_words, u)
        ELSE [unique_words EXCEPT ![k].numDocsWithWord = u.numDocsWithWord]

MergeWord(unique_words, u) ==
    LET k == SelectInSeq(unique_words, LAMBDA v : v.word = u.word)
    IN  IF k = 0 THEN Append(unique_words, u)
        ELSE [unique_words EXCEPT ![k].numDocsWithWord = @ + u.numDocsWithWord]

\* The first worker's table is copied, the others are merged into it.
Merged ==
    FoldLeft(MergeWord, SubSeq(words_r, 1, idx[1]),
             SubSeq(words_r, idx[1] + 1, Len(words_r)))

\* mutant: the size of the merged table is not broadcast
Broadcasts_tableOnly(merged) == <<merged>>
Broadcasts(merged) == <<<<Len(merged)>>, merged>>

Merge ==
    LET merged == Merged
    IN  /\ Goto(Root, "merge", "TF_idx")
        /\ tables' = [tables EXCEPT ![Root].unique = merged]
        /\ bcasts' = bcasts \o Broadcasts(merged)
        /\ UNCHANGED <<corpus, i, rootVars, strings, sends, recvs>>

RecvStrings ==
    /\ FromEach("strings", "write")
    /\ strings' = [strings EXCEPT ![Root] = @ \o Message(i[Root])]
    /\ UNCHANGED <<corpus, tables, rootVars, bcasts>>

WriteOutput ==
    /\ Goto(Root, "write", "done")
    /\ output' = <<SortedFile(strings[Root])>>
    /\ UNCHANGED <<corpus, i, tables, idx, words_r, strings, bcasts, sends, recvs>>

----------------------------------------------------------------------------

Init ==
    /\ corpus \in Corpora
    /\ pc = [r \in Rank |-> "start"]
    /\ i = [r \in Rank |-> 0]
    /\ tables = [r \in Rank |-> NoTables]
    /\ idx = [r \in Worker |-> NotSet]
    /\ words_r = << >>
    /\ strings = [r \in Rank |-> << >>]
    /\ bcasts = << >>
    /\ output = NoFile
    /\ sends = Idle(Rank) /\ recvs = Idle(Rank)

WorkerStep(r) ==
    /\ ~Overrun
    /\ GetNumDocs(r) \/ ReadDoc(r) \/ SendUnique(r) \/ GetUnique(r) \/ SendStrings(r)

RootStep ==
    /\ ~Overrun
    /\ CountDocs \/ RecvSizes \/ RecvUnique \/ Merge \/ RecvStrings \/ WriteOutput

Next == RootStep \/ \E r \in Worker : WorkerStep(r)

Spec == Init /\ [][Next]_vars

\* Every rank runs.
FairSpec == Spec /\ WF_vars(RootStep) /\ \A r \in Worker : WF_vars(WorkerStep(r))

(* ------------------------------ properties ---------------------------- *)

AllThere == \A d \in DOMAIN corpus : corpus[d] # Absent

\* The corpus is one for which the arrays of the sequential program suffice.
CorpusFits == Cardinality(WordPairs(corpus)) <= MaxWords

\* Types of the state of TFICF.c.
TypeOK ==
    /\ pc \in [Rank -> {"start", "read", "exited", "uw_idx", "unique_words", "merge",
                        "tficf", "TF_idx", "strings", "write", "done"}]
    /\ i \in [Rank -> 0 .. Len(corpus) + numproc]
    /\ i[Root] \in 0 .. numproc - 1
    /\ DOMAIN tables = Rank /\ DOMAIN strings = Rank
    /\ idx \in [Worker -> Nat \union {NotSet}]
    /\ Len(bcasts) \in {0, 1, 3}
    /\ Len(output) <= 1

\* If the corpus is small enough, what the program writes is the sequential program's file,
\* whichever ranks the words of a document went through, and that is what TF-ICF is defined
\* from; it writes nothing, if a document is missing (TFICF.c:138).
SameAsSerial ==
    CorpusFits /\ output # NoFile =>
        AllThere /\ output[1] = SerialFile(corpus) /\ output[1] = Definition(corpus)

\* No array of any rank is written past its end, neither by a worker that reads (TFICF.c:159,
\* 183) nor by the merge (251), the broadcast (265) or the lines the root receives (314), if
\* the corpus has no more pairs of a document and a word than an array has entries.
ArraysHold == CorpusFits => ~Overrun

\* The same for the name of the limit, MAX_WORDS_IN_CORPUS (TFICF.c:8, 44): a corpus with
\* that many words.
WordsSuffice == Cardinality({p[1] : p \in WordPairs(corpus)}) <= MaxWords => ~Overrun

\* The root takes a size for a size and a table for a table, although a worker sends
\* both with the same tag, and the size it has is that of the table (TFICF.c:208, 218).
SizesBeforeTables ==
    LET w == i[Root]
        m == Head(sends[<<w, Root>>])
    IN  pc[Root] \in {"uw_idx", "unique_words", "TF_idx", "strings"} /\ Arrived(w) =>
            /\ m.from = pc[Root]
            /\ pc[Root] \in {"unique_words", "strings"} => Len(Message(w)) = idx[w]

\* Every rank has ended; or a worker exited, after which the root waits for ever in MPI_Recv
\* unless mpirun ends it; or the corpus is too large.
Ended ==
    \/ \A r \in Rank : pc[r] = "done"
    \/ \E r \in Worker : pc[r] = "exited"
    \/ ~CorpusFits
==============================================================================
