------------------------------- MODULE MCTficf -------------------------------
(***************************************************************************)
(* Documents over two words, one of them empty, one with a word twice, and *)
(* one that is not there.  Token 3 is word 1 in another spelling, 4 is not *)
(* a word for the Hadoop program.  The arrays have five entries, which     *)
(* some of the corpora Three fill; three documents of two words are too    *)
(* many for the root, and the last corpus is too large for a worker.       *)
(***************************************************************************)
EXTENDS TficfPrograms

Texts == {<<>>, <<1>>, <<2, 1, 2>>}
Three == {c \in [1 .. 3 -> Texts] : \E d \in 1 .. 3 : \A e \in 1 .. 3 \ {d} : c[e] = <<2, 1, 2>>}
Some  == Three \union UNION {[1 .. k -> Texts] : k \in 0 .. 2}
MCCorpora == Some \union {[c EXCEPT ![Len(c)] = Absent] : c \in Some \ {<<>>}}
                  \union {<<<<1, 2>>, <<2>>, <<1>>, <<3, 1>>>>, <<<<4, 1, 3, 1>>, <<3, 2>>>>}
                  \union {<<<<1, 2, 3, 4, 5, 6>>>>}

MCClean == [token \in 1 .. 6 |-> CASE token = 3 -> 1 [] token = 4 -> Dropped [] OTHER -> token]
==============================================================================
