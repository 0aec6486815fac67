------------------------------ MODULE MpiPt2pt ------------------------------
(***************************************************************************)
(* The MPI library the homework programs link against, as far as they use  *)
(* it: messages with an explicit source, destination and tag.  A message   *)
(* of at most Eager values is copied when it is sent; a longer one is read *)
(* from the sender's buffer when the transfer takes place, and only then   *)
(* is the send complete.  Messages of one sender to one receiver with the  *)
(* same tag do not overtake each other.                                    *)
(***************************************************************************)
EXTENDS Integers, SequencesExt

VARIABLES
    sends,  \* sends[<<s, d>>]: messages of s to d that are not transferred
    recvs   \* recvs[<<s, d>>]: receives posted by d for s, not completed

Idle(procs) == [c \in procs \X procs |-> << >>]

\* from: the sender's buffer; copied: whether data holds its contents.
Post(s, d, tag, from, contents, eager) ==
    LET copied == Len(contents) <= eager
    IN  sends' = [sends EXCEPT ![<<s, d>>] = Append(@,
                    [tag |-> tag, from |-> from, copied |-> copied,
                     data |-> IF copied THEN contents ELSE << >>])]

\* A send is complete when its message is copied or transferred.
SendDone(s, d, from) ==
    \A k \in DOMAIN sends[<<s, d>>] :
        sends[<<s, d>>][k].from = from => sends[<<s, d>>][k].copied

RecvDone(s, d, into) ==
    \A k \in DOMAIN recvs[<<s, d>>] : recvs[<<s, d>>][k].into # into

\* The j-th send and the k-th receive of the pair are the next to match.
Match(s, d, j, k) ==
    LET tag == recvs[<<s, d>>][k].tag
    IN  /\ j = SelectInSeq(sends[<<s, d>>], LAMBDA m : m.tag = tag)
        /\ k = SelectInSeq(recvs[<<s, d>>], LAMBDA m : m.tag = tag)

Complete(s, d, j, k) ==
    /\ sends' = [sends EXCEPT ![<<s, d>>] = RemoveAt(@, j)]
    /\ recvs' = [recvs EXCEPT ![<<s, d>>] = RemoveAt(@, k)]
============================================================================
