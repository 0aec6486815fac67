-------------------------------- MODULE RbTree --------------------------------
(***************************************************************************)
(* The left-leaning 2-3 red-black trees of include/jemalloc/internal/rb.h, *)
(* which hold the allocator's runs, extents and huge blocks.  A tree is    *)
(* Nil or a record; following the path array back up is the return from a  *)
(* recursion.                                                              *)
(***************************************************************************)
EXTENDS Integers, Sequences

Nil == << >>

\* rbt_node_new: a node without children, red.
NewNode(k) == [left |-> Nil, key |-> k, right |-> Nil, red |-> TRUE]

Red(t)     == t # Nil /\ t.red
Blacken(t) == IF t = Nil THEN t ELSE [t EXCEPT !.red = FALSE]

\* The rotations move no colour.
RotateLeft(t) ==
    [t.right EXCEPT !.left = [t EXCEPT !.right = t.right.left]]
RotateRight(t) ==
    [t.left EXCEPT !.right = [t EXCEPT !.left = t.left.right]]

----------------------------------------------------------------------------
(* insert                                                                  *)

\* Back from the left child: two red links in a row are a 4-node.
AfterLeft(t) ==
    IF Red(t.left) /\ Red(t.left.left)
      THEN RotateRight([t EXCEPT !.left.left.red = FALSE])
      ELSE t

\* Mutant: the link keeps leaning right.
AfterRight_lean(t) ==
    IF Red(t.right) /\ Red(t.left)
      THEN [t EXCEPT !.left.red = FALSE, !.right.red = FALSE, !.red = TRUE]
      ELSE t

\* Back from the right child: a 4-node is split, a red link is leaned left.
AfterRight(t) ==
    IF ~Red(t.right)
      THEN t
      ELSE IF Red(t.left)
             THEN [t EXCEPT !.left.red = FALSE, !.right.red = FALSE, !.red = TRUE]
             ELSE [RotateLeft([t EXCEPT !.red = TRUE]) EXCEPT !.red = t.red]

RECURSIVE Wind(_, _)
Wind(t, k) ==
    IF t = Nil THEN NewNode(k)
    ELSE IF k < t.key THEN AfterLeft([t EXCEPT !.left = Wind(t.left, k)])
    ELSE AfterRight([t EXCEPT !.right = Wind(t.right, k)])

TreeInsert(t, k) == Blacken(Wind(t, k))

----------------------------------------------------------------------------
(* remove.  short says that the black height of the subtree is one less    *)
(* than before, so that the loop of lines 618-853 goes on.                 *)

Balanced(t) == [tree |-> t, short |-> FALSE]
Short(t)    == [tree |-> t, short |-> TRUE]

\* The left child has become short (lines 620-716).
MendLeft(t) ==
    LET lean == [t EXCEPT !.right = RotateRight(t.right)]
    IN IF Red(t)
         THEN IF Red(t.right.left)
                THEN Balanced(RotateLeft([lean EXCEPT !.red = FALSE]))
                ELSE Balanced(RotateLeft(t))
         ELSE IF Red(t.right.left)
                THEN Balanced(RotateLeft([lean EXCEPT !.right.red = FALSE]))
                ELSE Short(RotateLeft([t EXCEPT !.red = TRUE]))

\* The right child has become short and the left one is red (lines 722-774).
MendRightOfRed(t) ==
    IF Red(t.left.right.left)
      THEN LET top == RotateRight([t EXCEPT !.left.right.left.red = FALSE])
           IN Balanced(RotateLeft([top EXCEPT !.right = RotateRight(top.right)]))
      ELSE Balanced(Blacken(RotateRight([t EXCEPT !.left.right.red = TRUE])))

\* The right child has become short (lines 717-852).
MendRight(t) ==
    IF Red(t.left) THEN MendRightOfRed(t)
    ELSE IF Red(t)
      THEN IF Red(t.left.left)
             THEN Balanced(RotateRight([t EXCEPT !.red = FALSE, !.left.red = TRUE,
                                                 !.left.left.red = FALSE]))
             ELSE Balanced([t EXCEPT !.red = FALSE, !.left.red = TRUE])
      ELSE IF Red(t.left.left)
             THEN Balanced(RotateRight([t EXCEPT !.left.left.red = FALSE]))
             ELSE Short([t EXCEPT !.left.red = TRUE])

RECURSIVE FirstNode(_), LastNode(_)
FirstNode(t) == IF t.left = Nil THEN t.key ELSE FirstNode(t.left)
LastNode(t)  == IF t.right = Nil THEN t.key ELSE LastNode(t.right)

OnLeft(t, d) ==
    LET u == [t EXCEPT !.left = d.tree] IN IF d.short THEN MendLeft(u) ELSE Balanced(u)
OnRight(t, d) ==
    LET u == [t EXCEPT !.right = d.tree] IN IF d.short THEN MendRight(u) ELSE Balanced(u)

\* The node is swapped with its successor, which takes its colour, and the
\* leaf is pruned; without a successor its red left child replaces it.
RECURSIVE Prune(_, _)
Prune(t, k) ==
    IF k < t.key THEN OnLeft(t, Prune(t.left, k))
    ELSE IF k > t.key THEN OnRight(t, Prune(t.right, k))
    ELSE IF t.right # Nil
      THEN LET successor == FirstNode(t.right)
           IN OnRight([t EXCEPT !.key = successor], Prune(t.right, successor))
    ELSE IF t.left # Nil THEN Balanced(Blacken(t.left))
    ELSE IF Red(t) THEN Balanced(Nil)
    ELSE Short(Nil)

TreeRemove(t, k) == Prune(t, k).tree

----------------------------------------------------------------------------
(* Searches: none stands for NULL.                                         *)

none == -1

First(t) == IF t = Nil THEN none ELSE FirstNode(t)
Last(t)  == IF t = Nil THEN none ELSE LastNode(t)

RECURSIVE Search(_, _), Nsearch(_, _, _), Psearch(_, _, _), Subtree(_, _)
Search(t, k) ==
    IF t = Nil THEN none
    ELSE IF k = t.key THEN k
    ELSE Search(IF k < t.key THEN t.left ELSE t.right, k)

\* ret is the best node met on the way down.
Nsearch(t, k, ret) ==
    IF t = Nil THEN ret
    ELSE IF k = t.key THEN k
    ELSE IF k < t.key THEN Nsearch(t.left, k, t.key) ELSE Nsearch(t.right, k, ret)
Psearch(t, k, ret) ==
    IF t = Nil THEN ret
    ELSE IF k = t.key THEN k
    ELSE IF k < t.key THEN Psearch(t.left, k, ret) ELSE Psearch(t.right, k, t.key)

Subtree(t, k) ==
    IF k = t.key THEN t ELSE Subtree(IF k < t.key THEN t.left ELSE t.right, k)

\* The node after k: the first of its right subtree, or the last node of the
\* path from the root at which the path went left.
RECURSIVE LastLeftTurn(_, _, _), LastRightTurn(_, _, _)
LastLeftTurn(t, k, ret) ==
    IF k = t.key THEN ret
    ELSE IF k < t.key THEN LastLeftTurn(t.left, k, t.key)
    ELSE LastLeftTurn(t.right, k, ret)
LastRightTurn(t, k, ret) ==
    IF k = t.key THEN ret
    ELSE IF k < t.key THEN LastRightTurn(t.left, k, ret)
    ELSE LastRightTurn(t.right, k, t.key)

NextNode(t, k) ==
    LET right == Subtree(t, k).right
    IN IF right # Nil THEN First(right) ELSE LastLeftTurn(t, k, none)
PrevNode(t, k) ==
    LET left == Subtree(t, k).left
    IN IF left # Nil THEN Last(left) ELSE LastRightTurn(t, k, none)

\* iter and reverse_iter with a callback that never stops them: the nodes in
\* the order of the calls, all of them or those from start on.
RECURSIVE Iter(_), IterFrom(_, _), ReverseIter(_), ReverseIterFrom(_, _)
Iter(t) == IF t = Nil THEN << >> ELSE Iter(t.left) \o <<t.key>> \o Iter(t.right)
IterFrom(t, start) ==
    IF start < t.key THEN IterFrom(t.left, start) \o <<t.key>> \o Iter(t.right)
    ELSE IF start > t.key THEN IterFrom(t.right, start)
    ELSE <<t.key>> \o Iter(t.right)
ReverseIter(t) ==
    IF t = Nil THEN << >>
    ELSE ReverseIter(t.right) \o <<t.key>> \o ReverseIter(t.left)
ReverseIterFrom(t, start) ==
    IF start > t.key
      THEN ReverseIterFrom(t.right, start) \o <<t.key>> \o ReverseIter(t.left)
    ELSE IF start < t.key THEN ReverseIterFrom(t.left, start)
    ELSE <<t.key>> \o ReverseIter(t.left)

----------------------------------------------------------------------------
(* What a tree has to be.                                                  *)

RECURSIVE TreeKeys(_), BlackHeight(_), TwoThree(_)
TreeKeys(t) == IF t = Nil THEN {} ELSE TreeKeys(t.left) \cup {t.key} \cup TreeKeys(t.right)
BlackHeight(t) ==
    IF t = Nil THEN 0 ELSE BlackHeight(t.left) + (IF t.red THEN 0 ELSE 1)

\* In order, red links lean left and never follow each other, and every way
\* down has as many black nodes.
TwoThree(t) ==
    \/ t = Nil
    \/ /\ \A k \in TreeKeys(t.left) : k < t.key
       /\ \A k \in TreeKeys(t.right) : k > t.key
       /\ ~Red(t.right)
       /\ ~(t.red /\ Red(t.left))
       /\ BlackHeight(t.left) = BlackHeight(t.right)
       /\ TwoThree(t.left)
       /\ TwoThree(t.right)
============================================================================
