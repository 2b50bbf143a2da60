---------------------------- MODULE ResultCache ----------------------------
(***************************************************************************)
(* What the cache directory of a run promises, whatever computes it: a     *)
(* node's result appears only while the results of both its children are   *)
(* there to be joined, a child's result goes only once its parent's is     *)
(* there to replace it, and in the end the root's result is there.  Nodes  *)
(* are the positions of a binary tree, sequences of turns from the root.   *)
(***************************************************************************)
EXTENDS Naturals, Sequences

CONSTANTS
    Node,       \* the positions of the tree's nodes
    Shared      \* those whose results another run may have left behind

VARIABLE stored     \* the nodes whose complete result is in the cache

Root == << >>

Kids(n) == {Append(n, 0), Append(n, 1)} \cap Node

Parent(n) == SubSeq(n, 1, Len(n) - 1)

Init == stored \in SUBSET Shared

\* A leaf is evaluated, or a join of two results is committed.
Store(n) ==
    /\ n \notin stored
    /\ Kids(n) \subseteq stored
    /\ stored' = stored \cup {n}

\* A join that is committed covers its children's ranges.
Drop(n) ==
    /\ n # Root
    /\ n \in stored
    /\ Parent(n) \in stored
    /\ stored' = stored \ {n}

Next == \E n \in Node : Store(n) \/ Drop(n)

Safety == Init /\ [][Next]_stored

\* The promise of progress is on the result, not on any step towards it.
Spec == Safety /\ <>[](Root \in stored)

=============================================================================
