---------------------------- MODULE MCScheduler ----------------------------
(***************************************************************************)
(* The scheduler over trees of the program's own shape: the nodes are the  *)
(* positions of the tree that module Tree makes for a small size.          *)
(***************************************************************************)
EXTENDS Scheduler

CONSTANTS MCPieceSpan, MCChainBits, MCSize

T == INSTANCE Tree WITH PieceSpan <- MCPieceSpan, ChainBits <- MCChainBits,
                        MaxSize <- MCSize, size <- MCSize, cursor <- << >>

\* The node of Tree at the end of a path of turns.
At[p \in UNION {[1 .. k -> {0, 1}] : k \in 0 .. 4}] ==
    IF p = << >> THEN T!Root(MCSize)
    ELSE T!NodeExpand(At[SubSeq(p, 1, Len(p) - 1)], p[Len(p)])

\* Size 5: a chain of two leaves, fused as a span, and a third.
MCNode5 == {<< >>, <<0>>, <<1>>, <<0, 0>>, <<0, 1>>}

\* Size 9: a chain of two chunks of two leaves, fused as a span, and a partial
\* chunk of one leaf.
MCNode9 == MCNode5 \cup {<<0, 0, 0>>, <<0, 0, 1>>, <<0, 1, 0>>, <<0, 1, 1>>}

\* The positions are exactly those of the tree that Tree makes.
ASSUME ShapeAssumption ==
    \A n \in Node, i \in {0, 1} :
        Append(n, i) \in Node <=> ~T!NodeIsLeaf(At[n])

Leaves(n) == At[n].remainder \div 2^MCPieceSpan

\* A wider join costs more memory, so does one later in the series, whose numbers
\* are longer, and so does every thread it runs on.
MCJoinCost ==
    [n \in Node |-> [t \in 1 .. NProcess |->
        LET leaves == Leaves(n)
            before == At[n].i_0 \div 2^MCPieceSpan
        IN  leaves + 2 * (leaves \div 4) + before \div 2 + 2 * t]]
MCJoinCeiling == [n \in Node |-> Leaves(n)]

\* Pieces kept for other runs, and the ones another run left.
MCKept == {n \in Node : NodeIsLeaf(n)}
MCShared == {<<0, 0>>, <<1>>}

=============================================================================
