------------------------------- MODULE MCTree -------------------------------
(***************************************************************************)
(* Tree with leaves of 2^6 indices, so that get_index_max rounds as it     *)
(* does in the program, and chains of at most 2^3 chunks, so that a chunk  *)
(* is wider than a leaf and a chain can end in a partial one.  The tree    *)
(* the dashboard builds for itself is walked beside it.                    *)
(***************************************************************************)
EXTENDS Tree, Sequences

CONSTANT MCNodeCap

D == INSTANCE NodeTree WITH PieceSize <- PieceSpan, TreeNodeCap <- MCNodeCap

\* A node of the program as the dashboard describes it.
Shown(n) ==
    CASE n.type = "span" -> D!Shape("SPAN", n.i_0, n.level, TopSpan(n.remainder))
      [] n.type = "big" -> D!Shape("BIG", n.i_0, n.level, n.remainder)
      [] n.type = "chain" -> D!Shape("CHAIN", n.i_0, NodeChainChunks(n), n.remainder)

\* The dashboard rebuilds the program's own tree from two numbers of the log:
\* at every node the two expand to the same children, so that every range a
\* worker logs is the key of the node it stands for (dashboard.py:268-332,
\* lib/tree/code.c:277-346).
DashboardAgrees ==
    LET c == TreeChunkSpan(GetIndexMax(size))
    IN  /\ D!GetIndexMax(size) = GetIndexMax(size)
        /\ D!BuildChunked(1, GetIndexMax(size), c, 0) = Shown(Root(size))
        /\ \A k \in Cursors :
            D!Children(Shown(cursor[k]), c) =
                IF NodeIsLeaf(cursor[k]) THEN << >>
                ELSE << Shown(NodeExpand(cursor[k], 0)),
                        Shown(NodeExpand(cursor[k], 1)) >>

=============================================================================
