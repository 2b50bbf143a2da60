------------------------------ MODULE NodeTree ------------------------------
(***************************************************************************)
(* The dashboard's own copy of the tree (dashboard.py): it never talks to  *)
(* the program, so it builds the nodes again from the log's "run size" and *)
(* "chunk span" and keeps, on each, what the records fed so far say of it. *)
(* A tree is a function from the range <<i0, i_max>> of a node, its key in *)
(* by_key, to the node.                                                    *)
(***************************************************************************)
EXTENDS Bits, SequencesExt

CONSTANTS
    PieceSize,      \* TREE_PIECE_SIZE, as the log's "piece size" line sets it
    TreeNodeCap     \* TREE_NODE_CAP: no tree is shown beyond it

ASSUME PieceSizeAssumption == PieceSize \in Nat
ASSUME TreeNodeCapAssumption == TreeNodeCap \in Nat

PiecesPerLeaf == B(PieceSize)

LeavesCovered(key) == (key[2] - key[1] + 1) \div PiecesPerLeaf

GetIndexMax(size) ==
    LET index_max == 32 * size + 4
        aux       == index_max % PiecesPerLeaf
    IN  IF aux = 0 THEN index_max ELSE index_max + PiecesPerLeaf - aux

-----------------------------------------------------------------------------
(* The builders.  A shape is what they set once: kind, i0, level (of a     *)
(* chain, the chunks it spans) and n2, a span's width or a remainder.      *)

Shape(kind, i0, level, n2) == [kind |-> kind, i0 |-> i0, level |-> level, n2 |-> n2]

\* node_extent
Extent(s) == IF s.kind = "SPAN" THEN B(s.n2) ELSE s.n2

Key(s) == <<s.i0, s.i0 + Extent(s) - 1>>

\* bit_length() - 1
TopBit(k) == CHOOSE w \in 0 .. k : B(w) <= k /\ k < B(w + 1)

BuildSpan(i0, span, level) == Shape("SPAN", i0, level, span)

BuildBig(i0, remainder, level) ==
    IF remainder = B(TopBit(remainder))
    THEN BuildSpan(i0, TopBit(remainder), level)
    ELSE Shape("BIG", i0, level, remainder)

BuildChain(i0, remainder, c) ==
    Shape("CHAIN", i0, (remainder + B(c) - 1) \div B(c), remainder)

BuildChunked(i0, remainder, c, level) ==
    IF remainder = B(c) THEN BuildSpan(i0, c, level)
    ELSE IF remainder = 2 * B(c) THEN BuildSpan(i0, c + 1, level)
    ELSE BuildChain(i0, remainder, c)

\* Mutant: the partial chunk is taken for a whole one.
TailWhole(remainder, c) == B(c)

\* The chunk a chain folds last.
ChunkFolded(remainder, c) == IF remainder % B(c) = 0 THEN B(c) ELSE remainder % B(c)

ChainChildren(s, c) ==
    LET chunk  == ChunkFolded(s.n2, c)
        prefix == s.n2 - chunk
    IN  << BuildChunked(s.i0, prefix, c, 0),
           IF chunk = B(c) THEN BuildSpan(s.i0 + prefix, c, 0)
           ELSE BuildBig(s.i0 + prefix, chunk, 0) >>

SpanChildren(s) ==
    IF s.n2 > PieceSize
    THEN << BuildSpan(s.i0, s.n2 - 1, s.level + 1),
            BuildSpan(s.i0 + B(s.n2 - 1), s.n2 - 1, s.level + 1) >>
    ELSE << >>

BigChildren(s) ==
    LET span == TopBit(s.n2)
    IN  << BuildSpan(s.i0, span, s.level + 1),
           BuildBig(s.i0 + B(span), s.n2 - B(span), s.level + 1) >>

Children(s, c) == CASE s.kind = "SPAN"  -> SpanChildren(s)
                    [] s.kind = "BIG"   -> BigChildren(s)
                    [] s.kind = "CHAIN" -> ChainChildren(s, c)

-----------------------------------------------------------------------------
(* Nodes.  None is 0 for the counts, which are positive when there is one. *)

NoPid  == "no pid"
NoText == "none"

TreeNode(s, c) ==
    [kind |-> s.kind, i0 |-> s.i0, level |-> s.level, n2 |-> s.n2,
     children |-> [j \in DOMAIN Children(s, c) |-> Key(Children(s, c)[j])],
     leaves_total |-> Extent(s) \div PiecesPerLeaf,
     leaves_done |-> 0, units_done |-> 0, active_count |-> 0,
     own_done |-> FALSE, in_progress |-> FALSE, pid |-> NoPid,
     threads |-> 0, threads_live |-> 0, mem_estimate |-> 0,
     term |-> NoText, micro |-> NoText]

NoTree == << >>

\* Every node of the tree, one generation after the other.
Shapes(index_max, c) ==
    LET age[k \in 0 .. index_max \div PiecesPerLeaf] ==
            IF k = 0 THEN {BuildChunked(1, index_max, c, 0)}
            ELSE UNION {ToSet(Children(s, c)) : s \in age[k - 1]}
    IN  UNION {age[k] : k \in 0 .. index_max \div PiecesPerLeaf}

BuildTree(index_max, c) ==
    IF 2 * (index_max \div PiecesPerLeaf) - 1 > TreeNodeCap THEN NoTree
    ELSE LET shapes == Shapes(index_max, c)
         IN  [k \in {Key(s) : s \in shapes} |->
                  TreeNode(CHOOSE s \in shapes : Key(s) = k, c)]

-----------------------------------------------------------------------------
(* What a record does to the tree.  The loop over n.parent is a change of  *)
(* every node whose range contains the key's: ranges nest, and no two are  *)
(* the same.                                                               *)

Within(a, b) == b[1] <= a[1] /\ a[2] <= b[2]

Upward(tree, k, change(_)) ==
    [a \in DOMAIN tree |-> IF Within(k, a) THEN change(tree[a]) ELSE tree[a]]

AtMost(a, b) == IF a < b THEN a ELSE b
AtLeast(a, b) == IF a > b THEN a ELSE b

MarkLeavesDone(tree, k, leaves) ==
    Upward(tree, k, LAMBDA n :
        [n EXCEPT !.leaves_done = AtMost(@ + leaves, n.leaves_total)])

\* Mutant: a join is not counted where a stored subtree is marked.
MarkPiecesDone(tree, k, units) ==
    Upward(tree, k, LAMBDA n :
        [n EXCEPT !.units_done = AtMost(@ + (units + 1) \div 2,
                                        2 * n.leaves_total - 1)])

MarkUnitsDone(tree, k, units) ==
    Upward(tree, k, LAMBDA n :
        [n EXCEPT !.units_done = AtMost(@ + units, 2 * n.leaves_total - 1)])

MarkActive(tree, k, delta) ==
    Upward(tree, k, LAMBDA n : [n EXCEPT !.active_count = @ + delta])

Finished(n) ==
    [n EXCEPT !.own_done = TRUE, !.in_progress = FALSE, !.pid = NoPid,
              !.threads = 0, !.threads_live = 0,
              !.term = NoText, !.micro = NoText]

\* Mutant: the trail is taken back whether or not it was ever laid.
MarkNodeDoneAlways(tree, k) ==
    MarkActive([tree EXCEPT ![k] = Finished(@)], k, -1)

MarkNodeDone(tree, k) ==
    LET done == [tree EXCEPT ![k] = Finished(@)]
    IN  IF tree[k].in_progress THEN MarkActive(done, k, -1) ELSE done

=============================================================================
