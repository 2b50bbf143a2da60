-------------------------------- MODULE Tree --------------------------------
(***************************************************************************)
(* The shape of the binary-splitting tree of lib/tree and the names its    *)
(* results take on disk in lib/big.  A run of a given size covers the      *)
(* series indices 1 .. index_max by nodes of three types; a node is        *)
(* expanded on demand, so each part of the code works out a child's range  *)
(* and cache name by itself: the expansion that creates the child, the     *)
(* join that loads and deletes it, the pricing that reads its operand      *)
(* sizes.  This module holds every one of those derivations, and a walk of *)
(* two independent cursors down the tree of one run under which they are   *)
(* compared.                                                               *)
(***************************************************************************)
EXTENDS Bits

CONSTANTS
    PieceSpan,      \* TREE_PIECE_SIZE, log2 of the indices of a leaf
    ChainBits,      \* TREE_CHAIN_BITS, the bits of index_max above a chunk: with one
                    \* alone, a run of a chunk and a half would be a chain, which
                    \* node_chain_create asserts it is not
    MaxSize         \* bound: the sizes a run is started with

ASSUME PieceSpanAssumption == PieceSpan \in Nat
ASSUME ChainBitsAssumption == ChainBits \in Nat /\ ChainBits >= 2
ASSUME MaxSizeAssumption   == MaxSize \in Nat \ {0}

VARIABLES
    size,           \* the size the run was started with
    cursor          \* two nodes of its tree, reached independently

vars == <<size, cursor>>

-----------------------------------------------------------------------------
(* Bit arithmetic.                                                         *)

\* stdc_bit_width
BitWidth(k) == CHOOSE w \in 0..k : k < B(w) /\ (w = 0 \/ B(w - 1) <= k)

\* log2 of the top power of two in k, what the code calls the span of k
TopSpan(k) == BitWidth(k) - 1

\* stdc_count_ones(k) == 1
IsPowerOfTwo(k) == k = B(TopSpan(k))

-----------------------------------------------------------------------------
(* The range of a run.                                                     *)

GetIndexMax(s) ==
    LET index_max == 32 * s + 4
        aux       == index_max % B(PieceSpan)
    IN  IF aux = 0 THEN index_max ELSE index_max + B(PieceSpan) - aux

\* Mutant: the chain takes its bits whatever is left for a chunk.
UnclampedChunkSpan(index_max) == BitWidth(index_max) - ChainBits

TreeChunkSpan(index_max) ==
    LET width == BitWidth(index_max)
        bits  == width - PieceSpan
    IN  width - (IF bits > ChainBits THEN ChainBits ELSE bits)

-----------------------------------------------------------------------------
(* Nodes.  chunk_span is the chain's field in the code and, as g_chunk,    *)
(* the global the cache names depend on; every node of a run carries the   *)
(* same one.  A chain's level is 0: it is named by the chunks it fuses.    *)

NodeRecord == [type: {"span", "big", "chain"}, i_0: Nat \ {0}, remainder: Nat \ {0},
               level: Nat, chunk_span: Nat]

MakeNode(t, i_0, remainder, level, chunk_span) ==
    [type |-> t, i_0 |-> i_0, remainder |-> remainder, level |-> level,
     chunk_span |-> chunk_span]

NodeSpanCreate(i_0, span, level, c) == MakeNode("span", i_0, B(span), level, c)

NodeBigCreate(i_0, remainder, level, c) ==
    IF IsPowerOfTwo(remainder)
    THEN NodeSpanCreate(i_0, TopSpan(remainder), level, c)
    ELSE MakeNode("big", i_0, remainder, level, c)

\* Mutant: two chunks fused as a span carry the span's width as the chunk's.
FusedChunkSpan(i_0, remainder, c, level) ==
    IF remainder = 2 * B(c) THEN NodeSpanCreate(i_0, c + 1, level, c + 1)
    ELSE IF remainder = B(c) THEN NodeSpanCreate(i_0, c, level, c)
    ELSE MakeNode("chain", i_0, remainder, 0, c)

NodeChunkedCreate(i_0, remainder, c, level) ==
    IF remainder = B(c) THEN NodeSpanCreate(i_0, c, level, c)
    ELSE IF remainder = 2 * B(c) THEN NodeSpanCreate(i_0, c + 1, level, c)
    ELSE MakeNode("chain", i_0, remainder, 0, c)

\* A whole chunk, or the tail of the chain when it ends in a partial one.
NodeChainChunk(n) ==
    LET tail == n.remainder % B(n.chunk_span)
    IN  IF tail # 0 THEN tail ELSE B(n.chunk_span)

NodeChainChunks(n) == (n.remainder + B(n.chunk_span) - 1) \div B(n.chunk_span)

NodeIsLeaf(n) == n.type = "span" /\ n.remainder = B(PieceSpan)

\* Mutant: the right half starts a whole span on.
ExpandPastEnd(n, index) ==
    LET span == TopSpan(n.remainder)
    IN  NodeSpanCreate(n.i_0 + index * B(span), span - 1, n.level + 1,
                       n.chunk_span)

NodeExpandSpan(n, index) ==
    LET half == TopSpan(n.remainder) - 1
    IN  NodeSpanCreate(n.i_0 + index * B(half), half, n.level + 1, n.chunk_span)

\* Mutant: the right child starts on the left one's last index.
ExpandOverlap(n, index) ==
    LET span == TopSpan(n.remainder)
    IN  IF index = 0
        THEN NodeSpanCreate(n.i_0, span, n.level + 1, n.chunk_span)
        ELSE NodeBigCreate(n.i_0 + B(span) - 1, n.remainder - B(span),
                           n.level + 1, n.chunk_span)

NodeExpandBig(n, index) ==
    LET span == TopSpan(n.remainder)
    IN  IF index = 0
        THEN NodeSpanCreate(n.i_0, span, n.level + 1, n.chunk_span)
        ELSE NodeBigCreate(n.i_0 + B(span), n.remainder - B(span),
                           n.level + 1, n.chunk_span)

NodeExpandChain(n, index) ==
    LET chunk  == NodeChainChunk(n)
        prefix == n.remainder - chunk
    IN  IF index = 0 THEN NodeChunkedCreate(n.i_0, prefix, n.chunk_span, 0)
        ELSE IF chunk = B(n.chunk_span)
        THEN NodeSpanCreate(n.i_0 + prefix, n.chunk_span, 0, n.chunk_span)
        ELSE NodeBigCreate(n.i_0 + prefix, chunk, 0, n.chunk_span)

NodeExpand(n, index) ==
    CASE n.type = "span"  -> NodeExpandSpan(n, index)
      [] n.type = "big"   -> NodeExpandBig(n, index)
      [] n.type = "chain" -> NodeExpandChain(n, index)

Root(s) ==
    LET index_max == GetIndexMax(s)
    IN  NodeChunkedCreate(1, index_max, TreeChunkSpan(index_max), 0)

-----------------------------------------------------------------------------
(* Cache names: the fields each file name is formatted from.               *)

\* Mutant: a signed piece is named by its first index alone.
SigPathStart(i_0, span) == <<"p", i_0>>

SigPath(i_0, span) == <<"p", i_0, span>>

UnionPath(i_0, remainder, level, c) ==
    LET i_max == i_0 + remainder - 1
    IN  IF remainder > 2 * B(c)
        THEN <<"c", (remainder + B(c) - 1) \div B(c), i_max>>
        ELSE <<"r", i_0, level, i_max>>

\* Where the split_span_res_* and split_big_res_* families look a result up,
\* whether to test for it, size it, load it or delete it.
SpanPaths(i_0, span, level, c) ==
    {SigPath(i_0, span), UnionPath(i_0, B(span), level, c)}

BigPaths(i_0, remainder, level, c) ==
    IF IsPowerOfTwo(remainder)
    THEN SpanPaths(i_0, TopSpan(remainder), level, c)
    ELSE {UnionPath(i_0, remainder, level, c)}

\* Mutant: a join counts levels below a chain as it does below a span.
LevelBelow(level, remainder, c) == level + 1

LevelChild(level, remainder, c) == IF remainder > 2 * B(c) THEN 0 ELSE level + 1

\* The files the process functions of a node may write its result to.
PathsWritten(n) ==
    {UnionPath(n.i_0, n.remainder, n.level, n.chunk_span)} \cup
    (IF n.type = "span" THEN {SigPath(n.i_0, TopSpan(n.remainder))} ELSE {})

\* The files the creation of a node looks for before it makes the node.
PathsTested(n) ==
    IF n.type = "span"
    THEN SpanPaths(n.i_0, TopSpan(n.remainder), n.level, n.chunk_span)
    ELSE BigPaths(n.i_0, n.remainder, n.level, n.chunk_span)

\* The files the join of n loads child index from, and then deletes.
PathsJoined(n, index) ==
    LET c     == n.chunk_span
        level == LevelChild(n.level, n.remainder, c)
        span  == TopSpan(n.remainder)
        cut   == n.remainder - NodeChainChunk(n)
    IN  CASE n.type = "span" ->
                SpanPaths(n.i_0 + index * B(span - 1), span - 1, level, c)
          [] n.type = "big" /\ index = 0 -> SpanPaths(n.i_0, span, level, c)
          [] n.type = "big" /\ index = 1 ->
                BigPaths(n.i_0 + B(span), n.remainder - B(span), level, c)
          [] n.type = "chain" /\ index = 0 -> BigPaths(n.i_0, cut, level, c)
          [] n.type = "chain" /\ index = 1 ->
                BigPaths(n.i_0 + cut, n.remainder - cut, level, c)

\* The files node_op_sizes reads the operand sizes of child index from.
PathsSized(n, index) ==
    LET c    == n.chunk_span
        span == TopSpan(n.remainder)
        cut  == n.remainder - NodeChainChunk(n)
    IN  CASE n.type = "span" ->
                SpanPaths(n.i_0 + index * B(span - 1), span - 1, n.level + 1, c)
          [] n.type = "big" /\ index = 0 -> SpanPaths(n.i_0, span, n.level + 1, c)
          [] n.type = "big" /\ index = 1 ->
                BigPaths(n.i_0 + B(span), n.remainder - B(span), n.level + 1, c)
          [] n.type = "chain" /\ index = 0 -> BigPaths(n.i_0, cut, 0, c)
          [] n.type = "chain" /\ index = 1 ->
                BigPaths(n.i_0 + cut, n.remainder - cut, 0, c)

\* The files pi_finish loads the root's Q and R from.
PathsFinished(s) ==
    BigPaths(1, GetIndexMax(s), 0, TreeChunkSpan(GetIndexMax(s)))

-----------------------------------------------------------------------------
(* The walk.                                                               *)

Cursors == 1..2

Init == /\ size \in 1..MaxSize
        /\ cursor = [k \in Cursors |-> Root(size)]

Descend(k, index) ==
    /\ ~NodeIsLeaf(cursor[k])
    /\ cursor' = [cursor EXCEPT ![k] = NodeExpand(@, index)]
    /\ UNCHANGED size

Next == \E k \in Cursors, index \in 0..1 : Descend(k, index)

Spec == Init /\ [][Next]_vars

-----------------------------------------------------------------------------
(* Properties.                                                             *)

Indices(n) == n.i_0 .. (n.i_0 + n.remainder - 1)

Expanded == {k \in Cursors : ~NodeIsLeaf(cursor[k])}

\* The two cursors stand on nodes of the run's tree, all of one chunk span.
TypeOK == /\ size \in 1..MaxSize
          /\ \A k \in Cursors : /\ cursor[k] \in NodeRecord
                                /\ cursor[k].chunk_span = Root(size).chunk_span

\* The assertions of the node constructors and of tree_chunk_span
\* (lib/tree/code.c:129, 226, 1037) hold wherever the walk goes: no span is
\* narrower than a leaf, no chain is as short as two chunks and index_max is wide
\* enough for a leaf.  A chain folds at most 2^ChainBits chunks, and a tail
\* shorter than a chunk is only ever its last one: the prefix it folds onto is
\* whole chunks (tree_chunk_span and node_chain_chunk, 212-217, 1032-1046).
AssertsHold ==
    /\ BitWidth(GetIndexMax(size)) > PieceSpan
    /\ \A k \in Cursors :
        LET n == cursor[k]
        IN  /\ n.type = "span" => TopSpan(n.remainder) >= PieceSpan
            /\ n.type = "big" => ~IsPowerOfTwo(n.remainder)
            /\ n.type = "chain" =>
                /\ n.remainder > 2 * B(n.chunk_span)
                /\ NodeChainChunks(n) <= B(ChainBits)
                /\ NodeExpand(n, 0).remainder % B(n.chunk_span) = 0
                /\ NodeExpand(n, 1).remainder <= B(n.chunk_span)

\* A join fuses exactly its own range: the two children split the indices of
\* the parent at one point, in order, with none lost or counted twice, so the
\* leaves cover 1 .. index_max once each (node_expand, lib/tree/code.c:277-346).
ChildrenSplitRange ==
    \A k \in Expanded :
        LET n == cursor[k]
            l == NodeExpand(n, 0)
            r == NodeExpand(n, 1)
        IN  /\ l.i_0 = n.i_0
            /\ r.i_0 = l.i_0 + l.remainder
            /\ l.remainder + r.remainder = n.remainder
            /\ l.remainder > 0 /\ r.remainder > 0

\* Two nodes of one run never overlap partly: their ranges are nested or
\* disjoint, so two workers never join or delete pieces of a common range
\* unless one is below the other.
RangesNest ==
    LET a == Indices(cursor[1])
        b == Indices(cursor[2])
    IN  a \subseteq b \/ b \subseteq a \/ a \cap b = {}

\* Two different ranges of one run never share a cache file, although a
\* chain's name leaves out its first index (lib/big/code.c:205-232).
NamesUnique ==
    PathsTested(cursor[1]) \cap PathsTested(cursor[2]) # {}
        => Indices(cursor[1]) = Indices(cursor[2])

\* The parts of the code that work out a child's file name on their own agree:
\* what the child's worker writes is what the scheduler tests for and sizes,
\* and what the parent's join loads and deletes, whatever the levels each
\* derives (level + 1 in node_expand, level_child in the joins).
NamesAgree ==
    /\ PathsWritten(Root(size)) \subseteq PathsFinished(size)
    /\ \A k \in Expanded, index \in 0..1 :
        LET child == NodeExpand(cursor[k], index)
        IN  /\ PathsWritten(child) \subseteq PathsTested(child)
            /\ PathsJoined(cursor[k], index) = PathsTested(child)
            /\ PathsSized(cursor[k], index) = PathsTested(child)

=============================================================================
