---------------------------- MODULE MCDashboard ----------------------------
(***************************************************************************)
(* The dashboard beside a run over a tree of the program's own shape.      *)
(***************************************************************************)
EXTENDS Dashboard

CONSTANTS MCChainBits, MCSize

T == INSTANCE Tree WITH PieceSpan <- PieceSize, ChainBits <- MCChainBits,
                        MaxSize <- MCSize, size <- MCSize, cursor <- << >>

\* The node of Tree at the end of a path of turns.
Positions == UNION {[1 .. k -> {0, 1}] : k \in 0 .. 5}

At[p \in Positions] ==
    IF p = << >> THEN T!Root(MCSize)
    ELSE T!NodeExpand(At[Front(p)], Last(p))

\* Size 5: three chunks of a leaf, the first two fused as a span.
MCNode5 == {<< >>, <<0>>, <<1>>, <<0, 0>>, <<0, 1>>}

\* Size 7: two chunks of two leaves, which make a span and no chain.
MCNode7 == MCNode5 \cup {<<1, 0>>, <<1, 1>>}

\* Size 9: three chunks, of two leaves, two and one, the first two fused.
MCNode9 == MCNode5 \cup {<<0, 0, 0>>, <<0, 0, 1>>, <<0, 1, 0>>, <<0, 1, 1>>}

\* Size 10: a third chunk of two leaves.
MCNode10 == {<< >>, <<1>>, <<1, 0>>, <<1, 1>>} \cup {<<0>> \o n : n \in MCNode7}

\* Size 13: and a fourth of one.
MCNode13 == {<< >>, <<1>>} \cup {<<0>> \o n : n \in MCNode10}

\* The positions are exactly those of the tree that Tree makes.
ASSUME ShapeAssumption ==
    \A n \in Node, i \in {0, 1} :
        Append(n, i) \in Node <=> ~T!NodeIsLeaf(At[n])

RangeOf(node) == <<node.i_0, node.i_0 + node.remainder - 1>>

MCKeyOf == [n \in Node |-> RangeOf(At[n])]

MCConfig == << <<"piece size", PieceSize>>,
               <<"chunk span", T!TreeChunkSpan(T!GetIndexMax(MCSize))>>,
               <<"run size", T!GetIndexMax(MCSize)>>,
               <<"n process", NProcess>>,
               <<"mem launch", MemLaunch>>,
               <<"mem max", MemMax>>,
               <<"disk lock", 1>> >>

MCJoinCost == [n \in Node |-> [t \in 1 .. NProcess |->
                  LeavesCovered(MCKeyOf[n]) + t]]
MCJoinCeiling == [n \in Node |-> LeavesCovered(MCKeyOf[n])]

\* Joins that cost next to nothing and take one thread.
MCLightCost == [n \in Node |-> [t \in 1 .. NProcess |-> 1]]
MCLightCeiling == [n \in Node |-> 1]

MCBig == {n \in Node : At[n].type = "big"}

MCNone == {}

\* What a run over a tree of size 13 may find stored: a leaf and the last chunk, or
\* the span of the first two chunks and a leaf of the third.
MCFound == {{<<0, 0, 0, 1>>, <<1>>}, {<<0, 0>>, <<0, 1, 0>>}}
MCShared == UNION MCFound

MCInit == stored \in MCFound /\ Init
MCSpec == MCInit /\ [][Next]_vars

\* Something goes amiss where the span is found.
MCUpsetsAfter == {<<0, 0>>}

\* The states TLC tells apart.  A "task start" that comes after its node's last
\* line leaves its threads on a done node, where nothing reads them again.
Settled(n) == IF n.own_done THEN [n EXCEPT !.threads = 0, !.threads_live = 0]
              ELSE n

MCView == <<program, out, workers, clock, lost,
            [st EXCEPT !.tree = [k \in DOMAIN @ |-> Settled(@[k])]]>>

=============================================================================
