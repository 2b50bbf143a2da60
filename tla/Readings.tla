------------------------------ MODULE Readings ------------------------------
(***************************************************************************)
(* What dashboard.py puts on the screen of a State: the rows of the tree   *)
(* and their tints, the ladder a chain is flattened into, the counts of    *)
(* the boxes and the cells of their bars.  Text, colours and layout are    *)
(* left out; a row is the key of the node it reads.                        *)
(***************************************************************************)
EXTENDS LogParser

-----------------------------------------------------------------------------
(* Scalars of render.                                                      *)

\* active_mem_estimate: a booked cost counts unless the node, or one it is
\* inside of, is done.
ActiveMemEstimate(st) ==
    MapThenSumSet(LAMBDA k : st.tree[k].mem_estimate,
        {k \in DOMAIN st.tree :
            /\ st.tree[k].in_progress
            /\ \A a \in DOMAIN st.tree : Within(k, a) => ~st.tree[a].own_done})

EstimatedMemory(st) ==
    IF InRoot(st) THEN 0
    ELSE IF st.mem_booked # 0 THEN st.mem_booked ELSE ActiveMemEstimate(st)

OverLaunch(st) == st.mem_launch # 0 /\ EstimatedMemory(st) >= st.mem_launch

Starved(st) ==
    IF st.halt_seen THEN st.halt # NoHalt
    ELSE \/ OverLaunch(st)
         \/ ThreadBudget(st) # 0 /\ BookedThreads(st) >= ThreadBudget(st)

\* expected_threads
ExpectedThreads(n) ==
    IF n.threads = 0 \/ n.micro = "locking" THEN 0
    ELSE IF IsSingleThreadPhase(n.micro) THEN 1 ELSE EntryThreads(n)

\* The badge of node_detail: threads picked up, and donated but not yet.
LivePending(n) == << EntryThreads(n), AtLeast(0, n.threads - EntryThreads(n)) >>

-----------------------------------------------------------------------------
(* A row of the tree.                                                      *)

ChildrenDone(st, k) ==
    \A c \in ToSet(st.tree[k].children) : st.tree[c].own_done

\* Mutant: the trail down to running work is not followed, only that of finished
\* work.
NodeStateUntrailed(st, k) ==
    LET n == st.tree[k]
        row(state, tint) == [state |-> state, tint |-> tint]
    IN  CASE n.own_done -> row("done", "DONE")
          [] ~n.own_done /\ n.in_progress -> row("in_progress", "RUNNING")
          [] ~n.own_done /\ ~n.in_progress ->
                IF ChildrenDone(st, k)
                THEN row("ready", IF Starved(st) THEN "STARVED" ELSE "READY")
                ELSE IF n.leaves_done > 0 THEN row("in_progress", "PENDING")
                ELSE row("pending", "PENDING")

\* node_state: what drives the recursion, and the tint.
NodeState(st, k) ==
    LET n == st.tree[k]
        row(state, tint) == [state |-> state, tint |-> tint]
    IN  CASE n.own_done -> row("done", "DONE")
          [] ~n.own_done /\ n.in_progress -> row("in_progress", "RUNNING")
          [] ~n.own_done /\ ~n.in_progress ->
                IF ChildrenDone(st, k)
                THEN row("ready", IF Starved(st) THEN "STARVED" ELSE "READY")
                ELSE IF n.active_count > 0 THEN row("in_progress", "ACTIVE")
                ELSE IF n.leaves_done > 0 THEN row("in_progress", "PENDING")
                ELSE row("pending", "PENDING")

\* The percentage of node_detail, of a node that is not running: units done of
\* those below it.
Percent(n) ==
    LET below == 2 * n.leaves_total - 2
    IN  IF n.own_done THEN 100
        ELSE IF below = 0 THEN 0 ELSE (100 * n.units_done) \div below

\* render_tree goes on below k.
Opens(st, k) ==
    /\ NodeState(st, k).state \notin {"done", "pending"}
    /\ st.tree[k].children # << >> => ~ChildrenDone(st, k)

\* The rows render_tree puts below k.
RowsBelow(st, k) ==
    {j \in DOMAIN st.tree :
        /\ Within(j, k) /\ j # k
        /\ \A a \in DOMAIN st.tree :
            Within(j, a) /\ j # a /\ Within(a, k) => Opens(st, a)}

-----------------------------------------------------------------------------
(* The ladder.                                                             *)

RootKey(st) == <<1, st.index_max>>

Chunk(st) == B(st.tree_chunk_span)

\* chain_rungs: from the root down, every first child is a chain but the last.
ChainRungs(st) ==
    LET chains == {k \in DOMAIN st.tree : st.tree[k].kind = "CHAIN"}
        spine  == SetToSortSeq(chains, LAMBDA a, b : a[2] < b[2])
        n      == st.tree[spine[1]].children[1]
        base   == IF Extent(st.tree[n]) = Chunk(st) THEN << <<n, NoKey>> >>
                  ELSE << <<st.tree[n].children[1], NoKey>>,
                          <<st.tree[n].children[2], n>> >>
    IN  base \o [j \in DOMAIN spine |-> <<st.tree[spine[j]].children[2], spine[j]>>]

\* A rung whose join is running is that join, except for the last one's.
IsFuse(st, rung) ==
    rung[2] \notin {NoKey, RootKey(st)} /\ st.tree[rung[2]].in_progress

\* The last join to have landed, or 0.
FoldedRung(st) ==
    SelectLastInSeq(ChainRungs(st),
        LAMBDA rung : rung[2] # NoKey /\ st.tree[rung[2]].own_done)

\* Mutant: the row a fuse has taken in stays above it.
LadderKeepsOperand(st) ==
    LET rungs  == ChainRungs(st)
        folded == FoldedRung(st)
        acc    == IF folded = 0 THEN << >> ELSE << <<rungs[folded][2], FALSE>> >>
        rest   == SubSeq(rungs, folded + 1, Len(rungs))
    IN  acc \o [j \in DOMAIN rest |->
            IF IsFuse(st, rest[j]) THEN <<rest[j][2], FALSE>>
            ELSE <<rest[j][1], TRUE>>]

\* render_chain_ladder: each row with whether it may open below.
LadderRows(st) ==
    LET rungs   == ChainRungs(st)
        folded  == FoldedRung(st)
        acc     == IF folded = 0 THEN << >> ELSE << <<rungs[folded][2], FALSE>> >>
        rest    == SubSeq(rungs, folded + 1, Len(rungs))
        fuse_at == Len(acc) + SelectLastInSeq(rest, LAMBDA rung : IsFuse(st, rung))
        rows    == acc \o [j \in DOMAIN rest |->
                        IF IsFuse(st, rest[j]) THEN <<rest[j][2], FALSE>>
                        ELSE <<rest[j][1], TRUE>>]
    IN  IF fuse_at > Len(acc) /\ fuse_at > 1 THEN RemoveAt(rows, fuse_at - 1)
        ELSE rows

ChainOnScreen(st) ==
    st.tree # NoTree /\ st.tree[RootKey(st)].kind = "CHAIN"

\* Every row of the tree view.
RowsShown(st) ==
    LET root == RootKey(st)
        open(row) == row[2] /\ ~st.tree[row[1]].in_progress /\ Opens(st, row[1])
    IN  IF st.tree = NoTree THEN {}
        ELSE {root} \cup
             (IF ~ChainOnScreen(st)
              THEN IF Opens(st, root) THEN RowsBelow(st, root) ELSE {}
              ELSE IF st.tree[root].in_progress THEN {}
              ELSE UNION {{row[1]} \cup (IF open(row) THEN RowsBelow(st, row[1])
                                         ELSE {})
                          : row \in ToSet(LadderRows(st))})

-----------------------------------------------------------------------------
(* Bars.  A fraction is kept as its numerator, over total.                 *)

SumOfSeq(s) == FoldLeft(LAMBDA a, b : a + b, 0, s)

\* Mutant: every segment is cut down to whole cells, and none gets the rest.
FillsFloored(width, counts) ==
    [i \in DOMAIN counts |-> (width * counts[i]) \div SumOfSeq(counts)]

\* The largest remainders get the cells that are left; ties go to the first.
Apportioned(width, counts) ==
    LET total   == SumOfSeq(counts)
        rest(i) == (width * counts[i]) % total
        floor   == [i \in DOMAIN counts |-> (width * counts[i]) \div total]
        left    == width - SumOfSeq(floor)
        ahead(i) == Cardinality({j \in DOMAIN counts :
                        rest(j) > rest(i) \/ (rest(j) = rest(i) /\ j < i)})
    IN  [i \in DOMAIN counts |-> floor[i] + (IF ahead(i) < left THEN 1 ELSE 0)]

\* Every non-zero count keeps a cell, taken from the largest segment.
KeepACell(counts, fills) ==
    FoldLeft(
        LAMBDA f, i :
            LET donor == CHOOSE d \in DOMAIN f :
                            /\ \A j \in DOMAIN f : f[j] <= f[d]
                            /\ \A j \in 1 .. d - 1 : f[j] < f[d]
            IN  IF counts[i] > 0 /\ f[i] = 0 /\ f[donor] > 1
                THEN [f EXCEPT ![donor] = @ - 1, ![i] = 1] ELSE f,
        fills, [i \in DOMAIN counts |-> i])

\* render_bar's segments, without a cursor and with one.
Fills(width, counts) == KeepACell(counts, Apportioned(width, counts))
CursorFills(width, counts) == Apportioned(width, counts)

PostSplitUnits == 2

\* post_split_done
PostSplitDone(st) ==
    IF st.done THEN PostSplitUnits
    ELSE IF st.phase \in {"divided", "displaying"} THEN 1 ELSE 0

\* _completion_rows: units done and remaining.
CompletionCounts(st) ==
    LET split_units == 2 * st.total_pieces - 1
        done_units  == AtMost(st.pieces_done + st.joins_done, split_units)
                       + PostSplitDone(st)
    IN  << done_units, split_units + PostSplitUnits - done_units >>

\* _threads_rows: running, held but not running, and unbooked.
ThreadCounts(st) ==
    LET now     == ActiveThreads(st)
        pending == AtLeast(0, BookedThreads(st) - now)
        blocked == BlockedThreads(st)
        parked  == AtMost(blocked[1] + blocked[2], now)
    IN  << now - parked, parked + pending,
           AtLeast(0, ThreadBudget(st) - now - pending) >>

\* thread_avgs, before the division: working and booked thread time and the time
\* they span, drawn out over the tail since the last line.
ThreadTotals(st, tail) ==
    LET now == IF st.done THEN 0 ELSE tail
    IN  << st.thread_time + WorkingThreads(st) * now,
           st.booked_time + BookedCapped(st) * now,
           st.thread_span + now >>

\* _ram_rows: the booked memory against the budget, and the limits that are ruled on
\* it.  The scale is stretched by an overshoot of what is booked, or of real, what ps
\* measures of the workers (0 if it tells nothing).
MemoryBudget(st) == IF st.mem_max # 0 THEN st.mem_max ELSE st.mem_launch

\* Mutant: what is measured is left off the scale.
ScaleUnmeasured(st, real) == AtLeast(MemoryBudget(st), EstimatedMemory(st))

MemoryScale(st, real) ==
    AtLeast(AtLeast(MemoryBudget(st), EstimatedMemory(st)), real)

MemoryCounts(st, real) ==
    << EstimatedMemory(st), MemoryScale(st, real) - EstimatedMemory(st) >>

MemoryLimits(st, real) ==
    {limit \in {st.mem_launch, st.mem_max} \ {0} : limit < MemoryScale(st, real)}

\* The bar is drawn only with a budget, and no more when the root is divided.
MemoryDrawn(st) == MemoryBudget(st) # 0 /\ ~InRoot(st)

\* _disk_rows: requests of the disk lock that found it held, and that did not.
LockCounts(st) == << st.lock_misses, st.lock_requests - st.lock_misses >>

=============================================================================
