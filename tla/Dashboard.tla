----------------------------- MODULE Dashboard -----------------------------
(***************************************************************************)
(* The program and the dashboard that reads its log.  Scheduler says what  *)
(* the program does; here each of its processes also logs, and dashboard.py*)
(* folds every record, in the order it is written, into the State it draws.*)
(* The scheduler logs after it acts, so a worker it has just forked may    *)
(* log first; a record is stamped before it is written, so stamps arrive   *)
(* out of order; two records written at once may garble each other, and    *)
(* the parser drops what does not match.                                   *)
(*                                                                         *)
(* A pid is the node its process was forked for.                           *)
(***************************************************************************)
EXTENDS Readings

CONSTANTS Node, NoNode, NProcess, MemLaunch, MemMax, LeafCost, JoinCost,
          JoinCeiling, Kept, Shared, MaxFailures,
    KeyOf,          \* the range of a node
    Config,         \* the configuration lines of a run, in order
    MaxUpsets,      \* bound: clock ticks, lost records and failures together
    UpsetsAfter,    \* bound: done before any of these, with nothing made below them
    Big,            \* the joins of node_big_process
    BarWidths,      \* the widths bars are drawn at
    RssReadings     \* what ps may measure of the workers' memory, 0 for nothing

VARIABLES
    pc, di, status, ops, plan, tasks, total_threads, total_mem_cost, slot,
    phase, used, stored, failures,      \* as in Scheduler
    out,            \* what the scheduler has still to log
    at,             \* of each worker: how far it is through its script
    forked,         \* the plan each worker was forked with
    took,           \* the threads each worker computes with
    clock,          \* the wall clock
    lost,           \* records lost in this run, and in all runs
    st              \* the dashboard's State

S == INSTANCE Scheduler

ASSUME ProgramAssumption ==
    /\ S!NodeAssumption
    /\ S!BinaryAssumption
    /\ S!BudgetAssumption
    /\ S!CostAssumption
    /\ S!CacheAssumption
ASSUME KeyAssumption ==
    /\ KeyOf \in [Node -> Nat \X Nat]
    /\ \A m, n \in Node : KeyOf[m] = KeyOf[n] => m = n

\* The range of a node is made of whole pieces.
ASSUME PieceAssumption == \A n \in Node : LeavesCovered(KeyOf[n]) \in Nat \ {0}

ASSUME ConfigAssumption == Config \in Seq(STRING \X Nat)

\* pi_tree logs the number of processes and the ceiling that it runs the scheduler
\* with.
ASSUME ReportAssumption ==
    /\ \E j \in DOMAIN Config : Config[j][1] = "n process"
    /\ \A j \in DOMAIN Config : Config[j][1] = "n process" => Config[j][2] = NProcess
ASSUME CeilingAssumption ==
    /\ \E j \in DOMAIN Config : Config[j][1] = "mem max"
    /\ \A j \in DOMAIN Config : Config[j][1] = "mem max" => Config[j][2] = MemMax
    /\ MemMax # 0

\* A bar has room for every segment; render never draws one below ten cells
\* (dashboard.py:2170-2173).
ASSUME BarAssumption == BarWidths \subseteq Nat /\ \A w \in BarWidths : w >= 3

ASSUME RssAssumption == RssReadings \subseteq Nat

\* "A wider fan-out holds more FFT buffers at once" (lib/tree/code.c:997): a join
\* costs no less on more threads.
ASSUME FanOutAssumption ==
    \A n \in Node : \A s, t \in 1 .. NProcess : s <= t => JoinCost[n][s] <= JoinCost[n][t]

program == <<pc, di, status, ops, plan, tasks, total_threads, total_mem_cost,
             slot, phase, used, stored, failures>>
workers == <<at, forked, took>>
vars == <<program, out, workers, clock, lost, st>>

-----------------------------------------------------------------------------
(* Records.                                                                *)

NodeLine(n, action, mem) ==
    [fn |-> "node_process", pid |-> n, action |-> action, key |-> KeyOf[n],
     mem |-> mem]

PhaseLine(n, action) ==
    [fn |-> "split_piece", pid |-> n, action |-> action, term |-> NoText,
     lock |-> IF S!NodeIsLeaf(n) THEN "HIT" ELSE "MISS"]

Header(n, term) == [PhaseLine(n, "mul") EXCEPT !.term = term]

TaskLine(fn, n, p) == [fn |-> fn, pid |-> n, thr |-> p.threads, mem |-> p.mem_cost]

RootLine(action) == [fn |-> "pi", action |-> action]

SchedulerLine(action, val) == [fn |-> "scheduler", action |-> action, val |-> val]

HaltLine(reason) == [fn |-> "node_can_launch", reason |-> reason]

ConfigLines ==
    [j \in DOMAIN Config |-> [fn |-> "pi_tree", action |-> Config[j][1],
                              val |-> Config[j][2]]]

\* The steps of pi_tree and pi_finish after the split, and main's display.
ShowLines == <<RootLine("display begin"), RootLine("display end")>>

FinishLines == <<RootLine("binary split solved"), RootLine("dividing"),
                 RootLine("divided")>> \o ShowLines

StoredLine(n) == NodeLine(n, "already stored", 0)

-----------------------------------------------------------------------------
(* A worker's script: the lines it logs, one of each kind, around the      *)
(* steps the scheduler's model takes of it and "read", the start of a      *)
(* multiplication that is not the last.  held: it has the disk lock.       *)

Step(op, r, held) == [op |-> op, r |-> r, held |-> held]

Silent == [fn |-> "silent"]

Says(r) == Step("log", r, FALSE)
Does(op) == Step(op, Silent, FALSE)

LeafScript(n) ==
    << Says(NodeLine(n, "begin", 0)),
       Says(PhaseLine(n, "locking")),
       Says(PhaseLine(n, "locked")),
       Step("commit", NodeLine(n, "piece", 0), TRUE),
       Does("exit") >>

\* node_big_process has no such line.
Joining(n) == IF n \in Big THEN Silent ELSE NodeLine(n, "joining", 0)

JoinScript(n) ==
    << Says(NodeLine(n, "begin", 0)),
       Says(Joining(n)),
       Says(PhaseLine(n, "locking")),
       Says(PhaseLine(n, "locked")),
       Step("log", PhaseLine(n, "loading"), TRUE),
       Says(PhaseLine(n, "multiplying")),
       Does("read"),
       Says(PhaseLine(n, "multiplying")),
       Does("close"),
       Step("commit", Header(n, "R"), FALSE),
       Step("delete", NodeLine(n, "joined", 0), FALSE),
       Does("exit") >>

Scripts == [n \in Node |-> IF S!NodeIsLeaf(n) THEN LeafScript(n) ELSE JoinScript(n)]

\* A worker is forked once the walk that found its node has logged what it saw.
Alive(i) ==
    /\ phase[i] \in S!Live
    /\ ~(Len(out) > 1 /\ Last(out).fn = "task_start" /\ Last(out).pid = tasks[i])

\* What worker i does next.
Now(i) == Scripts[tasks[i]][at[i]]

\* The record it logs; "joining" carries the cost it was forked with.
Record(i) ==
    LET r == Now(i).r
    IN  IF r.fn = "node_process" /\ r.action = "joining"
        THEN [r EXCEPT !.mem = forked[i].mem_cost] ELSE r

-----------------------------------------------------------------------------
(* A record reaches the dashboard, or, written as another was, is lost.    *)

Upsets == clock + lost.all + failures

MayUpset ==
    /\ Upsets < MaxUpsets
    /\ \A n \in UpsetsAfter :
        status[n] = "done" /\ \A k \in S!Kids(n) : status[k] = "unmade"

Writing(i) == Alive(i) /\ Now(i).r # Silent

Feed(r, beside) ==
    \/ /\ \E ts \in IF r.fn \in Stamped THEN 0 .. clock ELSE {0} :
            st' = FeedLine(st, r, ts)
       /\ UNCHANGED lost
    \/ /\ beside
       /\ MayUpset
       /\ lost' = [run |-> lost.run + 1, all |-> lost.all + 1]
       /\ UNCHANGED st

SchedulerLogs ==
    /\ out # << >>
    /\ Feed(Head(out), \E i \in S!Slots : Writing(i))
    /\ out' = Tail(out)
    /\ UNCHANGED <<program, workers, clock>>

\* A worker logs, takes the grant of a multiplication, closing its slot as it
\* takes the last one's, commits, deletes its inputs and exits.
WorkerSteps(i) ==
    LET s == Now(i)
    IN  /\ Alive(i)
        /\ s.r = PhaseLine(tasks[i], "locked") =>
            ~\E j \in S!Slots \ {i} : Alive(j) /\ Now(j).held
        /\ \/ s.op \in {"log", "read"} /\ UNCHANGED program
           \/ s.op = "close"  /\ S!CloseSlot(i)
           \/ s.op = "commit" /\ S!Commit(i)
           \/ s.op = "delete" /\ S!DeleteLeft(i)
           \/ s.op = "exit"   /\ S!Exit(i)
        /\ took' = IF s.op \in {"read", "close"}
                   THEN [took EXCEPT ![i] = slot[i].threads] ELSE took
        /\ IF s.r = Silent THEN UNCHANGED <<lost, st>>
           ELSE Feed(Record(i), out # << >> \/ \E j \in S!Slots \ {i} : Writing(j))
        /\ at' = [at EXCEPT ![i] = @ + 1]
        /\ UNCHANGED <<out, forked, clock>>

-----------------------------------------------------------------------------
(* The scheduler acts once it has logged what it did before.               *)

\* The walk logs a node it finds stored as it expands the node's parent.
LoggedBefore(m, n) ==
    \/ S!Before(S!Parent(m), S!Parent(n))
    \/ S!Parent(m) = S!Parent(n) /\ m[Len(m)] < n[Len(n)]

StoredLines ==
    LET found  == {n \in Node : status[n] = "unmade" /\ status'[n] = "done"}
        orders == {o \in SetToSeqs(found) :
                      \A j \in 1 .. Len(o) - 1 : LoggedBefore(o[j], o[j + 1])}
    IN  {[j \in DOMAIN o |-> StoredLine(o[j])] : o \in orders}

Launch ==
    /\ out = << >>
    /\ S!Launch
    /\ LET i == S!FreeIndex
           n == tasks'[i]
       IN  /\ \E lines \in StoredLines :
                out' = lines \o <<TaskLine("task_start", n, plan'[n])>>
           /\ at' = [at EXCEPT ![i] = 1]
           /\ forked' = [forked EXCEPT ![i] = plan'[n]]
           /\ took' = [took EXCEPT ![i] = plan'[n].threads]
    /\ UNCHANGED <<clock, lost, st>>

\* The gate that stops the walk, when one does.
HaltReason(n) ==
    IF S!FreeThreads = 0 THEN "threads"
    ELSE IF total_mem_cost >= MemLaunch THEN "mem_launch"
    ELSE IF S!NodeIsLeaf(n) THEN "leaf" ELSE "barrier"

HaltLines ==
    IF ~S!HasSlot THEN << >>
    ELSE LET halts == {n \in Node : S!Visited(n) /\ S!NodeCanLaunch(n) = "halt"}
         IN  IF halts = {} THEN << >>
             ELSE <<HaltLine(HaltReason(CHOOSE n \in halts : TRUE))>>

EndLaunch ==
    /\ out = << >>
    /\ S!EndLaunch
    /\ \E lines \in StoredLines : out' = lines \o HaltLines
    /\ UNCHANGED <<workers, clock, lost, st>>

Donate ==
    /\ out = << >>
    /\ \/ (S!DonateLoad \/ S!DonateRefused) /\ UNCHANGED out
       \/ /\ S!DonateAccepted
          /\ out' = <<TaskLine("task_donate", tasks[di], plan'[tasks[di]])>>
       \/ /\ S!DonateEnd
          /\ out' = <<SchedulerLine("active processes", Cardinality(S!Active)),
                      SchedulerLine("active threads", total_threads),
                      SchedulerLine("active memory", total_mem_cost)>>
    /\ UNCHANGED <<workers, clock, lost, st>>

Reap(i) ==
    /\ out = << >>
    /\ \/ /\ S!TaskEnd(i)
          /\ out' = <<[fn |-> "task_end", pid |-> tasks[i]]>> \o
                    (IF tasks[i] = S!Root THEN FinishLines ELSE << >>)
          /\ at' = [at EXCEPT ![i] = 0]
          /\ took' = [took EXCEPT ![i] = 0]
          /\ forked' = [forked EXCEPT ![i] = S!NoPlan]
       \/ /\ S!TaskCheckExit(i)
          /\ out' = <<[fn |-> "task_check_exit", pid |-> tasks[i]]>>
          /\ UNCHANGED workers
    /\ UNCHANGED <<clock, lost, st>>

-----------------------------------------------------------------------------
(* Failures, and the run that run.sh --keep appends to the same log: its   *)
(* marker gives the dashboard a new State.                                 *)

Dies == /\ MayUpset
        /\ \/ \E i \in S!Slots : S!WorkerDies(i) /\ UNCHANGED out
           \/ S!Crash /\ out' = << >>
        /\ UNCHANGED <<workers, clock, lost, st>>

\* What a run logs ahead of the walk, and all it logs with its root stored.
FirstLines(root_stored) ==
    IF root_stored
    THEN {ConfigLines \o <<StoredLine(S!Root)>> \o FinishLines,
          ConfigLines \o <<RootLine("pi already stored")>> \o ShowLines}
    ELSE {ConfigLines}

NewWorkers == [at |-> [i \in S!Slots |-> 0], took |-> [i \in S!Slots |-> 0],
               forked |-> [i \in S!Slots |-> S!NoPlan]]

Restart ==
    /\ out = << >>
    /\ S!Restart
    /\ out' \in FirstLines(S!Root \in stored)
    /\ st' = FreshState(st.config)
    /\ at' = NewWorkers.at
    /\ took' = NewWorkers.took
    /\ forked' = NewWorkers.forked
    /\ lost' = [lost EXCEPT !.run = 0]
    /\ UNCHANGED clock

Tick == /\ MayUpset
        /\ clock' = clock + 1
        /\ UNCHANGED <<program, out, workers, lost, st>>

AllShown == pc = "done" /\ out = << >> /\ UNCHANGED vars

Init == /\ S!Init
        /\ out \in FirstLines(S!Root \in stored)
        /\ at = NewWorkers.at
        /\ took = NewWorkers.took
        /\ forked = NewWorkers.forked
        /\ clock = 0
        /\ lost = [run |-> 0, all |-> 0]
        /\ st = FreshState(<< >>)

Next ==
    \/ SchedulerLogs
    \/ Launch
    \/ EndLaunch
    \/ Donate
    \/ \E i \in S!Slots : WorkerSteps(i) \/ Reap(i)
    \/ Dies
    \/ Restart
    \/ Tick
    \/ AllShown

Spec == Init /\ [][Next]_vars

-----------------------------------------------------------------------------
(* Properties.                                                             *)

Shown == DOMAIN st.tree

\* No record of this run has been lost.
Whole == lost.run = 0

\* The path down to running work that active_count keeps on every ancestor is
\* exact whatever is lost: a node that is marked done without having begun takes
\* nothing back (mark_node_done and mark_active, dashboard.py:369-400).
TrailExact ==
    \A k \in Shown : st.tree[k].active_count =
        Cardinality({j \in Shown : st.tree[j].in_progress /\ Within(j, k)})

\* Every join and piece a worker is computing has a row on the screen, however
\* the rungs, the fuses and the collapsed subtrees above it stand
\* (render_tree and render_chain_ladder, dashboard.py:1536-1622).
RunningShown ==
    Whole /\ pc # "down" =>
        {k \in Shown : st.tree[k].in_progress} \subseteq RowsShown(st)

Leaves(keys) == {k \in keys : st.tree[k].children = << >>}

Agrees(a, b) == IF Whole THEN a = b ELSE a <= b

\* Progress counts every piece and every join once, whether it was computed in
\* this run or found stored, one by one or with the subtree above it; lost records
\* only ever make it lag, and no percentage passes 100
\* (mark_leaves_done, mark_units_done, handle_node_process).
ProgressExact ==
    LET ends      == {a \in Shown : st.tree[a].own_done}
        accounted == {j \in Shown : \E a \in ends : Within(j, a)}
        below(k)  == {j \in accounted : Within(j, k)}
        hidden(k) == \E a \in ends \ {k} : Within(k, a)
    IN  /\ \A k \in Shown : ~hidden(k) =>
            /\ Agrees(st.tree[k].units_done, Cardinality(below(k)))
            /\ Agrees(st.tree[k].leaves_done, Cardinality(Leaves(below(k))))
            /\ Percent(st.tree[k]) \in 0 .. 100
        /\ Shown # {} =>
            /\ Agrees(st.pieces_done, Cardinality(Leaves(accounted)))
            /\ Agrees(st.pieces_done + st.joins_done, Cardinality(accounted))
        /\ Whole /\ st.done => CompletionCounts(st)[2] = 0

\* When the scheduler has logged what it did, what the dashboard has booked is
\* what the scheduler has: the same tasks, each at its plan on its node, whichever
\* of "task start" and the worker's own "begin" was logged first; and the costs
\* summed from the tree, the reading of a log with no total, never pass the total
\* (handle_task_start, attach_task_plan and active_mem_estimate,
\* dashboard.py:841-855, 1024-1056, 1343-1349).
BooksMirrored ==
    Whole /\ out = << >> /\ pc \notin {"down", "done"} =>
        /\ DOMAIN st.active = {tasks[i] : i \in S!Active}
        /\ \A i \in S!Active :
            LET n == tasks[i]
                e == st.active[n]
            IN  /\ e.threads = plan[n].threads
                /\ e.mem = plan[n].mem_cost
                /\ e.node # NoKey =>
                    /\ e.node = KeyOf[n]
                    /\ st.tree[e.node].in_progress =>
                        LET badge == LivePending(st.tree[e.node])
                        IN  badge[1] + badge[2] = plan[n].threads
        /\ pc = "wait" => /\ st.mem_booked = total_mem_cost
                          /\ st.threads_reported = total_threads
                          /\ ActiveMemEstimate(st) <= total_mem_cost

\* A worker is never shown computing with threads it has not taken: with a grant
\* it did not start with, or one its next multiplication will not read; nor are
\* more cores than that expected of it on its row
\* (handle_phase_line, handle_task_start and expected_threads,
\* dashboard.py:983-991, 1042-1050, 1283-1295).
LiveNeverOverstated ==
    \A i \in S!Slots :
        tasks[i] \in DOMAIN st.active /\ Alive(i) =>
            LET e     == st.active[tasks[i]]
                taken == IF Now(i).op \in {"read", "close"} THEN slot[i].threads
                         ELSE took[i]
            IN  /\ e.threads_live <= taken
                /\ Whole /\ e.node # NoKey => ExpectedThreads(st.tree[e.node]) <= taken

\* The averages of the threads box are averages: no more thread time than time
\* booked, none booked past the budget, and no second counted twice though stamps
\* arrive out of order, up to now or drawn out over a silence (thread_tick and
\* thread_avgs, dashboard.py:820-838, 1325-1340).
UtilisationBounded ==
    /\ \A tail \in {0, 1} :
        LET totals == ThreadTotals(st, tail)
        IN  /\ totals[1] <= totals[2]
            /\ totals[2] <= NProcess * totals[3]
    /\ st.thread_span <= clock

\* The ranges of the rows, in their order, make up 1 .. last.
Tiles(rows, last) ==
    /\ rows[1][1][1] = 1
    /\ rows[Len(rows)][1][2] = last
    /\ \A j \in 1 .. Len(rows) - 1 : rows[j + 1][1][1] = rows[j][1][2] + 1

\* The rows of the ladder cover the digits once, in order: a rung a running join
\* has taken in is not shown beside it (render_chain_ladder, dashboard.py:1536-1603).
LadderTiles ==
    Whole /\ ChainOnScreen(st) /\ ~st.tree[RootKey(st)].in_progress =>
        Tiles(LadderRows(st), st.index_max)

\* A bar of w cells has w cells, one at least for whatever there is any of; the
\* threads bar stands for the machine's threads and no more, though it is made to
\* show threads booked past them (dashboard.py:1676-1680, 1883-1894); the memory bar
\* is stretched, and mem_max ruled on it, when what is booked or what is measured
\* passes the ceiling and not before; and the completion bar is full only at the end
\* (render_bar and the rows drawn with it, dashboard.py:1669-1719, 1809-2071).
BarsTrue ==
    /\ \A w \in BarWidths :
        /\ ThreadBudget(st) # 0 =>
            LET counts == ThreadCounts(st)
                fills  == Fills(w, counts)
            IN  /\ SumOfSeq(fills) = w
                /\ \A j \in DOMAIN counts : counts[j] > 0 => fills[j] > 0
        /\ st.lock_requests # 0 =>
            LET fills == Fills(w, LockCounts(st))
            IN  /\ SumOfSeq(fills) = w
                /\ \A j \in DOMAIN fills : fills[j] >= 0
        /\ MemoryDrawn(st) =>
            \A real \in RssReadings : SumOfSeq(Fills(w, MemoryCounts(st, real))) = w
        /\ st.total_pieces # 0 =>
            SumOfSeq(CursorFills(w, CompletionCounts(st))) = w
    /\ Whole /\ ThreadBudget(st) # 0 =>
            SumOfSeq(ThreadCounts(st)) = ThreadBudget(st)
    /\ Whole /\ out = << >> /\ pc = "wait" =>
        \A real \in RssReadings :
            /\ MemoryScale(st, real) = AtLeast(AtLeast(MemMax, total_mem_cost), real)
            /\ MemMax \in MemoryLimits(st, real) <=>
                    total_mem_cost > MemMax \/ real > MemMax
    /\ st.total_pieces # 0 /\ CompletionCounts(st)[2] = 0 => st.done

\* What the comment at dashboard.py:62-64 says of the launch queue: it dims when
\* the machine is full, whatever the log has said before.
QueueDimsWhenFull ==
    Whole /\ out = << >> /\ pc = "wait" /\ ~S!HasSlot =>
        \A k \in RowsShown(st) : NodeState(st, k).tint # "READY"

=============================================================================
