------------------------------ MODULE Scheduler ------------------------------
(***************************************************************************)
(* The scheduler of lib/tree: one process that walks the tree of results   *)
(* still to be computed, forks a worker per node it can afford, lends idle *)
(* threads to running workers through a slot each shares with it, and      *)
(* reaps workers as they exit.  The workers' side is kept to what the      *)
(* scheduler can observe: closing the slot, committing the result,         *)
(* deleting the inputs and exiting.  A worker, or everything at once, may  *)
(* die at any point; a new run then starts from what the cache holds.      *)
(*                                                                         *)
(* A node is its position in the tree: the sequence of turns (0 left,      *)
(* 1 right) from the root.                                                 *)
(***************************************************************************)
EXTENDS Integers, FiniteSets, Sequences

CONSTANTS
    Node,           \* the positions of the tree's nodes
    NoNode,         \* tasks[i].active is false
    NProcess,       \* n_process: the workers and the thread budget
    MemLaunch,      \* mem_launch: nothing starts at or above it
    MemMax,         \* mem_max: tasks run together only below it
    LeafCost,       \* TREE_LEAF_COST_BYTES
    JoinCost,       \* mean num_mul_estimate_memory of a join at t threads
    JoinCeiling,    \* num_mul_threads_ceiling of a join
    Kept,           \* results a join leaves in the cache (KEEP_PIECES)
    Shared,         \* results another run may have left in the cache
    MaxFailures     \* bound: worker deaths and crashes of the whole program

Root == << >>

Slots == 0 .. NProcess - 1

ASSUME NodeAssumption ==
    /\ Node \subseteq Seq({0, 1})
    /\ IsFiniteSet(Node)
    /\ Root \in Node
    /\ NoNode \notin Node
ASSUME BinaryAssumption ==
    \A n \in Node :
        /\ n # Root => SubSeq(n, 1, Len(n) - 1) \in Node
        /\ Append(n, 0) \in Node <=> Append(n, 1) \in Node
ASSUME BudgetAssumption ==
    /\ NProcess \in Nat \ {0}
    /\ MemLaunch \in Nat \ {0}
    /\ MemMax \in Nat
    /\ MaxFailures \in Nat
ASSUME CostAssumption ==
    /\ LeafCost \in Nat
    /\ JoinCost \in [Node -> [1 .. NProcess -> Nat]]
    /\ JoinCeiling \in [Node -> Nat \ {0}]
ASSUME CacheAssumption == Kept \subseteq Node /\ Shared \subseteq Node

VARIABLES
    \* the scheduler process
    pc,             \* where scheduler() is
    di,             \* the index of task_donate's loop
    status,         \* of each node: what node->processing and its parent's
                    \* children[] entry say of it
    ops,            \* the nodes whose operand sizes are cached (ops_set)
    plan,           \* node->plan
    tasks,          \* s->tasks: the node each active worker was forked for
    total_threads,
    total_mem_cost,
    \* shared with the workers
    slot,           \* s->threads_slot: a grant, and SPLIT_TASK_CLOSED
    \* the workers
    phase,          \* how far each worker has come
    used,           \* the grant its last multiplication runs with
    \* the disk
    stored,         \* the nodes whose complete result is in the cache
    failures        \* deaths so far

sched == <<pc, di, status, ops, plan, tasks, total_threads, total_mem_cost>>
workers == <<phase, used>>
vars == <<sched, slot, workers, stored, failures>>

-----------------------------------------------------------------------------
(* The tree.                                                               *)

Kids(n) == {Append(n, 0), Append(n, 1)} \cap Node

Parent(n) == SubSeq(n, 1, Len(n) - 1)

NodeIsLeaf(n) == Kids(n) = {}

\* The positions from the root down to n.
Path(n) == {SubSeq(n, 1, k) : k \in 0 .. Len(n)}

\* node_get_next comes to m before it comes to n: a node first, then its left
\* subtree, then its right one.
Before(m, n) ==
    \/ m \in Path(n) \ {n}
    \/ \E k \in 0 .. Len(m) - 1 :
        /\ k < Len(n)
        /\ SubSeq(m, 1, k) = SubSeq(n, 1, k)
        /\ m[k + 1] < n[k + 1]

-----------------------------------------------------------------------------
(* The scheduler's books.                                                  *)

Active == {i \in Slots : tasks[i] # NoNode}

HasSlot == Cardinality(Active) < NProcess

FreeIndex == CHOOSE i \in Slots \ Active : \A j \in Slots \ Active : i <= j

\* Mutant: one thread too many is taken for free.
FreeThreadsOff == IF total_threads > NProcess THEN 0
                  ELSE NProcess - total_threads + 1

FreeThreads == IF total_threads >= NProcess THEN 0 ELSE NProcess - total_threads

\* Mutant: the new task's own cost is left out.
HasMemoryBooked(cost) == total_mem_cost < MemMax

HasMemory(cost) == total_mem_cost + cost < MemMax

\* B(stdc_bit_width(k) - 1): the top power of two in k.
PowersOfTwo(k) == {p \in 1 .. k : p = 1 \/ \E e \in 1 .. k : p = 2^e}

FloorPowerOfTwo(k) ==
    CHOOSE p \in PowersOfTwo(k) : \A q \in PowersOfTwo(k) : q <= p

NodeThreadsCeiling(n) == IF NodeIsLeaf(n) THEN 1 ELSE JoinCeiling[n]

NodeThreads(n, free) ==
    LET ceiling == NodeThreadsCeiling(n)
    IN  FloorPowerOfTwo(IF ceiling < free THEN ceiling ELSE free)

NodeEstimateMemory(n, threads) ==
    IF NodeIsLeaf(n) THEN LeafCost ELSE JoinCost[n][threads]

\* Pricing a join reads its operands' sizes from the files of its children,
\* once: ops_set keeps them for the life of the node.
\* Mutant: ops_set is never set.
OpSizesUncached(nodes) == ops' = ops

NodeOpSizes(nodes) == ops' = ops \cup {n \in nodes : ~NodeIsLeaf(n)}

NoPlan == [threads |-> 0, mem_cost |-> 0]

-----------------------------------------------------------------------------
(* The walk, node_get_next from the root.  It creates the children of      *)
(* every node it comes to, those whose result is in the cache as done, and *)
(* ends at the first node it takes or halts at.                            *)

\* Mutant: the cache is not looked at before a node is made.
GrownUnchecked(n) == IF status[n] = "unmade" THEN "open" ELSE status[n]

\* Mutant: nothing says that a node is being processed.
GrownUnmarked(n) ==
    IF status[n] = "unmade"
    THEN IF n \in stored THEN "done" ELSE "open"
    ELSE IF status[n] = "processing" THEN "open" ELSE status[n]

\* What a node is once its parent has been visited.
Grown(n) ==
    IF status[n] = "unmade"
    THEN IF n \in stored THEN "done" ELSE "open"
    ELSE status[n]

\* A walk that is never stopped comes to n.
Reached(n) == \A m \in Path(n) : Grown(m) = "open"

\* Mutant: one child is enough.
ReadyEither(n) == NodeIsLeaf(n) \/ \E k \in Kids(n) : Grown(k) = "done"

Ready(n) == \A k \in Kids(n) : Grown(k) = "done"

GatesOpen == FreeThreads > 0 /\ total_mem_cost < MemLaunch

\* Mutant: a task is as wide as the whole machine allows.
LaunchThreadsWide(n) == NodeThreads(n, NProcess)

LaunchThreads(n) == NodeThreads(n, FreeThreads)

LaunchCost(n) == NodeEstimateMemory(n, LaunchThreads(n))

\* Mutant: a node that does not fit is not launched, even with nothing running.
CanLaunchNeverAlone(n) ==
    CASE ~GatesOpen -> "halt"
      [] GatesOpen /\ ~Ready(n) -> "skip"
      [] GatesOpen /\ Ready(n) ->
            IF HasMemory(LaunchCost(n)) THEN "take"
            ELSE IF NodeIsLeaf(n) \/ tasks[0] = NoNode THEN "halt"
            ELSE "skip"

\* node_can_launch
NodeCanLaunch(n) ==
    CASE ~GatesOpen -> "halt"
      [] GatesOpen /\ ~Ready(n) -> "skip"
      [] GatesOpen /\ Ready(n) ->
            IF HasMemory(LaunchCost(n)) \/ Active = {} THEN "take"
            ELSE IF NodeIsLeaf(n) \/ tasks[0] = NoNode THEN "halt"
            ELSE "skip"

\* The walk as it goes comes to n: it neither takes a node nor halts before.
Visited(n) ==
    /\ Reached(n)
    /\ \A m \in Node :
        Before(m, n) /\ Reached(m) => NodeCanLaunch(m) = "skip"

Taken == {n \in Node : Visited(n) /\ NodeCanLaunch(n) = "take"}

Walked == [n \in Node |-> IF n # Root /\ Visited(Parent(n))
                          THEN Grown(n) ELSE status[n]]

\* The nodes the walk gets as far as pricing.
Priced == {n \in Node : GatesOpen /\ Ready(n) /\ Visited(n)}

-----------------------------------------------------------------------------
(* The scheduler process.                                                  *)

\* task_start, of the node the walk took.
TaskStart(n, i) ==
    LET p == [threads |-> LaunchThreads(n), mem_cost |-> LaunchCost(n)]
    IN  /\ status' = [Walked EXCEPT ![n] = "processing"]
        /\ plan' = [plan EXCEPT ![n] = p]
        /\ tasks' = [tasks EXCEPT ![i] = n]
        /\ slot' = [slot EXCEPT ![i] = [threads |-> p.threads, closed |-> FALSE]]
        /\ total_threads' = total_threads + p.threads
        /\ total_mem_cost' = total_mem_cost + p.mem_cost
        /\ phase' = [phase EXCEPT ![i] = "run"]
        /\ used' = [used EXCEPT ![i] = 0]

\* A round of the launch loop that takes a node.
Launch ==
    /\ pc = "launch"
    /\ HasSlot
    /\ NodeOpSizes(Priced)
    /\ \E n \in Taken : TaskStart(n, FreeIndex)
    /\ UNCHANGED <<pc, di, stored, failures>>

\* The round that launches nothing; task_donate comes next.
EndLaunch ==
    /\ pc = "launch"
    /\ \/ /\ ~HasSlot
          /\ UNCHANGED <<status, ops>>
       \/ /\ HasSlot
          /\ Taken = {}
          /\ NodeOpSizes(Priced)
          /\ status' = Walked
    /\ pc' = "donate"
    /\ di' = 0
    /\ UNCHANGED <<plan, tasks, total_threads, total_mem_cost, slot, workers,
                   stored, failures>>

\* The tasks from index di on whose slot is read open.
Candidates == {i \in Active : i >= di /\ ~slot[i].closed}

\* task_donate's loop reads slots up to the first that is not closed.  A slot
\* read closed stays closed, so passing over it now or earlier is the same.
DonateLoad ==
    /\ pc = "donate"
    /\ HasSlot
    /\ Candidates # {}
    /\ di' = CHOOSE i \in Candidates : \A j \in Candidates : i <= j
    /\ pc' = "offer"
    /\ UNCHANGED <<status, ops, plan, tasks, total_threads, total_mem_cost, slot,
                   workers, stored, failures>>

\* Pricing the wider plan and offering it.  The exchange compares the slot with
\* what was read; the scheduler alone writes grants, so only the worker's
\* closing of the slot in between can make it fail.
OfferThreads(n) == NodeThreads(n, FreeThreads + plan[n].threads)
OfferCost(n)    == NodeEstimateMemory(n, OfferThreads(n))

\* Mutants: the task's old booking is not given back; its new one not made.
OfferTotalTwice(n)   == total_mem_cost + OfferCost(n)
OfferTotalReturned(n) == total_mem_cost - plan[n].mem_cost

OfferTotal(n)   == total_mem_cost - plan[n].mem_cost + OfferCost(n)

\* Mutant: the grant is stored without comparing the slot.
OfferBlind(n, i) ==
    /\ OfferThreads(n) > plan[n].threads
    /\ OfferTotal(n) < MemMax

OfferHolds(n, i) ==
    /\ OfferThreads(n) > plan[n].threads
    /\ OfferTotal(n) < MemMax
    /\ ~slot[i].closed

DonateAccepted ==
    LET n == tasks[di]
    IN  /\ pc = "offer"
        /\ OfferHolds(n, di)
        /\ NodeOpSizes({n})
        /\ slot' = [slot EXCEPT ![di].threads = OfferThreads(n)]
        /\ total_threads' = total_threads + (OfferThreads(n) - plan[n].threads)
        /\ total_mem_cost' = OfferTotal(n)
        /\ plan' = [plan EXCEPT ![n] = [threads  |-> OfferThreads(n),
                                        mem_cost |-> OfferCost(n)]]
        /\ pc' = "donate"
        /\ di' = di + 1
        /\ UNCHANGED <<status, tasks, workers, stored, failures>>

DonateRefused ==
    /\ pc = "offer"
    /\ ~OfferHolds(tasks[di], di)
    /\ NodeOpSizes({tasks[di]})
    /\ pc' = "donate"
    /\ di' = di + 1
    /\ UNCHANGED <<status, plan, tasks, total_threads, total_mem_cost, slot,
                   workers, stored, failures>>

DonateEnd ==
    /\ pc = "donate"
    /\ ~HasSlot \/ Candidates = {}
    /\ pc' = "wait"
    /\ di' = 0
    /\ UNCHANGED <<status, ops, plan, tasks, total_threads, total_mem_cost, slot,
                   workers, stored, failures>>

\* waitpid returns a worker that exited cleanly: task_end.
TaskEnd(i) ==
    LET n == tasks[i]
    IN  /\ pc = "wait"
        /\ phase[i] = "exited"
        /\ tasks' = [tasks EXCEPT ![i] = NoNode]
        /\ total_threads' = total_threads - plan[n].threads
        /\ total_mem_cost' = total_mem_cost - plan[n].mem_cost
        /\ plan' = [plan EXCEPT ![n] = NoPlan]
        /\ status' = [status EXCEPT ![n] = "done"]
        /\ phase' = [phase EXCEPT ![i] = "none"]
        /\ used' = [used EXCEPT ![i] = 0]
        /\ pc' = IF n = Root THEN "done" ELSE "launch"
        /\ UNCHANGED <<di, ops, slot, stored, failures>>

\* waitpid returns one that did not: task_check_exit traps, and the other
\* workers are left to run on without a scheduler.
TaskCheckExit(i) ==
    /\ pc = "wait"
    /\ phase[i] = "failed"
    /\ pc' = "down"
    /\ UNCHANGED <<di, status, ops, plan, tasks, total_threads, total_mem_cost,
                   slot, workers, stored, failures>>

-----------------------------------------------------------------------------
(* A worker.  A leaf evaluates its piece and commits it; it never touches  *)
(* its slot.  A join closes its slot as it takes the grant of its last     *)
(* multiplication, commits, and deletes its inputs one after the other.    *)

CloseSlot(i) ==
    /\ phase[i] = "run"
    /\ ~NodeIsLeaf(tasks[i])
    /\ slot' = [slot EXCEPT ![i].closed = TRUE]
    /\ used' = [used EXCEPT ![i] = slot[i].threads]
    /\ phase' = [phase EXCEPT ![i] = "closed"]
    /\ UNCHANGED <<sched, stored, failures>>

Commit(i) ==
    /\ \/ phase[i] = "run" /\ NodeIsLeaf(tasks[i])
       \/ phase[i] = "closed"
    /\ stored' = stored \cup {tasks[i]}
    /\ phase' = [phase EXCEPT ![i] = "committed"]
    /\ UNCHANGED <<sched, slot, used, failures>>

Deleted(n, index) == {Append(n, index)} \ Kept

\* Mutant: a join deletes its left input before it commits.
DeleteEarly(i) ==
    /\ phase[i] = "closed"
    /\ stored' = stored \ Deleted(tasks[i], 0)
    /\ phase' = [phase EXCEPT ![i] = "committed"]
    /\ UNCHANGED <<sched, slot, used, failures>>

DeleteLeft(i) ==
    /\ phase[i] = "committed"
    /\ ~NodeIsLeaf(tasks[i])
    /\ stored' = stored \ Deleted(tasks[i], 0)
    /\ phase' = [phase EXCEPT ![i] = "deleting"]
    /\ UNCHANGED <<sched, slot, used, failures>>

Exit(i) ==
    /\ \/ phase[i] = "deleting" /\ stored' = stored \ Deleted(tasks[i], 1)
       \/ phase[i] = "committed" /\ NodeIsLeaf(tasks[i]) /\ UNCHANGED stored
    /\ phase' = [phase EXCEPT ![i] = "exited"]
    /\ UNCHANGED <<sched, slot, used, failures>>

WorkerStep(i) == CloseSlot(i) \/ Commit(i) \/ DeleteLeft(i) \/ Exit(i)

-----------------------------------------------------------------------------
(* Failures and a new start.                                               *)

Live == {"run", "closed", "committed", "deleting"}

\* A worker is killed, or fails an assertion or a file operation.
WorkerDies(i) ==
    /\ phase[i] \in Live
    /\ failures < MaxFailures
    /\ phase' = [phase EXCEPT ![i] = "failed"]
    /\ failures' = failures + 1
    /\ UNCHANGED <<sched, slot, used, stored>>

\* The machine goes down: the scheduler and every worker are gone at once.
Crash ==
    /\ pc # "done"
    /\ failures < MaxFailures
    /\ pc' = "down"
    /\ phase' = [i \in Slots |-> IF phase[i] \in Live THEN "failed" ELSE phase[i]]
    /\ failures' = failures + 1
    /\ UNCHANGED <<di, status, ops, plan, tasks, total_threads, total_mem_cost,
                   slot, used, stored>>

\* What memory holds when scheduler() is entered with the cache as it stands;
\* a stored root leaves it nothing to do.
FreshStatus == [n \in Node |-> IF n = Root THEN "open" ELSE "unmade"]

\* The program is started again, once no worker of the last run is left.
Restart ==
    /\ pc = "down"
    /\ \A i \in Slots : phase[i] \notin Live
    /\ pc' = IF Root \in stored THEN "done" ELSE "launch"
    /\ di' = 0
    /\ status' = FreshStatus
    /\ ops' = {}
    /\ plan' = [n \in Node |-> NoPlan]
    /\ tasks' = [i \in Slots |-> NoNode]
    /\ total_threads' = 0
    /\ total_mem_cost' = 0
    /\ slot' = [i \in Slots |-> [threads |-> 0, closed |-> FALSE]]
    /\ phase' = [i \in Slots |-> "none"]
    /\ used' = [i \in Slots |-> 0]
    /\ UNCHANGED <<stored, failures>>

Done == pc = "done" /\ UNCHANGED vars

-----------------------------------------------------------------------------

Init ==
    /\ stored \in SUBSET Shared
    /\ failures = 0
    /\ pc = IF Root \in stored THEN "done" ELSE "launch"
    /\ di = 0
    /\ status = FreshStatus
    /\ ops = {}
    /\ plan = [n \in Node |-> NoPlan]
    /\ tasks = [i \in Slots |-> NoNode]
    /\ total_threads = 0
    /\ total_mem_cost = 0
    /\ slot = [i \in Slots |-> [threads |-> 0, closed |-> FALSE]]
    /\ phase = [i \in Slots |-> "none"]
    /\ used = [i \in Slots |-> 0]

SchedulerStep ==
    \/ Launch
    \/ EndLaunch
    \/ DonateLoad
    \/ DonateAccepted
    \/ DonateRefused
    \/ DonateEnd
    \/ \E i \in Slots : TaskEnd(i) \/ TaskCheckExit(i)

Next ==
    \/ SchedulerStep
    \/ \E i \in Slots : WorkerStep(i) \/ WorkerDies(i)
    \/ Crash
    \/ Restart
    \/ Done

Spec == Init /\ [][Next]_vars

\* The scheduler only ever blocks in waitpid, a worker computes and exits
\* without waiting for anything the scheduler does, and a run that went down is
\* started again.
Fairness == /\ WF_vars(SchedulerStep)
            /\ \A i \in Slots : WF_vars(WorkerStep(i))
            /\ WF_vars(Restart)

FairSpec == Spec /\ Fairness

-----------------------------------------------------------------------------
(* Properties.                                                             *)

Phases == {"none", "run", "closed", "committed", "deleting", "exited", "failed"}

\* Every variable has its type.  The totals are unsigned in the code: staying in
\* Nat, they are never taken below zero by giving back what was not booked.
TypeOK ==
    /\ pc \in {"launch", "donate", "offer", "wait", "done", "down"}
    /\ di \in 0 .. NProcess
    /\ status \in [Node -> {"unmade", "open", "processing", "done"}]
    /\ ops \subseteq Node
    /\ plan \in [Node -> [threads: 0 .. NProcess, mem_cost: Nat]]
    /\ tasks \in [Slots -> Node \cup {NoNode}]
    /\ total_threads \in Nat
    /\ total_mem_cost \in Nat
    /\ slot \in [Slots -> [threads: 0 .. NProcess, closed: BOOLEAN]]
    /\ phase \in [Slots -> Phases]
    /\ used \in [Slots -> 0 .. NProcess]
    /\ stored \subseteq Node
    /\ failures \in 0 .. MaxFailures

\* A task runs beside others only below mem_max; over it a task runs alone
\* (scheduler_has_memory and the booking in task_donate, lib/tree/code.c:574,
\* 662-670, 1000-1004; README "mem_max").
MemoryCeiling ==
    \A i, j \in Active : i # j => total_mem_cost < MemMax

\* The threads granted never exceed the n_process the machine was asked for,
\* however grants are rounded, lent and given back (node_threads,
\* lib/tree/code.c:579-620, 985-986), although the dashboard provides for the
\* contrary (dashboard.py:1298-1304, 1314-1317, 1676-1680, 1883-1894).
ThreadBudget == total_threads <= NProcess

\* Why it does, by the comment at dashboard.py:1298-1304: "a node overshooting
\* mem_max is granted the full width in the first slot, on top of what the
\* running tasks already hold".
OvershootGranted ==
    pc = "launch" /\ tasks[0] = NoNode =>
        \A n \in Priced :
            LaunchCost(n) >= MemMax =>
                /\ NodeCanLaunch(n) = "take"
                /\ LaunchThreads(n) = NodeThreads(n, NProcess)

\* What each slot is booked at.
ThreadsOf == [i \in Slots |->
                 IF tasks[i] = NoNode THEN 0 ELSE plan[tasks[i]].threads]

MemoryOf == [i \in Slots |->
                 IF tasks[i] = NoNode THEN 0 ELSE plan[tasks[i]].mem_cost]

\* The sum of a map over the slots.
SlotSum(f) == LET sum[k \in 0 .. NProcess] ==
                    IF k = 0 THEN 0 ELSE sum[k - 1] + f[k - 1]
              IN  sum[NProcess]

\* The totals are the sums of the plans of the tasks that are active, and each
\* plan is the grant in its slot priced at that many threads: what a task is
\* given back at its end is what it was booked at, however often it was lent
\* threads in between (task_start, task_donate and task_end).
Books ==
    /\ total_threads  = SlotSum(ThreadsOf)
    /\ total_mem_cost = SlotSum(MemoryOf)
    /\ \A i \in Active :
        LET n == tasks[i]
        IN  /\ slot[i].threads = plan[n].threads
            /\ plan[n].threads \in 1 .. NProcess
            /\ plan[n].mem_cost = NodeEstimateMemory(n, plan[n].threads)

\* No two workers are ever computing the same node, and the walk takes no node a
\* worker was forked for: they would write one file and delete one another's
\* inputs (node->processing, lib/tree/code.c:622-625, 862).
TasksSeparate ==
    /\ \A i \in Active : status[tasks[i]] = "processing"
    /\ \A i, j \in Active : i # j => tasks[i] # tasks[j]

\* With no free slot there are no idle threads, which is why task_donate need
\* not look at the tasks then (its comment, lib/tree/code.c:966-967).
NoIdleWhenFull == ~HasSlot => FreeThreads = 0

\* A donation is never booked against a worker that will not read it: from the
\* moment a join has closed its slot, the grant it computes with is the one
\* its plan is charged for (lib/tree/code.c:958-963, 1006-1007).
GrantRead ==
    \A i \in Active :
        slot[i].closed => used[i] = plan[tasks[i]].threads

\* A join that has not committed still has both its inputs in the cache, so
\* none of its loads can find a file missing, in the first run or in one
\* started over what another left behind.
JoinInputsStored ==
    \A i \in Slots :
        phase[i] \in {"run", "closed"} => Kids(tasks[i]) \subseteq stored

\* No worker computes a result that is already in the cache, nor one that a
\* result in the cache already covers: neither its node nor any above it is
\* stored, through deaths and restarts over what was left.
NothingRecomputed ==
    \A i \in Slots :
        phase[i] \in {"run", "closed"} => Path(tasks[i]) \cap stored = {}

\* Wherever the scheduler prices a node whose operand sizes it has not cached,
\* the children's files are there to read them from; a donation may price a
\* join whose worker is already deleting them (lib/tree/code.c:405-408, 986).
OpSizesReadable ==
    /\ pc = "offer" => \/ tasks[di] \in ops
                       \/ Kids(tasks[di]) \subseteq stored
    /\ pc = "launch" =>
        \A n \in Priced \ ops : Kids(n) \subseteq stored

\* waitpid always has a worker to wait for: a launch pass never leaves the
\* scheduler with nothing running, however tight the budgets are.
WaitHasWorker == pc \in {"donate", "offer", "wait"} => Active # {}

\* When the root's task ends nothing else is running and nothing is booked.
QuietAtEnd ==
    pc = "done" => /\ Root \in stored
                   /\ Active = {}
                   /\ total_threads = 0
                   /\ total_mem_cost = 0

\* Lending only ever raises a running task's grant, and only before it has
\* closed its slot (lib/tree/code.c:958-963).
LendingOnlyRaises ==
    [][\A i \in Active :
        tasks'[i] = tasks[i] =>
            /\ slot'[i].threads >= slot[i].threads
            /\ slot[i].closed => slot'[i] = slot[i]]_vars

\* What README.md:92-95 and the comment at lib/tree/code.c:88-90 say of a node
\* that cannot be afforded: while it waits, no smaller task that the walk would
\* come to after it is started in its place.
NoOvertaking ==
    [][\A i \in Slots : tasks[i] = NoNode /\ tasks'[i] # NoNode =>
        \A n \in Node :
            Reached(n) /\ Ready(n) /\ Before(n, tasks'[i])
                => HasMemory(LaunchCost(n))]_vars

\* Every run comes to its end with the root's result in the cache, through a
\* bounded number of deaths and new starts.
Finishes == <>(pc = "done")

\* What the scheduler and its workers do to the cache is what the abstract
\* cache of results allows and promises.
Cache == INSTANCE ResultCache
CacheRefined == Cache!Spec

=============================================================================
