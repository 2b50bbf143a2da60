----------------------------- MODULE LogParser -----------------------------
(***************************************************************************)
(* The parser of dashboard.py: a State and, for every function that logs,  *)
(* the handler that folds one of its records into it.  A record is [fn,    *)
(* ...] with the fields its handler's regular expression captures; fn is   *)
(* the name before the first bar, which DISPATCH keys on.  Handlers are    *)
(* operators from State to State, None is 0 for a number that is positive  *)
(* when there is one, and the durations kept to average over are counted.  *)
(***************************************************************************)
EXTENDS NodeTree, TLC

CONSTANTS
    ArgSize,        \* --size, or 0
    ArgNProcess     \* --n-process, or 0

ASSUME ArgAssumption == ArgSize \in Nat /\ ArgNProcess \in Nat

NoKey == <<0, 0>>

NoHalt == "no halt"

\* State.__init__, but for what the frames use of it.
FreshState(prev_config) ==
    [total_pieces |-> 0, n_process_logged |-> 0, mem_launch |-> 0, mem_max |-> 0,
     disk_lock_enabled |-> TRUE,
     config |-> << >>, prev_config |-> prev_config, config_diff |-> {},
     pieces_done |-> 0, joins_done |-> 0, piece_events |-> 0, join_events |-> 0,
     lock_requests |-> 0, lock_misses |-> 0, locking_pids |-> {},
     active |-> << >>, active_max |-> 0,
     threads_seen |-> FALSE, threads_reported |-> 0, thread_time |-> 0,
     booked_time |-> 0, thread_span |-> 0, thread_last_ts |-> 0,
     phase |-> "splitting", index_max |-> 0, chunk_span |-> 0,
     tree_chunk_span |-> 0, tree |-> NoTree,
     mem_booked |-> 0, halt |-> NoHalt, halt_seen |-> FALSE,
     task_exit |-> NoPid, done |-> FALSE]

\* What setdefault makes of a pid that is not in active yet.
NewEntry == [node |-> NoKey, resumed |-> FALSE, threads |-> 0,
             threads_live |-> 0, mem |-> 0, micro |-> NoText]

Known(st, pid) == pid \in DOMAIN st.active

EntryOf(st, pid) == IF Known(st, pid) THEN st.active[pid] ELSE NewEntry

SetEntry(st, pid, entry) ==
    [st EXCEPT !.active = [p \in DOMAIN @ \cup {pid} |->
                               IF p = pid THEN entry ELSE @[p]]]

DropEntry(st, pid) == [st EXCEPT !.active = Restrict(@, DOMAIN @ \ {pid})]

NodeOf(st, key) == IF key \in DOMAIN st.tree THEN key ELSE NoKey

-----------------------------------------------------------------------------
(* Readings of the threads that thread_tick accumulates.                   *)

SumOfEntries(st, f(_)) ==
    MapThenSumSet(LAMBDA pid : f(st.active[pid]), DOMAIN st.active)

\* entry_threads
EntryThreads(e) == IF e.threads_live # 0 THEN e.threads_live ELSE e.threads

\* thread_budget
ThreadBudget(st) ==
    IF st.n_process_logged # 0 THEN st.n_process_logged ELSE ArgNProcess

\* The root computes alone, on every thread.
InRoot(st) == st.phase \in {"dividing", "displaying"}

ActiveThreads(st) ==
    IF InRoot(st) THEN ThreadBudget(st)
    ELSE IF ~st.threads_seen THEN st.threads_reported
    ELSE SumOfEntries(st, EntryThreads)

BookedThreads(st) ==
    IF InRoot(st) THEN ThreadBudget(st)
    ELSE IF ~st.threads_seen THEN st.threads_reported
    ELSE SumOfEntries(st, LAMBDA e : e.threads)

IsSingleThreadPhase(micro) == micro \in {"loading", "writing", "adding"}

\* blocked_threads, as <<waiting, io>>
BlockedThreads(st) ==
    << SumOfEntries(st, LAMBDA e :
           IF e.micro = "locking" THEN EntryThreads(e) ELSE 0),
       SumOfEntries(st, LAMBDA e :
           IF IsSingleThreadPhase(e.micro) /\ EntryThreads(e) # 0
           THEN EntryThreads(e) - 1 ELSE 0) >>

CappedAtBudget(st, threads) ==
    IF ThreadBudget(st) = 0 THEN threads ELSE AtMost(threads, ThreadBudget(st))

WorkingThreads(st) ==
    LET blocked == BlockedThreads(st)
    IN  CappedAtBudget(st, AtLeast(0, ActiveThreads(st) - blocked[1] - blocked[2]))

BookedCapped(st) == CappedAtBudget(st, BookedThreads(st))

\* Mutant: a late stamp takes the cursor back with it.
TickBackwards(st, ts) ==
    LET dt == AtLeast(0, ts - st.thread_last_ts)
    IN  IF ~st.threads_seen THEN st
        ELSE [st EXCEPT !.thread_time = @ + WorkingThreads(st) * dt,
                        !.booked_time = @ + BookedCapped(st) * dt,
                        !.thread_span = @ + dt,
                        !.thread_last_ts = ts]

\* thread_tick
ThreadTick(st, ts) ==
    LET dt == ts - st.thread_last_ts
    IN  IF ~st.threads_seen \/ dt <= 0 THEN st
        ELSE [st EXCEPT !.thread_time = @ + WorkingThreads(st) * dt,
                        !.booked_time = @ + BookedCapped(st) * dt,
                        !.thread_span = @ + dt,
                        !.thread_last_ts = ts]

-----------------------------------------------------------------------------
(* A node and the entry of its pid.                                        *)

\* attach_task_plan
AttachTaskPlan(st, pid, key) ==
    IF key = NoKey \/ ~Known(st, pid) THEN st
    ELSE LET e == st.active[pid]
             n == st.tree[key]
         IN  [st EXCEPT !.tree[key] =
                [n EXCEPT
                    !.threads = IF e.threads # 0 THEN e.threads ELSE @,
                    !.threads_live = IF e.threads # 0 THEN e.threads_live ELSE @,
                    !.mem_estimate = IF e.mem # 0 THEN e.mem ELSE @]]

SetPhase(st, name) == [st EXCEPT !.phase = name]

\* Mutant: "begin" leaves the plan to the "task start" that is to follow.
BeginUnattached(st, r) ==
    LET key == NodeOf(st, r.key)
        s1  == SetEntry(st, r.pid, [EntryOf(st, r.pid) EXCEPT
                                        !.node = key, !.resumed = FALSE])
    IN  IF key = NoKey THEN s1
        ELSE [s1 EXCEPT !.tree =
                 MarkActive([@ EXCEPT ![key].in_progress = TRUE,
                                      ![key].pid = r.pid], key, 1)]

HandleBegin(st, r) ==
    LET key == NodeOf(st, r.key)
        s1  == SetEntry(st, r.pid, [EntryOf(st, r.pid) EXCEPT
                                        !.node = key, !.resumed = FALSE])
        s2  == [s1 EXCEPT !.tree[key].in_progress = TRUE, !.tree[key].pid = r.pid]
        s3  == AttachTaskPlan(s2, r.pid, key)
    IN  IF key = NoKey THEN s1
        ELSE [s3 EXCEPT !.tree = MarkActive(@, key, 1)]

HandleAlreadyStored(st, r) ==
    LET key     == NodeOf(st, r.key)
        covered == LeavesCovered(r.key)
        s1      == [DropEntry(st, r.pid) EXCEPT !.pieces_done = @ + covered,
                                                !.joins_done = @ + covered - 1]
    IN  IF key = NoKey THEN s1
        ELSE [s1 EXCEPT !.tree =
                 MarkNodeDone(MarkUnitsDone(MarkLeavesDone(@, key, covered),
                                            key, 2 * covered - 1), key)]

HandleJoining(st, r) ==
    LET key == NodeOf(st, r.key)
    IN  IF key = NoKey \/ r.mem = 0 THEN st
        ELSE [st EXCEPT !.tree[key].mem_estimate = r.mem]

\* A join that skipped terms another run committed is never sampled.
HandleJoined(st, r) ==
    LET key == NodeOf(st, r.key)
        s1  == [st EXCEPT !.joins_done = @ + 1,
                          !.join_events = IF EntryOf(st, r.pid).resumed THEN @
                                          ELSE @ + 1]
    IN  IF key = NoKey THEN s1
        ELSE [s1 EXCEPT !.tree = MarkNodeDone(MarkUnitsDone(@, key, 1), key)]

HandlePiece(st, r) ==
    LET key == NodeOf(st, r.key)
        s1  == [st EXCEPT !.pieces_done = @ + 1, !.piece_events = @ + 1]
    IN  IF key = NoKey THEN s1
        ELSE [s1 EXCEPT !.tree =
                 MarkNodeDone(MarkUnitsDone(MarkLeavesDone(@, key, 1), key, 1),
                              key)]

\* A piece logs no level, so its record falls through to handle_piece.
HandleNodeProcess(st, r) ==
    CASE r.action = "begin"          -> HandleBegin(st, r)
      [] r.action = "already stored" -> HandleAlreadyStored(st, r)
      [] r.action = "joining"        -> HandleJoining(st, r)
      [] r.action = "joined"         -> HandleJoined(st, r)
      [] r.action = "piece"          -> HandlePiece(st, r)

-----------------------------------------------------------------------------
(* handle_phase_line: the entry of the pid, the lock, then the node.  A    *)
(* "mul ..." header carries its term and is no phase.                      *)

PhaseEntry(e, r) ==
    [e EXCEPT !.micro = IF r.term = NoText THEN r.action ELSE @,
              !.threads_live = IF r.action = "multiplying" /\ e.threads # 0
                               THEN e.threads ELSE @,
              !.resumed = @ \/ r.action = "resumed"]

\* lock_tokens_seen is left out: every build with a run marker logs HIT or MISS.
PhaseLock(st, r) ==
    CASE r.action = "locking" -> [st EXCEPT !.locking_pids = @ \cup {r.pid}]
      [] r.action = "locked" ->
            [st EXCEPT !.locking_pids = @ \ {r.pid},
                       !.lock_requests = @ + 1,
                       !.lock_misses = @ + (IF r.lock = "MISS" THEN 1 ELSE 0)]
      [] OTHER -> st

PhaseNode(n, r) ==
    IF r.term # NoText THEN [n EXCEPT !.term = r.term]
    ELSE [n EXCEPT !.micro = r.action]

HandlePhaseLine(st, r) ==
    LET key == EntryOf(st, r.pid).node
        s1  == IF Known(st, r.pid)
               THEN SetEntry(st, r.pid, PhaseEntry(st.active[r.pid], r))
               ELSE st
        s2  == PhaseLock(s1, r)
        s3  == [s2 EXCEPT !.tree[key] = PhaseNode(@, r)]
    IN  IF key = NoKey THEN s2
        ELSE IF r.action = "multiplying" THEN AttachTaskPlan(s3, r.pid, key)
        ELSE s3

-----------------------------------------------------------------------------
(* The scheduler's records.                                                *)

\* Mutant: a donation counts as picked up the moment it is logged.
StartRaisesLive(st, r, ts) ==
    LET e  == [EntryOf(st, r.pid) EXCEPT !.mem = r.mem, !.threads = r.thr,
                                         !.threads_live = r.thr]
        s1 == [st EXCEPT !.halt = IF r.fn = "task_start" THEN NoHalt ELSE @,
                         !.threads_seen = TRUE,
                         !.thread_last_ts = IF st.threads_seen THEN @ ELSE ts]
    IN  AttachTaskPlan(SetEntry(s1, r.pid, e), r.pid, e.node)

\* "task start" and "task donate": a launch clears the halt and is in force at
\* once, a donation only once the worker multiplies next.
HandleTaskStart(st, r, ts) ==
    LET start == r.fn = "task_start"
        e  == [EntryOf(st, r.pid) EXCEPT
                   !.mem = r.mem, !.threads = r.thr,
                   !.threads_live = IF start THEN r.thr ELSE @]
        s1 == [st EXCEPT !.halt = IF start THEN NoHalt ELSE @,
                         !.threads_seen = TRUE,
                         !.thread_last_ts = IF st.threads_seen THEN @ ELSE ts]
    IN  AttachTaskPlan(SetEntry(s1, r.pid, e), r.pid, e.node)

HandleTaskEnd(st, r) ==
    [DropEntry(st, r.pid) EXCEPT !.locking_pids = @ \ {r.pid}]

HandleTaskExit(st, r) ==
    [DropEntry(st, r.pid) EXCEPT !.locking_pids = @ \ {r.pid},
                                 !.task_exit = r.pid]

HandleScheduler(st, r) ==
    CASE r.action = "active processes" -> [st EXCEPT !.active_max = AtLeast(@, r.val)]
      [] r.action = "active threads" -> [st EXCEPT !.threads_reported = r.val]
      [] r.action = "active memory"  -> [st EXCEPT !.mem_booked = r.val]

HandleHalt(st, r) == [st EXCEPT !.halt_seen = TRUE, !.halt = r.reason]

-----------------------------------------------------------------------------
(* The root's records: the run's configuration and its phases.             *)

\* apply_index_max
ApplyIndexMax(st, index_max) ==
    [st EXCEPT !.total_pieces = index_max \div PiecesPerLeaf,
               !.index_max = index_max,
               !.tree_chunk_span = st.chunk_span,
               !.tree = IF st.chunk_span = 0 THEN NoTree
                        ELSE BuildTree(index_max, st.chunk_span)]

HandleConfigOf(st, name, val) ==
    CASE name = "piece size" ->
            IF st.total_pieces = 0 /\ ArgSize # 0
            THEN ApplyIndexMax(st, GetIndexMax(ArgSize)) ELSE st
      [] name = "run size" ->
            IF st.total_pieces # val \div PiecesPerLeaf
            THEN ApplyIndexMax(st, val) ELSE st
      [] name = "chunk span" ->
            LET s1 == [st EXCEPT !.chunk_span = val]
            IN  IF st.index_max # 0 /\ val # st.tree_chunk_span
                THEN ApplyIndexMax(s1, st.index_max) ELSE s1
      [] name = "n process"  -> [st EXCEPT !.n_process_logged = val]
      [] name = "mem launch" -> [st EXCEPT !.mem_launch = val]
      [] name = "mem max"    -> [st EXCEPT !.mem_max = val]
      [] name = "disk lock"  -> [st EXCEPT !.disk_lock_enabled = (val # 0)]
      [] OTHER -> st

HandleConfig(st, name, val) ==
    LET prev == st.prev_config
    IN  HandleConfigOf(
            [st EXCEPT
                !.config = (name :> val) @@ @,
                !.config_diff = IF name \in DOMAIN prev /\ prev[name] # val
                                THEN @ \cup {name} ELSE @],
            name, val)

\* "pi already stored": everything the split would have done is.
AllDone(st) ==
    LET root == <<1, st.index_max>>
        s1   == IF st.total_pieces = 0 THEN st
                ELSE [st EXCEPT !.pieces_done = st.total_pieces,
                                !.joins_done = st.total_pieces - 1]
        L    == st.tree[root].leaves_total
    IN  IF st.tree = NoTree THEN s1
        ELSE [s1 EXCEPT !.tree =
                 MarkNodeDone(MarkUnitsDone(MarkLeavesDone(@, root, L),
                                            root, 2 * L - 1), root)]

HandlePhase(st, action) ==
    CASE action \in {"dividing", "divided", "binary split solved"} ->
            SetPhase(st, action)
      [] action = "pi already stored" -> AllDone(SetPhase(st, action))
      [] action = "display begin" -> SetPhase(st, "displaying")
      [] action = "display end" ->
            [SetPhase(st, "displayed") EXCEPT !.done = TRUE]

-----------------------------------------------------------------------------
(* feed_line.  RE_TS, and so thread_tick, only sees the records that carry *)
(* a task's index, pid and stamp.                                          *)

Stamped == {"node_process", "split_piece", "task_start", "task_donate", "task_end"}

\* DISPATCH
Handle(st, r, ts) ==
    CASE r.fn = "node_process"    -> HandleNodeProcess(st, r)
      [] r.fn = "split_piece"     -> HandlePhaseLine(st, r)
      [] r.fn \in {"task_start", "task_donate"} -> HandleTaskStart(st, r, ts)
      [] r.fn = "task_end"        -> HandleTaskEnd(st, r)
      [] r.fn = "task_check_exit" -> HandleTaskExit(st, r)
      [] r.fn = "scheduler"       -> HandleScheduler(st, r)
      [] r.fn = "node_can_launch" -> HandleHalt(st, r)
      [] r.fn = "pi_tree"         -> HandleConfig(st, r.action, r.val)
      [] r.fn = "pi"              -> HandlePhase(st, r.action)

FeedLine(st, r, ts) ==
    Handle(IF r.fn \in Stamped THEN ThreadTick(st, ts) ELSE st, r, ts)

=============================================================================
