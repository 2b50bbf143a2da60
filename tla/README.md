# Pi Threads: TLA+ models, checks and proofs

Pi Threads computes π by binary splitting. One scheduler process walks a tree of
partial results, forks a worker for each node it can afford in threads and
memory, and the workers pass their results to one another as files of `cache/`.
A run takes days and is expected to be killed and started again, so what the
files mean after any death is as much a part of the design as the computation.
What a run does is watched through its log: `dashboard.py` follows the log, rebuilds
the tree from it and draws where the run stands.

This directory models that design in TLA+, checks the models with TLC on small
instances, and proves the invariants of the tree, the scheduler and the joins with
TLAPS.

    tlc -config MCScheduler.cfg MCScheduler     # any module and .cfg below
    tlc -workers 4 -config MCDashboard.cfg MCDashboard
    tlapm TreeProofs.tla                        # or another module of proofs

Paths are relative to the repository (`tree` is `lib/tree/code.c`, `big` is
`lib/big/code.c`, `dash` is `dashboard.py`).

## 1. Inventory

| part | state | operations | interacts with |
|---|---|---|---|
| **tree shape** (`tree:120-346`, `1032-1046`; `big:205-232`) | a node: type (span, big, chain), first index, length, level, chunk span | constructors, `node_expand`, `tree_chunk_span`, the path functions | every other part derives ranges and file names from it, each by itself |
| **scheduler** (`tree:348-1110`) | tasks, plans, `total_threads`, `total_mem_cost`, per-node `processing` and `ops_set` | `node_get_next`, `node_can_launch`, `task_start`, `task_donate`, `task_end`, `task_check_exit` | forks workers; shares one atomic word with each; reads file headers; `waitpid` |
| **joins and cache files** (`big:96-975`) | result files, checkpoints in `tmp/`, `disk.lock`, a task's `lock_held` | evaluate a piece; load, multiply, commit, checkpoint, resume, close, delete | other workers, through the files and the lock; the scheduler, through the slot |
| **result cache** (`cache/`) | which nodes' results are complete | a result appears, a result goes | what scheduler and joins together have to keep true |
| **the series** (`big:1-95`, `get_index_max`) | none | the terms of a piece, P/Q/R of a join | called by the joins |
| **`pi_tree`, `pi_finish`** (`tree:1091`, `big:1417`) | the stored value of π | skip if stored, run the scheduler, divide, save, delete the root | scheduler, cache |
| **`split_span`, `split_big`** (`big:1250-1360`) | none of their own | the sequential recursion over the same joins | unused by `pi_tree` |
| **lib/union** | a number in one of two forms | wrap, unwrap, convert, free | owned by the joins' local variables |
| **lib/split, lib/linear** | none | earlier versions | nothing |
| **the dashboard's tree** (`dash:246-400`) | a node per range: status, counts, the path to running work | rebuild from three numbers of the log, mark done, mark active | must have the program's ranges, or records find no node |
| **log parser** (`dash:708-1218`) | the `State`: entries by pid, totals, the halt, two thread-time integrals | one handler per kind of record | fed by tail, in the order the processes write |
| **readings** (`dash:1256-2312`) | none | totals, badges, the tree view and its ladder, the segments of the bars | read the `State` |
| **tail and the loop** (`dash:2261-2312`, `2458-2529`) | open file, inode, position, a held piece; when it last drew | stat, reopen, read, yield; new `State`, feed, poll, draw | follow a file others write, wipe and replace |
| **run.sh, run_debug.sh** | `thread_log/run.log` | wipe or keep, refuse another configuration, mark, build, start with tee | the program's stderr, the dashboard |
| **submodules** (`araucaria`, `macros`, `clu`) | big numbers, file format | arithmetic, `file_*` | not in the repository; only the file format is modelled, from its use |

What makes it hard, and what correctness means for each part:

- *Tree shape.* Four places work out a child's file name independently
  (`node_expand`, the creation test, `node_op_sizes`, the joins), with different
  rules for its level. Ranges must split exactly, no two ranges may share a name,
  and the four must agree at every size, partial chunks included.
- *Scheduler.* Every decision reads totals that launches, donations and exits
  keep up to date by adding and subtracting unsigned numbers. A donation races the
  worker's closing of its slot. A launch pass must never leave nothing running,
  or `waitpid` fails. Nothing may be launched before its inputs are complete, twice,
  or above the budgets.
- *Joins.* A worker may die between any two steps of a join. The next run has to
  take up from exactly the numbers that were committed, in the same form, whether
  or not the checkpoint survived; inputs may go only when the result is whole; the
  lock is sometimes held from one step into the next, and resumption skips steps.
- *Cache.* A result may be deleted only when one that covers it is there, and the
  root's must come to be there.
- *The dashboard's tree and parser.* Each process stamps and writes its own records
  and the scheduler logs after it acts, so a worker may be heard of before it was
  started, stamps go back, and a record may be lost. Counts kept on every ancestor
  must come out right all the same, and threads must not be shown in use before
  the worker has taken them.
- *Readings.* The ladder flattens a chain while joins run on its rungs: every row
  must still stand for its own digits, and no running work be left out. A bar is
  rounded into cells that have to add up.
- *Tail and the loop, run.sh.* The file may be replaced between any two steps, records
  come in parts, and the process is polled for apart from the log: the last run must
  be read whole, with nothing of another, and the screen must come to tell its end.
- *Outer steps, union.* See "Plan".

`PROJECT.json` lists the hazards one by one, with the property that covers each.

## 2. Modules

| module | what it is |
|---|---|
| `Tree` | the shape of the tree and the names of its files; two cursors walk it |
| `Bits` | powers of two, for the program and the dashboard alike |
| `TreeProofs` | the theorems about `Tree`, and that the dashboard's tree is the same |
| `ResultCache` | abstract: what the cache promises; `Safety` is that without the fairness |
| `Scheduler` | the scheduler and what it can observe of its workers |
| `SchedulerProofs`, `CacheProofs` | the theorems about `Scheduler`: its budgets and the slot it shares with a worker; the cache and the end of a run |
| `Join` | the workers and the files, at the level of single numbers |
| `JoinProofs` | the theorems about `Join` |
| `DashboardProofs`, `ReadingsProofs` | the theorems about `Dashboard`: the tree, the threads it shows and their averages; the books and the bars |
| `MonitorProofs` | the theorem about `Monitor` |
| `CommonLemmas` | positions of a tree, first elements, induction, powers of two, sums over a finite set: what several proofs need |
| `NodeTree` | the dashboard's tree: its builders and its marks |
| `LogParser` | `State` and the handlers of `feed_line`, as functions |
| `Readings` | what is drawn from a `State`: totals, badges, tree view, bars |
| `Dashboard` | `Scheduler` with every process logging, and the parser that reads it |
| `Monitor` | `run.sh` and the program over the log, beside `tail` and `main`'s loop |
| `MCTree`, `MCScheduler`, `MCJoin`, `MCDashboard`, `MCMonitor` | instances for TLC |

`MCScheduler` instantiates `Tree` and assumes, in `ShapeAssumption`, that the set
of positions it schedules is exactly the tree `Tree` makes for its size.
`Scheduler` and `Join` both implement `ResultCache`: the scheduler decides *which*
results are computed and when, the joins show that the files really come and go
as the scheduler's one-step view of a worker has it.
`Dashboard` instantiates `Scheduler` on its own variables, so what the parser is
checked against is the scheduler itself, and `Tree` is checked against `NodeTree`
(`DashboardAgrees`). `Monitor` is about how the text of the log gets to the
parser, and stands by itself: its records are the few that `main`'s loop reads.

### Tree

`NodeSpanCreate` … `NodeChunkedCreate`, `NodeExpand…`, `TreeChunkSpan` and
`NodeChainChunk` are the functions of the same names. A node's `size` is one for
the whole run, so it is a variable of the module and no field. `PathsWritten`,
`PathsTested`, `PathsJoined`, `PathsSized` and `PathsFinished` are the files that
each part of the code writes, looks for, loads and deletes, prices and finishes
with; a path is the tuple of fields its name is formatted from, and the pair of an
exact and a fixed-precision name stands for the functions that try one and
then the other. The state is two nodes of one run's tree, so that a property may
compare *any* two nodes without the model enumerating the tree.

Remarks the model led to:

- With the real constants (`TREE_PIECE_SIZE` 24 and `TREE_CHAIN_BITS` 4) the chunk is
  a single leaf until `index_max` reaches 2^28; from there on a chain has 8 to 16
  chunks.
- `TREE_CHAIN_BITS` may not be 1, which nothing in the code says: a run of a chunk and a
  half would then be made a chain, and `node_chain_create` asserts more than two
  chunks. The proof asks for it (`ChainBitsAssumption`).

### Scheduler

A node is its position in the tree, a sequence of turns. One action is one step
that no other process can split:

| action | code |
|---|---|
| `Launch`, `EndLaunch` | a round of the inner loop of `scheduler` (`tree:1062-1071`): `node_get_next` and, if it takes a node, `task_start` with its `fork` |
| `DonateLoad` | `task_donate` reads the next open slot (`tree:969-984`) |
| `DonateAccepted`, `DonateRefused` | it prices the wider plan and makes the compare-exchange (`tree:985-1012`) |
| `DonateEnd`, `TaskEnd`, `TaskCheckExit` | end of the loop; `waitpid` and `task_end`; `waitpid` and the trap |
| `CloseSlot`, `Commit`, `DeleteLeft`, `Exit` | the worker, as the scheduler can tell (`big:606-632`, `942-949`) |
| `WorkerDies`, `Crash`, `Restart` | a signal, a failed assertion or file operation; the machine; a new start |

The walk is given declaratively: `Visited(n)` says that no node the walk comes to
before `n` is taken or halts it, `Grown` what the creation of children makes of a
node that is in the cache. `status` keeps what `node->processing` and the parent's
`children[]` entry say together. A round is one step: nothing but
deletions by workers happens beside it, and those concern children of nodes that
are being processed, which the walk does not enter. `task_donate`'s loop does run
beside the workers, hence its steps. The operands' sizes are abstracted to the
constants `JoinCost` and `JoinCeiling`, arbitrary functions of the node and
the number of threads: whether they must be read, and whether the files are there
to read them from, is kept (`ops`, `OpSizesReadable`).

### Join

A file is known by the sequence of numbers committed to it and by whether its
`MAGIC_FILE` is there; a number by the term it is the result of. `Combine` knows
which products and sums are terms of the series, and `"wrong"` is everything else,
so a resumed join that reads, skips or appends the wrong one leaves a file that
is not a prefix of P, Q, R, which `TypeOK` forbids.

| action | code |
|---|---|
| `Open` | `*_open_resume` of the form `split_span_res_is_sig` picks (`big:122-170`, `325-352`, `513-531`) |
| `Acquire` | `LOG_READ`, `LOG_WRITE`, `LOG_WRITE_HOLD` taking the lock (`big:533-604`, `635-700`) |
| `LoadPair`, `Multiply`, `WriteNumber` | a term of `split_join_sig`, `split_join_union` |
| `Create`, `SavePiece`, `SavePart` | files written in one go: the truncation, then the content with its magic |
| `DropPart`, `Close`, `DeleteLeft`, `DeleteRight` | the end of a join (`big:821-833`, `930-949`) |
| `Start`, `Die`, `Crash`, `Restart` | the scheduler as `Scheduler` shows it; failures |

With `KEEP_PIECES` off or on (`KeepPieces`), pieces of other runs may be in the
cache at the start, whole or half made. `LOCK_DISK_IO` is taken as defined.

A remark: the comment at `big:533-536` speaks of every write; opening a file for
resumption, `file_write_close`, deletions and the scheduler's header reads are made
without the lock. Nothing checked here depends on it, and the model has
them unlocked as the code does.

### NodeTree, LogParser, Readings

A node is found by its range, `<<first digit, last digit>>`, as `node_index` finds
it, so the tree is a function from ranges to records; `parent` is a field, and the
walks up it are `Ancestors`. `BuildChain` and `BuildSpan` are the builders,
`MarkNodeDone`, `MarkActive` and the rest the functions of the same names. A
`State` is a record with the code's field names. A handler is a function of the
`State` and a record (`HandleNodeProcess`, `HandlePhaseLine`, `HandleTaskStart`, …);
`FeedLine` is `feed_line`, with `thread_tick` ahead of the handler. A record is what
the handler's expression takes out of a line. Its stamp only tells *when*, and is an
argument. `Readings` keeps the numbers of a screen and leaves out how they look.

### Dashboard

The state is that of `Scheduler`, how far each worker is through what it logs
(`at`), what the scheduler has still to log (`out`), and the dashboard's `State`
(`st`).

| action | code |
|---|---|
| `Launch`, `EndLaunch`, `Donate`, `Reap` | the scheduler's actions, with the records they print (`tree:500-1085`); it goes on when they are written |
| `SchedulerLogs` | one of these reaches the parser |
| `WorkerSteps` | a worker logs, takes a grant, closes its slot, commits, deletes or exits, as its script has it (`LeafScript`, `JoinScript`) |
| `Feed` | the record is parsed, with a stamp up to now, or is lost beside another process's |
| `Dies`, `Restart`, `Tick` | deaths; the next run of `run.sh --keep`, which gives a new `State`; a second passes |

A pid is the node its process was forked for: pids are not used twice in a run of the
model. A script has one line of each kind, whatever the number of terms: a second
"loading" changes nothing a first has not. Leaves take the lock at once and joins
wait for it, so both kinds of request are counted. A big node's join logs no "joining"
(`Big`, `tree:747-768`). A commit is one step with the
record that announces it, and so are the deletions with "joined": between the two
the dashboard lags the cache by one record, which no property here is about. A
worker is forked once what the walk logged before it is out. Records are lost
only while two processes are writing, be it two workers or a worker and the scheduler.

Remarks the model led to, none of which a property forbids:

- A "task start" later than all its worker's lines puts the plan back on a finished
  node; nothing reads it there.
- If a "task start" is lost, `entry_threads` falls back on what a donation booked,
  and shows it in use before it is taken. If a "joined" is lost, a rung of the
  ladder may overlap the next. Hence the `Whole` of these properties.
- "run size" before "piece size" would have the handler compute with `None` and
  raise; the program logs them the other way round.
- The averages hold only what was logged: a stretch in which stamps went back
  is counted once, at the totals that stood when a newer stamp ended it.

### Monitor

| action | code |
|---|---|
| `StartScript` | `run.sh:4-33`: wipes the log, or keeps it if `--keep` was given and its last marker allows it |
| `WriteMarker`, `Build` | `run.sh:35-40`; the build may fail |
| `Tee`, `ProgramEnds`, `ScriptEnds` | the log grows piece by piece; the program ends, or is killed with what is in the pipe lost or not |
| `Stat`, `Open`, `Read` | `tail`, from one system call to the next |
| `Boundary`, `Body` | an iteration of `main`'s loop: a new `State`, or a record fed; with `Draws` it also polls and draws |
| `Grace` | three seconds pass since the process was missed |

A text is a sequence of parts, a record being a newline and two halves. `Chunk` is
`readline`: up to a newline or to all there is. A frame is what `render` chooses
between, not its text.

Remarks:

- Between a `stat` that finds the log and the `open`, `run.sh` may have removed it:
  nothing catches the exception, and the dashboard ends (`pc = "crashed"`).
- An inode is not given again in the model. `tail` takes a log for the one it has open
  by its inode alone, but a file that is open keeps its own; only a log wiped
  between the `stat` and the `open`, and again before the next `stat`, could bring
  back the inode of the first.
- A run that no poll has met alive stays "waiting for process" whatever its log says.
- The warning that a configuration differs compares with the run before, and so is
  missing if that one died before it logged its own.

## 3. What is checked

| run | configuration | shows |
|---|---|---|
| `tree` | `MCTree.cfg` | ranges split, nest and never share a file; all derivations of a name agree; the code's assertions hold; the dashboard rebuilds the same tree |
| `scheduler` | `MCScheduler.cfg` | memory ceiling, thread budget, no idle thread when no slot is free, exact books, no task twice, no load or pricing without its files, no idle `waitpid`, donations are read |
| `scheduler_live` | `MCSchedulerLive.cfg` | every run ends through two deaths; `Scheduler` implements `ResultCache` |
| `overtaking`, `overshoot` | `MCSchedulerOvertaking.cfg`, `MCSchedulerOvershoot.cfg` | findings 1 and 5 |
| `join` | `MCJoin.cfg` | a complete file is whole, every load succeeds, lock discipline, one form per node, nothing committed is written again |
| `join_live` | `MCJoinLive.cfg` | every run ends through two deaths with the lock fought over; `Join` implements `ResultCache` |
| `leftovers`, `pieces_left` | `MCJoinLeftovers.cfg`, `MCJoinPieces.cfg` | findings 2 and 3 |
| `dashboard` | `MCDashboard.cfg` | whatever the order of records: progress counts everything once, books are the scheduler's, no thread is shown before it is taken, averages are averages, the ladder tiles the digits and, with what opens below it, hides nothing that runs, bars add up |
| `dashboard_queue` | `MCDashboardQueue.cfg` | finding 4 |
| `monitor` | `MCMonitor.cfg` | the parser is fed the last run of the log, whole and once; the screen comes to tell what became of it |

**Bounds and why they are enough.**

- `tree`: leaves of 2^6 indices and chains of up to 8 chunks, sizes 1 to 45. These
  pass through every branch of the shape: a single leaf, a fused pair, chains
  with and without a partial last chunk, chunk spans of 6, 7 and 8. The smaller
  leaf scales `size` down without changing the shape; 2^6 is above 2^5, so
  `get_index_max` still has to round 32 · size + 4 up. The walk ends at leaves,
  hence `CHECK_DEADLOCK FALSE` there, and in `monitor`, where the dashboard may have
  been ended by a missing file.
- `scheduler`: nine nodes (a chain of two fused chunks and a partial one), three
  slots and threads, two results already there, one death at any point. The
  costs grow with the width of a join, with its place in the series and with threads,
  and the budgets (launch below 9, together below 11, a leaf 1) are such that the three
  slots fill, two joins run at once, the widest joins run alone and pass the ceiling when
  they do, and an offer is taken or refused for memory, for threads or by a slot that has
  closed.
- `scheduler_live`, `join_live`: five nodes, two workers, two deaths: enough for a
  resumed join to die again.
- `join`: nine nodes over four levels, two workers (interchangeable: symmetry, in a
  run without liveness), one death or crash, pieces of another run whole or
  cut off at two points, with `KEEP_PIECES`, which is the harder case: a
  node's pieces stay where a fixed-precision result comes to be.

- `dashboard`: size 13, a chain of four chunks, of two, two and two leaves and one, and
  two processes. Three rungs open into leaves, so a subtree may collapse beside running
  work; what has been folded stands as one row, which drops out while the next fuse takes
  it in, and leaves of another rung run below meanwhile. Budgets are such that a donation
  is made and the walk is halted for memory. Two caches are started over (`MCFound`). In
  one a leaf and the last chunk are there, and the whole tree is walked. In the other the
  span of the first two chunks and a leaf of the third are there, the walk is short, and
  something may go amiss once it has come to that span (`UpsetsAfter`).
  `MaxUpsets` allows one of a tick, a lost record and a death in a behaviour:
  two of them meet in no handler but through the `State`, which the properties
  describe after each. What is left at that point is two leaves, three joins, a
  donation, halts, and after a death a run over all that was stored. The command line gives a stale
  size (7) and number of processes (1), to be corrected by the log. Bars are of 3 and 7
  cells: as few as a bar has segments, and more. Of the workers' memory nothing, or more
  than the ceiling is measured (`RssReadings`: 0 and 20 against 15). `MCView` leaves out
  the threads noted on finished nodes, which nothing reads. A tree without a chain, rungs
  that open for more than one level and big nodes are not in this instance: the theorems
  about `Dashboard` are about every tree, but for `RunningShown`, `ProgressExact` and
  `LadderTiles` there is this one only.
- `overshoot`: the nine nodes and three slots of `scheduler`, with joins of which the
  widest pass `mem_max` (10).
- `dashboard_queue`: nine nodes and three processes with light joins, so the slots fill
  while a join is ready.
- `monitor`: two runs, of two configurations or one, over no log, an unmarked one, or
  each other's. What is fed and said is about the last marker and the one before.

`MaxFailures` bounds deaths in every run of the scheduler and the joins. It bounds
nothing else: a run with no death left has every other behaviour.

**Fairness.** Weak fairness of the scheduler's next step (it computes, forks or
blocks in `waitpid`, which is not enabled until a worker is gone), of each worker's
next step (a worker waits for nothing but the disk lock, which `Acquire` models;
two workers alternate on it, since a holder never asks for it twice and there are
finitely many terms), of `Start` in `Join` (that the scheduler does start what is
ready is what `WaitHasWorker` and `Finishes` of `Scheduler` show), and of
`Restart`: somebody starts the program again. No strong fairness is assumed.
`Restart` waits until no worker of the last run is alive; nothing in the code
enforces that (see "Not modelled"). In `Monitor`, weak fairness of the dashboard's
loop, which yields at least every 0.3 seconds, and of the three seconds passing, and
strong fairness of `Draws`: an iteration draws if a second has passed, so a loop that
goes on for ever draws for ever, though not on any one iteration. `run.sh`, the
program and tee are assumed nothing of: they may stop anywhere.

Every property of a passing run comes with a change to the model, of the kind a bug
in the code would be (an operator commented "Mutant"), under which TLC finds it
violated.

## 4. Findings

1. **A join that does not fit does not stop the walk** (`tree:677-689`).
   `README.md:92` and the comment at `tree:88-90` say a task that cannot be afforded
   keeps smaller work from being launched in its place. `node_can_launch` does so
   only for a leaf or when slot 0 is free; otherwise it skips the join and goes on to
   smaller tasks. Run `overtaking`.
2. **A crash between the close and the deletions leaves files for good**
   (`big:946-949`). A later run finds the node complete and never visits its
   children, whose files stay, although `README.md:245-246` has a build without
   `KEEP_PIECES` keep only what it is working on. Run `leftovers`.
3. **An exact join deletes its exact children whatever `KEEP_PIECES` says**
   (`big:832-833`), although `README.md:244-245` has them left for the next run.
   Run `pieces_left`.
4. **A full machine does not dim the launch queue** (`dash:2233-2234`), although
   `dash:62-64` says the whole queue dims when the machine is full. Once any halt has
   been logged, the queue is dimmed only by a halt that stands; a walk that ends
   for want of a slot logs none. Run `dashboard_queue`.
5. **No more threads than `n_process` are ever booked** (`tree:667-687`), although the
   dashboard provides for the contrary: a node overshooting `mem_max` "is granted the full
   width in the first slot, on top of what the running tasks already hold"
   (`dash:1298-1304`; also `dash:1314-1317`, `1676-1680`, `1883-1894`). Such a node is
   taken when nothing else runs, and otherwise, with the first slot free, halts the
   walk; and its threads are at most those that are free (`tree:660`). `ThreadBudget`
   is proved, so the mark that shows an overbooked bar where `n_process` falls
   (`dash:1894`) is never drawn. Run `overshoot`.

None of them makes a result wrong.

## 5. What is proved

Every theorem is for all values of the constants that satisfy the assumptions below.
Where a run checks the same formula, the run is its instance.

| module | theorem | states |
|---|---|---|
| `TreeProofs` | `WalkSound` | `Spec => []CursorsOK`, the inductive invariant of the shape |
| | `TypeCorrect`, `AssertionsHold`, `RangeSplits`, `RangesNeverCross`, `FilesNeverShared`, `DerivationsAgree`, `DashboardRebuilds` | `TypeOK`, `AssertsHold`, `ChildrenSplitRange`, `RangesNest`, `NamesUnique`, `NamesAgree`, `DashboardAgrees`: all that `tree` checks, for every size of run and leaf |
| `SchedulerProofs` | `Invariance` | `Spec => []IInv`, the inductive invariant of the books |
| | `TypeCorrect`, `ThreadsWithinBudget`, `MemoryBelowCeiling`, `WorkersSeparate` | `TypeOK` (the unsigned totals never pass below zero), `ThreadBudget`, `MemoryCeiling`, `TasksSeparate` |
| | `DonationsAreRead` | `GrantRead`: what a join computes with is what it is charged for |
| | `LendingRaises` | `Spec => LendingOnlyRaises`, an action property of every step |
| | `BooksBalance` | `Books`: the totals are the sums of the active plans, each at its price |
| `CacheProofs` | `MemoryKnowsCache` | `Spec => []CInv`, the inductive invariant of memory and cache |
| | `InputsStayStored`, `NoneRecomputed`, `EndsQuiet`, `WaitpidHasWorker`, `SizesAlwaysReadable`, `FullMeansNoneIdle` | `JoinInputsStored`, `NothingRecomputed`, `QuietAtEnd`, `WaitHasWorker`, `OpSizesReadable`, `NoIdleWhenFull` |
| | `CacheImplemented` | every step of `Scheduler` is one of `ResultCache` or a stutter |
| `JoinProofs` | `JoinsSound` | `Spec => []JInv`, the inductive invariant of files, workers and lock |
| | `FilesTypeCorrect`, `CompleteFilesWhole`, `FormsExclusive`, `LoadsFindOperands`, `LockKept` | `TypeOK`, `CompleteIsWhole`, `OneForm`, `LoadsSucceed`, `LockDiscipline` |
| | `CommittedStays` | `CommittedKept`, an action property of every step |
| | `JoinsImplementCache` | every step of `Join` is one of `ResultCache` or a stutter |
| `DashboardProofs` | `ProgramFollowed` | every step of `Dashboard` is one of `Scheduler` or a stutter |
| | `TrailsExact` | `TrailExact`: the counts of running work on every ancestor are exact |
| | `LiveWithinGrants` | `LiveNeverOverstated`: no worker is shown with threads it has not taken |
| | `UtilisationWithinBudget` | `UtilisationBounded`: the averages are averages, of no more threads than were booked and are there |
| `ReadingsProofs` | `BooksAreMirrored` | `BooksMirrored`: once the log is read, what is shown as booked is what the scheduler has booked |
| | `BarsFill` | however its counts divide, a bar of `w` cells has `w` cells, one for whatever there is any of |
| | `BarsAreTrue` | `BarsTrue`: every bar fills, and stands for what it is drawn from |
| `MonitorProofs` | `FedRight` | `FedExact`: what the dashboard has been fed is what the log it has read says of its last run |

*Assumptions.* `Tree`: a chain takes at least two bits (section 2). `Scheduler`: the nodes
are finitely many positions of a binary tree in which every node has two children or
none; `n_process` and `mem_launch` are positive; costs are natural numbers and a
thread ceiling is at least one. `Join`: positions as in `Scheduler`, of which those of a
power of two indices include the leaves and all below one of them; a model value for
"no file" is no file. `Dashboard`: those of `Scheduler`; no two nodes have one range, and a
range is of whole pieces, one at least; a configuration line has a number, and "n process"
and "mem max" are logged with what the run has (`tree:1093`, `tree:1095`), whatever the
dashboard was told by `--n-process`, the ceiling being none but zero (`main:43`); a bar
has three cells at least, of which `render` gives it ten (`dashboard:2170`); what `ps`
measures of the workers is a natural number, and any; and a join costs no less
on more threads, as the comment at `tree:997` has it of `num_mul_estimate_memory`, which
is not in the repository. `Monitor`: a run's last record, if it comes to
that, is of "end" or "trap". Every one is named beside the constants and evaluated by the
runs. The proofs of `Tree` use nothing of how large a run is (`MaxSize` is any positive
number); those of `Scheduler` and `Join` bound neither failures, nor workers, nor the
tree.

**The tree.** `B(k)` is defined by recursion, so the last section of `CommonLemmas`
shows that the definition has a solution and what follows by induction: order,
injectivity, `B(j + k) = B(j) * B(k)`, and that `BitWidth` and `TopSpan` are what
their names say. Induction is stated for a *set* of numbers (`SetInduction`), from the
least element of a nonempty one. The rest has no powers in it, only multiples. The
invariant of one node, `NodeOK`, says what its first index (less one) is a multiple of:
a span, of its own width; a big node, of twice the top power of its length, and it ends
where the run ends; a chain begins at 1. It is inductive by itself, node by node. Two
nodes' ranges then nest because of the *two* facts, with no induction over the tree:
a block of width `d` at a multiple of `d` cannot straddle a boundary at a multiple of
`d` (`BlockNests`). `NamesUnique` follows: a "p" name holds the first index and the span, an
"r" name the first index and the last, and a "c" name the last index of a chain, whose
first is 1; so either way the name has the range. `AssertsHold` needs at least two chain bits (`RunOfSize`).
`DashboardRebuilds` compares constructor with builder, each on arbitrary arguments,
and then the children case by case.

**The books.** None of the first four properties of `Scheduler` is inductive
alone. `TaskEnd` subtracts a plan from the totals, so that they stay natural numbers
needs the plan to be *part* of the total; `DonateAccepted` replaces one, so that
`total_threads` stays within `n_process` needs `FreeThreads + plan` to be at most what
the other plans leave. Both follow from the totals being sums over the active tasks.
The invariant says so by a *ledger*, a function of the slots that starts at
0, grows by each slot's share and comes to the total (`RunningSum`). Three lemmas say
all that is needed of it: `LedgerEmpty`, `LedgerBound` (no share is more than
the total) and `LedgerUpdate` (changing one share moves the total by the difference).
To keep the shares apart, the invariant also says that two active tasks are for
different nodes (`TasksSeparate`), that an offer is always to an active task
(`TasksKnown`), and that active tasks hold at least one thread (`PlansPositive`),
which makes the new grant of an accepted offer positive. `MemoryCeiling` then follows
step by step: a task is booked beside another only by a gate that has compared the new
total with `mem_max`.

**The slot.** `GInv` adds `SlotIsPlan`: an active task's slot holds the threads
its plan is charged for. Without it `CloseSlot` could take a grant that was not booked,
and an accepted offer, which is compared with the plan, could lower the slot. Slot and
plan change together in a launch and a donation, and `TasksSeparate` keeps a plan from
being changed on behalf of another task. With `PlansPriced`, and a ledger's last line
being the sum (`LedgerIsSum`), this is `Books`.

**Memory and cache.** The nodes in memory remember what the cache held when a walk made
them, and workers change the cache behind the scheduler's back. `CInv` says how far
memory stays true: a done node is stored *while its parent is open*, and an open one is
not stored (`CacheKnown`); above a task every node is open (`TasksPlaced`); children are
made only below an open node (`TreeKnown`). Deletions touch only children of a node
whose worker has committed, which is processing and not open, so neither half breaks.
A commit adds only a node that is processing. A node the walk finds ready therefore
has its inputs stored and its result not (`ReadyKnown`), which is what a launch needs
for `JoinInputsStored` and `NotYetStored`; and as every node above a task is open, and an
open node is not stored, neither is any of them, which is the rest of `NothingRecomputed`. `WaitHasWorker` needs one more
argument: with nothing running, the totals are zero (`NothingBooked`, from the ledgers),
some ready node exists (`ReadyExists`: a longest reached position), and the first of
them in the order of the walk passes every gate (`SomethingTaken`). The order is proved
irreflexive and transitive, and a first element exists in any finite set under such a
relation (`FirstExists`).

**Joins.** `JInv` says, of every worker at every step, what it has in memory, that its
file holds exactly the numbers its term has committed, and when the checkpoint is whole
(`JoinMemory`, `JoinFiles`); resuming finds these conditions from the file alone.
`CompleteIsWhole` is inductive only with them, since closing writes the magic. What a
worker holds of its files stays true because no other worker is on its node or its
children (`Apart`), which in turn needs that nothing above a worked node is stored
(`NothingAbove`) and that inputs are (`InputsThere`); a worker whose join has committed
may be beside none that starts again below it, since `Startable` takes no node whose
children have a live worker, or that is stored. `LocksAgree` relates `lock_held` to
the lock and lists the steps at which nobody has it, from which the lock is always let
go before a multiplication and at the end. Both forms of a node are never there at
once (`OneForm`) because the form of a join that is resumed is decided by the file that
is there.

**The dashboard's trail.** The counts on the ancestors stay exact as long as nothing
begins twice: `BeginTrail` and `DoneTrail` show that one begin adds one to each count
above it, and that marking a node done takes back exactly what its begin added, nothing
if its begin was lost. Every other handler is shown to leave the marks alone
(`SameMarks`), but for the one that builds the tree, whose new tree has nothing running
(`BuiltTree`); it is only built while nothing is shown, so nothing running is dropped.
`FeedLineFeeds` sums this up for one record: the tree stays exact, and what runs after
it ran before, or is the node the record begins. That no record begins a node that is
already shown running is a fact about the *program*, whatever was lost: a worker logs
"begin" as its first line and never again (`ScriptFacts`), two workers are never on one
node, and the walk never takes a node whose work has begun (`WalkFacts`). `TrailInv`
joins the two, over the proved invariant of `Scheduler`: what is shown running has begun
in this run.

**The threads shown.** A grant goes to the screen by two ways, in the scheduler's "task
start" and "donation accepted" and in the worker's own "multiplying", through an entry
that may or may not be on its node yet. `LentInv` bounds the shown grant by two numbers:
what is *booked* by the slot, what is *in force* by what the worker took or, between
"multiplying" and the closing of the slot, by what it is about to take (`InForce`,
`LentTo`). That a slot is not lowered while its worker computes comes from `GInv`.
What makes it inductive is a bound on the lines *still to be logged* (`Fits`): a
"task start" carries no more than the worker was forked with, a "donation accepted" no
more than the slot holds, and then its task's start has been read, unless a line was
lost; a "task end" is of no worker that computes. And a task that has not begun has
nothing lent on its node (`Unlent`), so that attaching an early entry to it shows no
grant of an earlier task. Of the parser, each handler is shown to give a node the grants
it had, none, or its entry's (`NodesFollow`), and to touch the entry of no other worker
(`EntriesKept`).

**The averages.** `thread_tick` multiplies what a screen shows by the time since the
last stamp, so the averages are right if *every* screen at which a record can arrive
has no more threads working than booked and no more booked than there are. The second
half is the cap, once "n process" has been read. It is read before it applies to
anything (`Reported`): it is in the first lines of a run, when no worker is there to
have them lost, and a crash that takes it with it ends the run. The first half is
about sums: each entry shows no more threads at work than it is granted (`Ordered`), a
sum of smaller terms is smaller (`SumsOrdered`), and what waits or idles is only
subtracted. `Ordered` needs that a booking line never carries less than the entry
shows already, as an entry would else show more at work than granted. So `UtilInv`
says that the entry of an active task is granted no more than its slot (`Granted`), and
that a booking line which is still to come carries exactly what the slot holds
(`Tells`). A slot is only ever raised while its task lives, and a new task has no
entry left of an earlier one (`Unlent`, from `LentInv`). Folds over sets are
recursive functions in the library, so `CommonLemmas` shows that they are solved by a
sum defined on all subsets at once (`SumsExist`).

**The books that are shown.** `BooksMirrored` speaks of a log that is read to its end, so
the invariant says what is true on the way: whatever of the scheduler's books is not
shown *yet* is on a line still to come, and that line says what the scheduler has booked
*by now* (`Booking`, `Totalled`, `Reckoned` in `BookInv`). The second part is
needed because a plan can change between the act and its line. A running node shows
what its entry does (`Mirrors`), which each handler keeps in its own way: a start is
copied to the node only when the worker has begun there, a begin takes over the entry
that is there before it. The estimate summed from the tree needs two more facts,
`EstInv`: a cost that is shown, and one that a worker carries from the fork and will log,
is at most its task's plan (`CostsWithin`), as a donation only raises that, by the last
assumption above; and a node is shown running only while a task of its own
works on it (`RunningWorked`), since a worker ends its node on the screen with the last
line of its script and only then exits. Tasks have slots of their own, so the sum over
the nodes is at most the ledger's (`SumWithinLedger`).

**The bars.** `render_bar` gives each count its floor of the width, then the cells left
over to the largest remainders, then takes a cell from the widest for each count that got
none. `BarsFill` is about that alone, for every width and every counts: what is left over
is less than one cell per count (`w * c = total * fl + r` summed along the bar), so the
remainders have enough places for it, and a count is only ever robbed while it has two
cells. What each bar is drawn from is the other half. The counters of a `State` are
natural numbers, and no more requests have missed the lock than were made (`Tallied`,
`TallyInv`). The ceiling is read, or is on a line still to come, before a run has
anything to show against it (`Ceiled`); the root runs on the screen only once the
scheduler is done (`RootLast`), so the completion bar is not full before. The memory bar
is drawn from what is booked, once the lines are read the scheduler's own total, and from
what is measured, which may be anything: it is stretched, and `mem_max` ruled on it, just
when one of the two passes the ceiling. The threads bar
adds up the entries, which have no total to be compared with while lines of launches,
donations and ends are still to be read: a task that is shown may be over, and its threads
be booked for one that is not shown yet. `Housed(Due)` compares what each node is shown with, *or will be by the next
line about it* (`Due`), slot by slot: whoever is due threads has a slot of its own that
holds as many, in a ledger of no more than `n_process`. A line that is read changes what
is shown but not what is due; an act of the scheduler changes one slot and what is due to
one node.

**The log.** What a read may find depends on what may have been *written*, so the
first half of the invariant, `ProgramOK`, is a grammar of texts given by position:
which part may stand after which (`Goes`, `Written`). It holds of a log that is cut short
at any piece and continued by any number of later runs, and it implies that a marker is
always followed by a newline and that in each run the configuration is the first record
whole (`ConfigIsFirst`); `Owed` says that what tee has still to write goes on
from where it is; and a log whose warning would not be excused is all of one
configuration (`AllOf`). The second half, `TailOK`, says where the dashboard stands: its `State` is
`Exact` for the parts up to some place where a line may end, beyond which `tail` holds
nothing, the first half of one record (`HeldFrom`), or a line that `main` has not taken
(`LineFrom`); or a new `State` is on its way. A file only ever grows, or is left for
another inode (`FilesKept`), so this survives every step of the program (`TailKept`).
`WhatFollows` lists what a read can meet from such a place, and `ReadKeeps` follows
`readline` through each case. What `main` makes of a line is then a matter of
what one more part does to the records of a text: nothing (`ExactOfQuiet`), a new run
(`ExactOfMarker`), one record more (`ExactOfRecord`). `Records` is a recursive function, for
which `RecordsFound` shows that the recursion has a solution.

*Only model-checked.* Liveness (`Finishes`, `EventuallyTold`) and the fairness half of
`ResultCache` are out of the prover's reach: `Safety` of `ResultCache` is what the two
refinement theorems show, and TLC checks the rest in `scheduler_live` and `join_live`.
Of `Dashboard`, `RunningShown`, `ProgressExact` and `LadderTiles` are only model-checked:
they rest on how the ranges of the dashboard's tree nest. The other properties of the
runs that are not about liveness are proved.

## 6. Not modelled

- *The numbers.* Which product or sum each term of a join is, is checked by name;
  the values, `split_sig`'s terms and the precision `get_index_max` leaves are not.
- *Widths.* The totals stay far below 2^64; what could wrap is a subtraction, and
  that is `TypeOK`.
- *Appending a number* to a result file is one step with the raising of its count, as
  `araucaria`'s file functions, which are not in the repository, are used.
- *Workers of a trapped run that are still alive* when the program is started again,
  and *a run of another size between a crash and the resumption*. Both are planned.
- *`split_span`, `split_big`, lib/split, lib/linear:* sequential, and unused by the
  program.
- *Of the dashboard:* how it reads the machine (`ps`, `/proc`, `vm_stat`, the CPU
  sampler; what `ps` measures of the workers' memory is an input), durations and estimates of the time left, keys and scrolling, colours,
  labels and layout, and where marks and ticks are put on a bar. The rest of what
  it computes from the log is in `Readings`.
- *A start of `run.sh` while another runs,* or while the tee of a killed run still
  writes: `Monitor` starts the next run when the last pipe is drained.
- *The Makefiles:* outside the running program.
- *`main.c`:* fixed parameters; they are constants here.

## 7. Plan

Done, in this order, the most important behaviour first: `Tree` (everything is named
by it), `Scheduler` with the proofs of section 5, `ResultCache`, `Join`; then
`NodeTree`, `LogParser`, `Readings` and `Dashboard` over `Scheduler`, and `Monitor`.

Next, models:

1. `Run`: `pi_tree` and `pi_finish` around an abstract scheduler, with a crash between
   saving π and deleting the root (which leaves the root's file for good), an
   abstract specification "π is stored at the end, and nothing below the root
   survives it", and two sizes that share `pieces/` in turn.
2. Orphans: `Join` with a restart beside live workers of a trapped run, to say which of
   its invariants depend on there being none.
3. `Series`: P, Q and R of a range as functions, a join against the direct sum
   over bounded ranges, `get_index_max`.
4. `Union`: ownership and conversion of the two forms.
5. `Dashboard` over a tree without a chain, and over chunks wide enough for a rung to open
   twice and for a big node in the last.

Next, proofs:

1. `Dashboard`: `ProgressExact`, `LadderTiles` and `RunningShown`, which need how the
   ranges of the dashboard's tree nest and that they are the program's.
