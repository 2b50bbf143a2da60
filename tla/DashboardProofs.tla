--------------------------- MODULE DashboardProofs ---------------------------
(***************************************************************************)
(* Proofs about the program and the dashboard that reads its log.  The     *)
(* counts that a tree keeps on the ancestors of a node are exact whatever  *)
(* order the records of the processes come in, and whatever is lost; a     *)
(* worker is never shown with more threads than it has taken.  And the     *)
(* averages of the threads at work and of the threads booked, which are    *)
(* accumulated from one record to the next out of sums over the entries,   *)
(* are within the budget: what holds of them holds of every screen at      *)
(* which a record can arrive.                                              *)
(***************************************************************************)
EXTENDS Dashboard, CommonLemmas

P == INSTANCE SchedulerProofs

-----------------------------------------------------------------------------
(* The program beneath.  Dashboard makes its steps S's; what is proved of  *)
(* Scheduler is proved of P's, and the two are one definition at a time    *)
(* the same.                                                               *)

LEMMA SameTree ==
    /\ P!Root = S!Root /\ P!Slots = S!Slots /\ P!NoPlan = S!NoPlan /\ P!Live = S!Live
    /\ \A n : P!Kids(n) = S!Kids(n) /\ P!Parent(n) = S!Parent(n) /\ P!Path(n) = S!Path(n)
    /\ \A n : P!NodeIsLeaf(n) <=> S!NodeIsLeaf(n)
    /\ \A m, n : P!Before(m, n) <=> S!Before(m, n)
BY DEF P!Root, S!Root, P!Slots, S!Slots, P!NoPlan, S!NoPlan, P!Live, S!Live, P!Kids, S!Kids,
   P!Parent, S!Parent, P!Path, S!Path, P!NodeIsLeaf, S!NodeIsLeaf, P!Before, S!Before

LEMMA SameBooks ==
    /\ P!Active = S!Active /\ P!FreeThreads = S!FreeThreads
    /\ P!HasSlot <=> S!HasSlot
    /\ P!FreeIndex = S!FreeIndex
    /\ \A c : P!HasMemory(c) <=> S!HasMemory(c)
<1>1. P!Active = S!Active
   BY DEF P!Active, S!Active, P!Slots, S!Slots
<1>2. P!Slots \ P!Active = S!Slots \ S!Active
   BY <1>1 DEF P!Slots, S!Slots
<1>3. P!FreeIndex = S!FreeIndex
   BY <1>2 DEF P!FreeIndex, S!FreeIndex
<1>4. \A T : P!Cardinality(T) = S!Cardinality(T)
   BY DEF P!Cardinality, S!Cardinality
<1> QED BY <1>1, <1>3, <1>4 DEF P!FreeThreads,
   S!FreeThreads, P!HasSlot, S!HasSlot, P!HasMemory, S!HasMemory

LEMMA SameThreads ==
    /\ \A k : P!FloorPowerOfTwo(k) = S!FloorPowerOfTwo(k)
    /\ \A n, t : P!NodeThreads(n, t) = S!NodeThreads(n, t)
    /\ \A n, t : P!NodeEstimateMemory(n, t) = S!NodeEstimateMemory(n, t)
<1>1. \A k : P!FloorPowerOfTwo(k) = S!FloorPowerOfTwo(k)
    BY DEF P!FloorPowerOfTwo, S!FloorPowerOfTwo, P!PowersOfTwo, S!PowersOfTwo
<1>2. \A n : P!NodeThreadsCeiling(n) = S!NodeThreadsCeiling(n)
   BY SameTree DEF P!NodeThreadsCeiling, S!NodeThreadsCeiling
<1>3. \A n, t : P!NodeThreads(n, t) = S!NodeThreads(n, t)
   BY <1>1, <1>2 DEF P!NodeThreads, S!NodeThreads
<1>4. \A n, t : P!NodeEstimateMemory(n, t) = S!NodeEstimateMemory(n, t)
   BY SameTree DEF P!NodeEstimateMemory, S!NodeEstimateMemory
<1> QED BY <1>1, <1>2, <1>3, <1>4

LEMMA SameWalk ==
    /\ P!Taken = S!Taken /\ P!Walked = S!Walked /\ P!Priced = S!Priced
<1>1. \A n : P!Grown(n) = S!Grown(n)
   BY DEF P!Grown, S!Grown
<1>2. \A n : P!Reached(n) <=> S!Reached(n)
   BY <1>1, SameTree DEF P!Reached, S!Reached
<1>3. \A n : P!Ready(n) <=> S!Ready(n)
   BY <1>1, SameTree DEF P!Ready, S!Ready
<1>4. P!GatesOpen <=> S!GatesOpen
   BY SameBooks DEF P!GatesOpen, S!GatesOpen
<1>5. \A n : P!LaunchCost(n) = S!LaunchCost(n)
   BY SameBooks, SameThreads DEF P!LaunchCost, S!LaunchCost, P!LaunchThreads, S!LaunchThreads
<1>6. \A n : P!NodeCanLaunch(n) = S!NodeCanLaunch(n)
   BY <1>3, <1>4, <1>5, SameTree, SameBooks DEF P!NodeCanLaunch, S!NodeCanLaunch
<1>7. \A n : P!Visited(n) <=> S!Visited(n)
   BY <1>2, <1>6, SameTree DEF P!Visited, S!Visited
<1>8. P!Taken = S!Taken
   BY <1>6, <1>7 DEF P!Taken, S!Taken
<1>9. P!Walked = S!Walked
   BY <1>1, <1>7, SameTree DEF P!Walked, S!Walked
<1>10. P!Priced = S!Priced
   BY <1>3, <1>4, <1>7 DEF P!Priced, S!Priced
<1> QED BY <1>8, <1>9, <1>10

LEMMA SameLaunch == P!Launch <=> S!Launch
<1>1. \A n, i : P!TaskStart(n, i) <=> S!TaskStart(n, i)
   BY SameWalk, SameThreads, SameBooks DEF P!TaskStart, S!TaskStart, P!LaunchThreads, S!LaunchThreads,
   P!LaunchCost, S!LaunchCost
<1>2. \A N : P!NodeOpSizes(N) <=> S!NodeOpSizes(N)
   BY SameTree DEF P!NodeOpSizes, S!NodeOpSizes
<1> QED BY <1>1, <1>2, SameWalk, SameBooks DEF P!Launch, S!Launch

LEMMA SameOps == \A N : P!NodeOpSizes(N) <=> S!NodeOpSizes(N)
   BY SameTree DEF P!NodeOpSizes, S!NodeOpSizes

LEMMA SameDonate ==
    /\ P!DonateLoad <=> S!DonateLoad
    /\ P!DonateAccepted <=> S!DonateAccepted
    /\ P!DonateRefused <=> S!DonateRefused
    /\ P!DonateEnd <=> S!DonateEnd
<1>1. P!Candidates = S!Candidates
   BY SameBooks DEF P!Candidates, S!Candidates
<1>2. \A n : P!OfferThreads(n) = S!OfferThreads(n)
   BY SameBooks, SameThreads DEF P!OfferThreads, S!OfferThreads
<1>3. \A n : P!OfferCost(n) = S!OfferCost(n)
   BY <1>2, SameThreads DEF P!OfferCost, S!OfferCost
<1>4. \A n : P!OfferTotal(n) = S!OfferTotal(n)
   BY <1>3 DEF P!OfferTotal, S!OfferTotal
<1>5. \A n, i : P!OfferHolds(n, i) <=> S!OfferHolds(n, i)
   BY <1>2, <1>4 DEF P!OfferHolds, S!OfferHolds
<1>6. P!DonateLoad <=> S!DonateLoad
   BY <1>1, SameBooks DEF P!DonateLoad, S!DonateLoad, P!workers, S!workers
<1>7. P!DonateAccepted <=> S!DonateAccepted
   BY <1>2, <1>3, <1>4, <1>5, SameOps DEF P!DonateAccepted, S!DonateAccepted, P!workers, S!workers
<1>8. P!DonateRefused <=> S!DonateRefused
   BY <1>5, SameOps DEF P!DonateRefused, S!DonateRefused, P!workers, S!workers
<1>9. P!DonateEnd <=> S!DonateEnd
   BY <1>1, SameBooks DEF P!DonateEnd, S!DonateEnd, P!workers, S!workers
<1> QED BY <1>6, <1>7, <1>8, <1>9

LEMMA SameRest ==
    /\ P!EndLaunch <=> S!EndLaunch
    /\ \A i : /\ P!TaskEnd(i) <=> S!TaskEnd(i)
              /\ P!TaskCheckExit(i) <=> S!TaskCheckExit(i)
              /\ P!CloseSlot(i) <=> S!CloseSlot(i)
              /\ P!Commit(i) <=> S!Commit(i)
              /\ P!DeleteLeft(i) <=> S!DeleteLeft(i)
              /\ P!Exit(i) <=> S!Exit(i)
              /\ P!WorkerDies(i) <=> S!WorkerDies(i)
    /\ P!Crash <=> S!Crash
    /\ P!Restart <=> S!Restart
    /\ P!Init <=> S!Init
<1>1. P!EndLaunch <=> S!EndLaunch
   BY SameWalk, SameBooks, SameOps DEF P!EndLaunch, S!EndLaunch, P!workers, S!workers
<1>2. \A i : P!TaskEnd(i) <=> S!TaskEnd(i)
   BY SameTree DEF P!TaskEnd, S!TaskEnd
<1>3. \A i : P!TaskCheckExit(i) <=> S!TaskCheckExit(i)
   BY DEF P!TaskCheckExit, S!TaskCheckExit, P!workers, S!workers
<1>4. \A i : P!CloseSlot(i) <=> S!CloseSlot(i)
   BY SameTree DEF P!CloseSlot, S!CloseSlot, P!sched, S!sched
<1>5. \A i : P!Commit(i) <=> S!Commit(i)
   BY SameTree DEF P!Commit, S!Commit, P!sched, S!sched
<1>6. \A n, k : P!Deleted(n, k) = S!Deleted(n, k)
   BY DEF P!Deleted, S!Deleted
<1>7. \A i : P!DeleteLeft(i) <=> S!DeleteLeft(i)
   BY <1>6, SameTree DEF P!DeleteLeft, S!DeleteLeft, P!sched, S!sched
<1>8. \A i : P!Exit(i) <=> S!Exit(i)
   BY <1>6, SameTree DEF P!Exit, S!Exit, P!sched, S!sched
<1>9. \A i : P!WorkerDies(i) <=> S!WorkerDies(i)
   BY SameTree DEF P!WorkerDies, S!WorkerDies, P!sched, S!sched
<1>10. P!Crash <=> S!Crash
   BY SameTree DEF P!Crash, S!Crash
<1>11. P!FreshStatus = S!FreshStatus
   BY SameTree DEF P!FreshStatus, S!FreshStatus
<1>12. P!Restart <=> S!Restart
   BY SameTree, <1>11 DEF P!Restart, S!Restart
<1>13. P!Init <=> S!Init
   BY SameTree, <1>11 DEF P!Init, S!Init
<1> QED BY <1>1, <1>2, <1>3, <1>4, <1>5, <1>7, <1>8, <1>9, <1>10, <1>12, <1>13

LEMMA ProgramInit == Init => P!Init
BY SameRest DEF Init

\* A step of the two is a step of the program, or leaves it alone.
LEMMA ProgramStep == [Next]_vars => [P!Next]_(P!vars)
<1> SUFFICES ASSUME [Next]_vars PROVE [P!Next]_(P!vars)
    OBVIOUS
<1> USE SameTree, SameLaunch, SameDonate, SameRest DEF P!Next, P!SchedulerStep, P!WorkerStep
<1>1. CASE UNCHANGED program
    BY <1>1 DEF program, P!vars, P!sched, P!workers
<1>2. CASE UNCHANGED vars
    BY <1>1, <1>2 DEF vars
<1>3. CASE SchedulerLogs \/ Tick
    BY <1>1, <1>3 DEF SchedulerLogs, Tick
<1>4. CASE Launch \/ EndLaunch
    BY <1>4 DEF Launch, EndLaunch
<1>5. CASE Donate
    BY <1>5 DEF Donate
<1>6. ASSUME NEW i \in S!Slots, WorkerSteps(i) PROVE [P!Next]_(P!vars)
    BY <1>1, <1>6 DEF WorkerSteps
<1>7. ASSUME NEW i \in S!Slots, Reap(i) PROVE [P!Next]_(P!vars)
    BY <1>7 DEF Reap
<1>8. CASE Dies \/ Restart
    BY <1>8 DEF Dies, Restart
<1>9. CASE AllShown
    BY <1>2, <1>9 DEF AllShown
<1> QED BY <1>2, <1>3, <1>4, <1>5, <1>6, <1>7, <1>8, <1>9 DEF Next

\* What the dashboard follows is the program as Scheduler has it: logging neither
\* adds a step to the scheduler or to its workers nor changes one.
THEOREM ProgramFollowed == Spec => S!Spec
<1>1. Init => S!Init
    BY DEF Init
<1>2. [P!Next]_(P!vars) => [S!Next]_(S!vars)
    BY SameTree, SameLaunch, SameDonate, SameRest
       DEF P!Next, S!Next, P!SchedulerStep, S!SchedulerStep, P!WorkerStep, S!WorkerStep,
           P!vars, S!vars, P!sched, S!sched, P!workers, S!workers, P!Done, S!Done
<1> QED BY <1>1, <1>2, ProgramStep, PTL DEF Spec, S!Spec

LEMMA ProgramInvariance ==
    /\ Init => P!IInv
    /\ P!IInv /\ [Next]_vars => P!IInv'
<1>1. P!Init => P!IInv
    BY P!InitInvariant, ProgramAssumption
       DEF S!Root, P!Root, S!IsFiniteSet, P!IsFiniteSet, S!NodeAssumption,
           S!BinaryAssumption, S!BudgetAssumption, S!CostAssumption, S!CacheAssumption
<1>2. P!IInv /\ [P!Next]_(P!vars) => P!IInv'
    BY P!NextInvariant, ProgramAssumption
       DEF S!Root, P!Root, S!IsFiniteSet, P!IsFiniteSet, S!NodeAssumption,
           S!BinaryAssumption, S!BudgetAssumption, S!CostAssumption, S!CacheAssumption
<1> QED BY <1>1, <1>2, ProgramInit, ProgramStep

-----------------------------------------------------------------------------
(* The trail of a tree.                                                    *)

\* What of a node the trail is made of.
Marked(n) == /\ {"in_progress", "active_count"} \subseteq DOMAIN n
             /\ n.in_progress \in BOOLEAN
             /\ n.active_count \in Int

Running(t) == {k \in DOMAIN t : t[k].in_progress}

RunningIn(t, k) == {j \in Running(t) : Within(j, k)}

\* A tree is a function on the keys of its nodes.
IsTree(t) == t = [k \in DOMAIN t |-> t[k]]

TrailOf(t) == /\ IsTree(t)
              /\ \A k \in DOMAIN t : Marked(t[k])
              /\ IsFiniteSet(Running(t))
              /\ \A k \in DOMAIN t :
                    t[k].active_count = Cardinality(RunningIn(t, k))

\* Two trees with the same marks.
SameMarks(t, u) ==
    /\ IsTree(u)
    /\ DOMAIN u = DOMAIN t
    /\ \A k \in DOMAIN t : /\ Marked(u[k])
                           /\ u[k].in_progress = t[k].in_progress
                           /\ u[k].active_count = t[k].active_count

LEMMA MarksTransitive ==
    ASSUME NEW t, NEW u, NEW v, SameMarks(t, u), SameMarks(u, v)
    PROVE  SameMarks(t, v)
BY DEF SameMarks

LEMMA SameTrail ==
    ASSUME NEW t, NEW u, TrailOf(t), SameMarks(t, u)
    PROVE  TrailOf(u) /\ Running(u) = Running(t)
<1>1. Running(u) = Running(t)
    BY DEF SameMarks, Running
<1>2. \A k : RunningIn(u, k) = RunningIn(t, k)
    BY <1>1 DEF RunningIn
<1> QED BY <1>1, <1>2 DEF TrailOf, SameMarks

\* A tree nothing of which runs has an empty trail.
LEMMA EmptyTrail ==
    ASSUME NEW t, IsTree(t),
           \A k \in DOMAIN t : /\ Marked(t[k])
                               /\ ~t[k].in_progress
                               /\ t[k].active_count = 0
    PROVE  TrailOf(t) /\ Running(t) = {}
<1>1. Running(t) = {}
    BY DEF Running
<1>2. \A k : RunningIn(t, k) = {}
    BY <1>1 DEF RunningIn
<1> QED BY <1>1, <1>2, FS_EmptySet DEF TrailOf

\* Counts other than those of the trail leave it alone.
LEMMA CountsLeaveMarks ==
    ASSUME NEW t, \A a \in DOMAIN t : Marked(t[a]), NEW k, NEW x
    PROVE  /\ SameMarks(t, MarkLeavesDone(t, k, x))
           /\ SameMarks(t, MarkUnitsDone(t, k, x))
<1>1. SameMarks(t, MarkLeavesDone(t, k, x))
    BY DEF SameMarks, IsTree, Marked, MarkLeavesDone, Upward
<1>2. SameMarks(t, MarkUnitsDone(t, k, x))
    BY DEF SameMarks, IsTree, Marked, MarkUnitsDone, Upward
<1> QED BY <1>1, <1>2

\* mark_active, of a node that has just begun or ended.
LEMMA MarkedActive ==
    ASSUME NEW t, NEW k, NEW d \in Int, \A a \in DOMAIN t : Marked(t[a])
    PROVE  LET u == MarkActive(t, k, d)
           IN  /\ IsTree(u)
               /\ DOMAIN u = DOMAIN t
               /\ \A a \in DOMAIN t :
                    /\ Marked(u[a])
                    /\ u[a].in_progress = t[a].in_progress
                    /\ u[a].active_count =
                         IF Within(k, a) THEN t[a].active_count + d
                         ELSE t[a].active_count
BY DEF MarkActive, Upward, Marked, IsTree

\* A node that begins adds one to every count above it and to its own.
LEMMA BeginTrail ==
    ASSUME NEW t, TrailOf(t), NEW k \in DOMAIN t, ~t[k].in_progress,
           NEW v, DOMAIN v = DOMAIN t,
           \A a \in DOMAIN t : /\ Marked(v[a])
                               /\ v[a].active_count = t[a].active_count
                               /\ v[a].in_progress <=> a = k \/ t[a].in_progress
    PROVE  LET u == MarkActive(v, k, 1)
           IN  TrailOf(u) /\ Running(u) = Running(t) \cup {k}
<1> DEFINE u == MarkActive(v, k, 1)
<1>1. /\ IsTree(u)
      /\ DOMAIN u = DOMAIN t
      /\ \A a \in DOMAIN t :
            /\ Marked(u[a])
            /\ u[a].in_progress = v[a].in_progress
            /\ u[a].active_count = IF Within(k, a) THEN v[a].active_count + 1
                                   ELSE v[a].active_count
    BY MarkedActive
<1> HIDE DEF u
<1>2. Running(u) = Running(t) \cup {k} /\ k \notin Running(t)
    BY <1>1 DEF Running
<1>3. ASSUME NEW a \in DOMAIN t
      PROVE  u[a].active_count = Cardinality(RunningIn(u, a))
    <2>1. RunningIn(t, a) \subseteq Running(t) /\ IsFiniteSet(RunningIn(t, a))
        BY FS_Subset DEF RunningIn, TrailOf
    <2>2. CASE Within(k, a)
        <3>1. RunningIn(u, a) = RunningIn(t, a) \cup {k} /\ k \notin RunningIn(t, a)
            BY <1>2, <2>2 DEF RunningIn
        <3>2. Cardinality(RunningIn(u, a)) = Cardinality(RunningIn(t, a)) + 1
            BY <2>1, <3>1, FS_AddElement
        <3> QED BY <1>1, <2>2, <3>2 DEF TrailOf
    <2>3. CASE ~Within(k, a)
        <3>1. RunningIn(u, a) = RunningIn(t, a)
            BY <1>2, <2>3 DEF RunningIn
        <3> QED BY <1>1, <2>3, <3>1 DEF TrailOf
    <2> QED BY <2>2, <2>3
<1>4. IsFiniteSet(Running(u))
    BY <1>2, FS_AddElement DEF TrailOf
<1> QED BY <1>1, <1>2, <1>3, <1>4 DEF TrailOf, u

\* mark_node_done takes back what a node's begin added, if it had begun.
LEMMA DoneTrail ==
    ASSUME NEW t, TrailOf(t), NEW k \in DOMAIN t
    PROVE  LET u == MarkNodeDone(t, k)
           IN  TrailOf(u) /\ Running(u) = Running(t) \ {k} /\ DOMAIN u = DOMAIN t
<1> DEFINE v == [t EXCEPT ![k] = Finished(@)]
           u == MarkNodeDone(t, k)
<1>1. /\ IsTree(v)
      /\ DOMAIN v = DOMAIN t
      /\ \A a \in DOMAIN t : /\ Marked(v[a])
                             /\ v[a].active_count = t[a].active_count
                             /\ v[a].in_progress <=> a # k /\ t[a].in_progress
    BY DEF TrailOf, Marked, Finished, IsTree
<1>2. u = IF t[k].in_progress THEN MarkActive(v, k, -1) ELSE v
    BY DEF MarkNodeDone
<1> HIDE DEF u, v
<1>3. CASE ~t[k].in_progress
    <2>1. SameMarks(t, v)
        BY <1>1, <1>3 DEF SameMarks, TrailOf, Marked
    <2> QED BY <1>1, <1>2, <1>3, <2>1, SameTrail DEF Running, u
<1>4. CASE t[k].in_progress
    <2>1. /\ IsTree(u)
          /\ DOMAIN u = DOMAIN t
          /\ \A a \in DOMAIN t :
                /\ Marked(u[a])
                /\ u[a].in_progress = v[a].in_progress
                /\ u[a].active_count = IF Within(k, a) THEN v[a].active_count + (-1)
                                       ELSE v[a].active_count
        BY <1>1, <1>2, <1>4, MarkedActive
    <2>2. Running(u) = Running(t) \ {k} /\ k \in Running(t)
        BY <1>1, <1>4, <2>1 DEF Running
    <2>3. ASSUME NEW a \in DOMAIN t
          PROVE  u[a].active_count = Cardinality(RunningIn(u, a))
        <3>1. IsFiniteSet(RunningIn(t, a)) /\ t[a].active_count = Cardinality(RunningIn(t, a))
            BY FS_Subset DEF RunningIn, TrailOf
        <3>2. CASE Within(k, a)
            <4>1. RunningIn(u, a) = RunningIn(t, a) \ {k} /\ k \in RunningIn(t, a)
                BY <2>2, <3>2 DEF RunningIn
            <4>2. Cardinality(RunningIn(u, a)) = Cardinality(RunningIn(t, a)) - 1
                BY <3>1, <4>1, FS_RemoveElement
            <4>3. Cardinality(RunningIn(t, a)) \in Nat
                BY <3>1, FS_CardinalityType
            <4> QED BY <1>1, <2>1, <3>1, <3>2, <4>2, <4>3
        <3>3. CASE ~Within(k, a)
            <4>1. RunningIn(u, a) = RunningIn(t, a)
                BY <2>2, <3>3 DEF RunningIn
            <4> QED BY <1>1, <2>1, <3>1, <3>3, <4>1
        <3> QED BY <3>2, <3>3
    <2>4. IsFiniteSet(Running(u))
        BY <2>2, FS_RemoveElement DEF TrailOf
    <2> QED BY <2>1, <2>2, <2>3, <2>4 DEF TrailOf, u
<1> QED BY <1>3, <1>4

-----------------------------------------------------------------------------
(* The tree a configuration line builds.                                   *)

Generation(shapes, c) == UNION {ToSet(Children(s, c)) : s \in shapes}

Generations(f, A, c, D) ==
    [k \in 0 .. D |-> IF k = 0 THEN A ELSE Generation(f[k - 1], c)]

\* There are as many generations as one counts.
LEMMA GenerationsExist ==
    ASSUME NEW A, NEW c, NEW D \in Nat
    PROVE  \E f : f = Generations(f, A, c, D)
<1> DEFINE Ages(f, n) == [k \in 0 .. n |-> IF k = 0 THEN A ELSE Generation(f[k - 1], c)]
           Counted == {n \in Nat : \E f : f = Ages(f, n)}
<1>1. 0 \in Counted
    <2> DEFINE f == [k \in 0 .. 0 |-> A]
    <2>1. f = Ages(f, 0)
        OBVIOUS
    <2> QED BY <2>1
<1>2. ASSUME NEW n \in Nat, n \in Counted PROVE n + 1 \in Counted
    <2>1. PICK f : f = Ages(f, n)
        BY <1>2
    <2> DEFINE g == [k \in 0 .. n + 1 |-> IF k = n + 1 THEN Generation(f[n], c) ELSE f[k]]
    <2>2. ASSUME NEW k \in 0 .. n + 1
          PROVE  g[k] = IF k = 0 THEN A ELSE Generation(g[k - 1], c)
        <3>1. CASE k = 0
            <4>1. 0 \in 0 .. n
                OBVIOUS
            <4>2. f[0] = A
                BY <2>1, <4>1
            <4> QED BY <3>1, <4>2
        <3>2. CASE k \in 1 .. n
            <4>1. k \in 0 .. n /\ k - 1 \in 0 .. n + 1 /\ k # n + 1 /\ k - 1 # n + 1 /\ k # 0
                BY <3>2
            <4>2. f[k] = Generation(f[k - 1], c)
                BY <2>1, <4>1
            <4>3. g[k] = f[k] /\ g[k - 1] = f[k - 1]
                BY <4>1
            <4> QED BY <4>1, <4>2, <4>3
        <3>3. CASE k = n + 1
            <4>1. k - 1 = n /\ n \in 0 .. n + 1 /\ n # n + 1 /\ k # 0
                BY <3>3
            <4>2. g[n] = f[n]
                BY <4>1
            <4> QED BY <3>3, <4>1, <4>2
        <3> QED BY <3>1, <3>2, <3>3
    <2>3. g = Ages(g, n + 1)
        <3> HIDE DEF Generation
        <3> DEFINE h == Ages(g, n + 1)
        <3>1. \A k \in 0 .. n + 1 : h[k] = g[k]
            BY <2>2
        <3>2. DOMAIN h = 0 .. n + 1 /\ DOMAIN g = 0 .. n + 1
            OBVIOUS
        <3>3. h = [k \in 0 .. n + 1 |-> h[k]] /\ g = [k \in 0 .. n + 1 |-> g[k]]
            OBVIOUS
        <3> HIDE DEF g, h
        <3>4. h = g
            BY <3>1, <3>3
        <3> QED BY <3>4 DEF h
    <2> HIDE DEF g, Ages
    <2> QED BY <2>3
<1>3. Nat \subseteq Counted
    <2> HIDE DEF Counted
    <2> QED BY <1>1, <1>2, SetInduction
<1>4. PICK f : f = Ages(f, D)
    BY <1>3
<1> QED BY <1>4 DEF Generations

\* The root of a tree is keyed by all of its digits.
LEMMA RootIsKeyed ==
    ASSUME NEW N \in Nat, NEW c \in Nat
    PROVE  Key(BuildChunked(1, N, c, 0)) = <<1, N>>
<1>1. B(c) \in Nat /\ B(c + 1) = 2 * B(c)
    BY PowerDoubles
<1>2. BuildSpan(1, c, 0).kind = "SPAN" /\ BuildSpan(1, c, 0).i0 = 1 /\ BuildSpan(1, c, 0).n2 = c
    BY DEF BuildSpan, Shape
<1>3. BuildSpan(1, c + 1, 0).kind = "SPAN" /\ BuildSpan(1, c + 1, 0).i0 = 1
      /\ BuildSpan(1, c + 1, 0).n2 = c + 1
    BY DEF BuildSpan, Shape
<1>4. BuildChain(1, N, c).kind = "CHAIN" /\ BuildChain(1, N, c).i0 = 1
      /\ BuildChain(1, N, c).n2 = N
    BY DEF BuildChain, Shape
<1>5. CASE N = B(c)
    BY <1>1, <1>2, <1>5 DEF Key, Extent, BuildChunked
<1>6. CASE N # B(c) /\ N = 2 * B(c)
    BY <1>1, <1>3, <1>6 DEF Key, Extent, BuildChunked
<1>7. CASE N # B(c) /\ N # 2 * B(c)
    BY <1>1, <1>4, <1>7 DEF Key, Extent, BuildChunked
<1> QED BY <1>5, <1>6, <1>7

LEMMA RootIsShape ==
    ASSUME NEW N \in Nat, NEW c \in Nat
    PROVE  BuildChunked(1, N, c, 0) \in Shapes(N, c)
<1> DEFINE D == N \div PiecesPerLeaf
           A == {BuildChunked(1, N, c, 0)}
           Ages(f) == [k \in 0 .. D |-> IF k = 0 THEN A
                                        ELSE UNION {ToSet(Children(s, c)) : s \in f[k - 1]}]
           age == CHOOSE f : f = Ages(f)
<1>1. D \in Nat
    <2>1. PiecesPerLeaf \in Nat \ {0}
        BY PieceSizeAssumption, PowerDoubles DEF PiecesPerLeaf
    <2> HIDE DEF PiecesPerLeaf
    <2> QED BY <2>1
<1> HIDE DEF D
<1>2. \E f : f = Ages(f)
    <2> HIDE DEF A
    <2>1. PICK f : f = Generations(f, A, c, D)
        BY <1>1, GenerationsExist
    <2> QED BY <2>1 DEF Generation, Generations
<1>3. age = Ages(age)
    <2> HIDE DEF Ages
    <2> QED BY <1>2
<1>4. Shapes(N, c) = UNION {age[k] : k \in 0 .. D}
    BY DEF Shapes, D
<1> HIDE DEF age
<1>5. 0 \in 0 .. D /\ age[0] = A
    BY <1>1, <1>3
<1> QED BY <1>4, <1>5

\* Nothing runs in a tree that has just been built, and it has its root.
LEMMA BuiltTree ==
    ASSUME NEW N \in Nat, NEW c \in Nat
    PROVE  LET t == BuildTree(N, c)
           IN  /\ TrailOf(t)
               /\ Running(t) = {}
               /\ t # NoTree => <<1, N>> \in DOMAIN t
<1> DEFINE t == BuildTree(N, c)
<1>1. CASE t = NoTree
    <2>1. DOMAIN NoTree = {}
        BY DEF NoTree
    <2>2. IsTree(NoTree)
        BY DEF NoTree, IsTree
    <2> QED BY <1>1, <2>1, <2>2, EmptyTrail
<1>2. CASE t # NoTree
    <2> DEFINE keys == {Key(s) : s \in Shapes(N, c)}
    <2>1. t = [k \in keys |-> TreeNode(CHOOSE s \in Shapes(N, c) : Key(s) = k, c)]
        BY <1>2 DEF BuildTree
    <2>2. <<1, N>> \in keys
        BY RootIsKeyed, RootIsShape
    <2>3. \A s : LET n == TreeNode(s, c)
                 IN  Marked(n) /\ ~n.in_progress /\ n.active_count = 0
        BY DEF TreeNode, Marked
    <2>4. IsTree(t) /\ DOMAIN t = keys /\ \A k \in DOMAIN t : \E s : t[k] = TreeNode(s, c)
        BY <2>1 DEF IsTree
    <2> HIDE DEF t
    <2>5. \A k \in DOMAIN t : Marked(t[k]) /\ ~t[k].in_progress /\ t[k].active_count = 0
        BY <2>3, <2>4
    <2> QED BY <2>2, <2>4, <2>5, EmptyTrail DEF t
<1> QED BY <1>1, <1>2

-----------------------------------------------------------------------------
(* What a record does to the trail.                                        *)

\* A State whose tree keeps an exact trail.
StateOK(s) ==
    /\ {"tree", "index_max", "chunk_span"} \subseteq DOMAIN s
    /\ s.index_max \in Nat
    /\ s.chunk_span \in Nat
    /\ TrailOf(s.tree)
    /\ s.tree # NoTree => <<1, s.index_max>> \in DOMAIN s.tree

\* Only what the tree is built from and the marks on its nodes matter.
SameState(s, u) ==
    /\ DOMAIN u = DOMAIN s
    /\ u.index_max = s.index_max
    /\ u.chunk_span = s.chunk_span
    /\ SameMarks(s.tree, u.tree)

LEMMA SameStateKept ==
    ASSUME NEW s, StateOK(s), NEW u, SameState(s, u)
    PROVE  StateOK(u) /\ Running(u.tree) = Running(s.tree)
<1>1. TrailOf(u.tree) /\ Running(u.tree) = Running(s.tree)
    BY SameTrail DEF StateOK, SameState
<1>2. u.tree # NoTree => s.tree # NoTree
    <2>1. SUFFICES ASSUME s.tree = NoTree PROVE u.tree = NoTree
        OBVIOUS
    <2>2. DOMAIN u.tree = {}
        BY <2>1 DEF SameState, SameMarks, NoTree
    <2> QED BY <2>2 DEF NoTree, SameState, SameMarks, IsTree
<1> QED BY <1>1, <1>2 DEF StateOK, SameState, SameMarks

\* The leaf and unit counts, a plan and a phase leave the marks alone.
LEMMA FieldsLeaveMarks ==
    ASSUME NEW t, \A k \in DOMAIN t : Marked(t[k]), IsTree(t),
           NEW key, NEW n, key \in DOMAIN t =>
               /\ Marked(n)
               /\ n.in_progress = t[key].in_progress
               /\ n.active_count = t[key].active_count
    PROVE  SameMarks(t, [t EXCEPT ![key] = n])
BY DEF SameMarks, IsTree

LEMMA AttachKeeps ==
    ASSUME NEW s, "tree" \in DOMAIN s, IsTree(s.tree),
           \A k \in DOMAIN s.tree : Marked(s.tree[k]),
           "index_max" \in DOMAIN s, "chunk_span" \in DOMAIN s, NEW pid, NEW key
    PROVE  SameState(s, AttachTaskPlan(s, pid, key))
<1> DEFINE e == s.active[pid]
           m == s.tree[key]
           n == [m EXCEPT
                    !.threads = IF e.threads # 0 THEN e.threads ELSE @,
                    !.threads_live = IF e.threads # 0 THEN e.threads_live ELSE @,
                    !.mem_estimate = IF e.mem # 0 THEN e.mem ELSE @]
           t == [s.tree EXCEPT ![key] = n]
           u == [s EXCEPT !.tree = t]
<1>2. key \in DOMAIN s.tree =>
        Marked(n) /\ n.in_progress = m.in_progress /\ n.active_count = m.active_count
    BY DEF Marked
<1>3. AttachTaskPlan(s, pid, key) = s \/ AttachTaskPlan(s, pid, key) = u
    BY DEF AttachTaskPlan
<1> HIDE DEF n
<1>5. SameMarks(s.tree, t)
    BY <1>2, FieldsLeaveMarks
<1> HIDE DEF t
<1>6. SameState(s, u)
    BY <1>5 DEF SameState
<1>7. SameState(s, s)
    BY DEF SameState, SameMarks
<1> QED BY <1>3, <1>6, <1>7

LEMMA SameStateTransitive ==
    ASSUME NEW s, NEW u, NEW v, SameState(s, u), SameState(u, v)
    PROVE  SameState(s, v)
BY MarksTransitive DEF SameState

\* A change of the other fields of a State.
LEMMA OthersKeep ==
    ASSUME NEW s, StateOK(s), NEW u, DOMAIN u = DOMAIN s, u.tree = s.tree,
           u.index_max = s.index_max, u.chunk_span = s.chunk_span
    PROVE  SameState(s, u)
BY DEF SameState, StateOK, TrailOf, SameMarks

LEMMA EntryKeeps ==
    ASSUME NEW s, StateOK(s), NEW pid, NEW entry, NEW ts
    PROVE  /\ SameState(s, SetEntry(s, pid, entry))
           /\ SameState(s, DropEntry(s, pid))
           /\ SameState(s, ThreadTick(s, ts))
<1>1. SameState(s, SetEntry(s, pid, entry))
    BY OthersKeep DEF SetEntry, StateOK
<1>2. SameState(s, DropEntry(s, pid))
    BY OthersKeep DEF DropEntry, StateOK
<1>3. SameState(s, ThreadTick(s, ts))
    BY OthersKeep DEF ThreadTick, StateOK
<1> QED BY <1>1, <1>2, <1>3

\* A node's tree replaced by one with an exact trail.
LEMMA TreeReplaced ==
    ASSUME NEW s, StateOK(s), NEW t, TrailOf(t), DOMAIN t = DOMAIN s.tree
    PROVE  LET u == [s EXCEPT !.tree = t]
           IN  StateOK(u) /\ u.tree = t
<1> DEFINE u == [s EXCEPT !.tree = t]
<1>1. /\ DOMAIN u = DOMAIN s
      /\ u.tree = t
      /\ u.index_max = s.index_max
      /\ u.chunk_span = s.chunk_span
    BY DEF StateOK
<1>2. t # NoTree => s.tree # NoTree
    BY DEF TrailOf, IsTree, NoTree
<1> HIDE DEF u
<1> QED BY <1>1, <1>2 DEF StateOK, u

\* What a record leaves of a State: an exact trail, and nothing running that was
\* not but for the node it begins.
Feeds(s, u, begun) == StateOK(u) /\ Running(u.tree) \subseteq Running(s.tree) \cup begun

LEMMA FeedsSame ==
    ASSUME NEW s, StateOK(s), NEW u, SameState(s, u)
    PROVE  Feeds(s, u, {})
BY SameStateKept DEF Feeds

\* A node that is done, with its counts and those above it.
LEMMA DoneFeeds ==
    ASSUME NEW s, StateOK(s), NEW v, SameState(s, v), NEW t, SameMarks(v.tree, t),
           NEW key \in DOMAIN s.tree
    PROVE  Feeds(s, [v EXCEPT !.tree = MarkNodeDone(t, key)], {})
<1>1. StateOK(v) /\ Running(v.tree) = Running(s.tree) /\ DOMAIN v.tree = DOMAIN s.tree
    BY SameStateKept DEF SameState, SameMarks
<1>2. TrailOf(t) /\ Running(t) = Running(v.tree) /\ DOMAIN t = DOMAIN v.tree
    BY <1>1, SameTrail DEF StateOK, SameMarks
<1>3. /\ TrailOf(MarkNodeDone(t, key))
      /\ Running(MarkNodeDone(t, key)) = Running(t) \ {key}
      /\ DOMAIN MarkNodeDone(t, key) = DOMAIN t
    BY <1>1, <1>2, DoneTrail
<1> QED BY <1>1, <1>2, <1>3, TreeReplaced DEF Feeds

LEMMA CountsKeepMarks ==
    ASSUME NEW s, StateOK(s), NEW v, SameState(s, v), NEW k, NEW x, NEW y
    PROVE  /\ SameMarks(v.tree, MarkUnitsDone(v.tree, k, x))
           /\ SameMarks(v.tree, MarkUnitsDone(MarkLeavesDone(v.tree, k, y), k, x))
<1>1. \A a \in DOMAIN v.tree : Marked(v.tree[a])
    BY DEF SameState, SameMarks
<1> DEFINE t == MarkLeavesDone(v.tree, k, y)
<1>2. SameMarks(v.tree, t)
    BY <1>1, CountsLeaveMarks
<1>3. \A a \in DOMAIN t : Marked(t[a])
    BY <1>2 DEF SameMarks
<1> HIDE DEF t
<1>4. SameMarks(t, MarkUnitsDone(t, k, x))
    BY <1>3, CountsLeaveMarks
<1>5. SameMarks(v.tree, MarkUnitsDone(v.tree, k, x))
    BY <1>1, CountsLeaveMarks
<1> QED BY <1>2, <1>4, <1>5, MarksTransitive DEF t

LEMMA BeginFeeds ==
    ASSUME NEW s, StateOK(s), NEW r, r.key \notin Running(s.tree)
    PROVE  Feeds(s, HandleBegin(s, r), {r.key})
<1> DEFINE key == NodeOf(s, r.key)
           s1 == SetEntry(s, r.pid, [EntryOf(s, r.pid) EXCEPT !.node = key, !.resumed = FALSE])
           s2 == [s1 EXCEPT !.tree[key].in_progress = TRUE, !.tree[key].pid = r.pid]
           s3 == AttachTaskPlan(s2, r.pid, key)
<1>1. SameState(s, s1) /\ s1.tree = s.tree
    BY EntryKeeps DEF SetEntry, StateOK
<1>2. HandleBegin(s, r) = IF key = NoKey THEN s1
                          ELSE [s3 EXCEPT !.tree = MarkActive(@, key, 1)]
    BY DEF HandleBegin
<1> HIDE DEF s1
<1>3. CASE key = NoKey
    BY <1>1, <1>2, <1>3, FeedsSame DEF Feeds
<1>4. CASE key # NoKey
    <2>1. key = r.key /\ key \in DOMAIN s.tree /\ ~s.tree[key].in_progress
        BY <1>4 DEF NodeOf, Running
    <2>2. /\ DOMAIN s2 = DOMAIN s
          /\ s2.index_max = s.index_max
          /\ s2.chunk_span = s.chunk_span
          /\ s2.tree = [s.tree EXCEPT ![key] = [@ EXCEPT !.in_progress = TRUE, !.pid = r.pid]]
        BY <1>1, <2>1 DEF StateOK, SameState
    <2> HIDE DEF s2, key
    <2> DEFINE begun == [s.tree[key] EXCEPT !.in_progress = TRUE, !.pid = r.pid]
    <2>3. Marked(begun) /\ begun.in_progress /\ begun.active_count = s.tree[key].active_count
        BY <2>1 DEF StateOK, TrailOf, Marked
    <2>4. s2.tree = [s.tree EXCEPT ![key] = begun]
        BY <2>1, <2>2
    <2> HIDE DEF begun
    <2>5. /\ IsTree(s2.tree)
          /\ DOMAIN s2.tree = DOMAIN s.tree
          /\ \A a \in DOMAIN s.tree :
                /\ Marked(s2.tree[a])
                /\ s2.tree[a].active_count = s.tree[a].active_count
                /\ s2.tree[a].in_progress <=> a = key \/ s.tree[a].in_progress
        BY <2>1, <2>3, <2>4 DEF StateOK, TrailOf, IsTree
    <2>6. SameState(s2, s3)
        BY <2>2, <2>5, AttachKeeps DEF StateOK
    <2> HIDE DEF s3
    <2>7. /\ DOMAIN s3 = DOMAIN s
          /\ s3.index_max = s.index_max
          /\ s3.chunk_span = s.chunk_span
          /\ DOMAIN s3.tree = DOMAIN s.tree
          /\ \A a \in DOMAIN s.tree :
                /\ Marked(s3.tree[a])
                /\ s3.tree[a].active_count = s.tree[a].active_count
                /\ s3.tree[a].in_progress <=> a = key \/ s.tree[a].in_progress
        BY <2>2, <2>5, <2>6 DEF SameState, SameMarks
    <2> DEFINE t == MarkActive(s3.tree, key, 1)
               u == [s3 EXCEPT !.tree = t]
    <2>8. TrailOf(t) /\ Running(t) = Running(s.tree) \cup {key} /\ TrailOf(s.tree)
        BY <2>1, <2>7, BeginTrail DEF StateOK
    <2>9. DOMAIN t = DOMAIN s.tree
        BY <2>7 DEF MarkActive, Upward
    <2> HIDE DEF t
    <2>10. /\ DOMAIN u = DOMAIN s
           /\ u.tree = t
           /\ u.index_max = s.index_max
           /\ u.chunk_span = s.chunk_span
        BY <2>7 DEF StateOK
    <2>11. t # NoTree => s.tree # NoTree
        BY <2>8, <2>9 DEF TrailOf, IsTree, NoTree
    <2> HIDE DEF u
    <2>12. Feeds(s, u, {r.key})
        BY <2>1, <2>8, <2>9, <2>10, <2>11 DEF Feeds, StateOK
    <2> QED BY <1>2, <1>4, <2>12 DEF t, u, key
<1> QED BY <1>3, <1>4

LEMMA NodeOfTree ==
    ASSUME NEW s, NEW key, NodeOf(s, key) # NoKey
    PROVE  NodeOf(s, key) \in DOMAIN s.tree
BY DEF NodeOf

LEMMA StoredFeeds ==
    ASSUME NEW s, StateOK(s), NEW r
    PROVE  Feeds(s, HandleAlreadyStored(s, r), {})
<1> DEFINE key == NodeOf(s, r.key)
           covered == LeavesCovered(r.key)
           d == DropEntry(s, r.pid)
           v == [d EXCEPT !.pieces_done = @ + covered, !.joins_done = @ + covered - 1]
           t == MarkUnitsDone(MarkLeavesDone(v.tree, key, covered), key, 2 * covered - 1)
<1>1. HandleAlreadyStored(s, r) =
        IF key = NoKey THEN v ELSE [v EXCEPT !.tree = MarkNodeDone(t, key)]
    BY DEF HandleAlreadyStored
<1>2. SameState(s, v)
    <2>1. SameState(s, d) /\ StateOK(d)
        BY EntryKeeps, SameStateKept
    <2> HIDE DEF d, covered
    <2>2. SameState(d, v)
        BY <2>1, OthersKeep DEF StateOK
    <2> QED BY <2>1, <2>2, SameStateTransitive
<1>3. key # NoKey => key \in DOMAIN s.tree
    BY NodeOfTree
<1> HIDE DEF v, key, covered
<1>4. SameMarks(v.tree, t)
    BY <1>2, CountsKeepMarks
<1> HIDE DEF t
<1> QED BY <1>1, <1>2, <1>3, <1>4, FeedsSame, DoneFeeds

LEMMA JoiningFeeds ==
    ASSUME NEW s, StateOK(s), NEW r
    PROVE  Feeds(s, HandleJoining(s, r), {})
<1> DEFINE key == NodeOf(s, r.key)
           n == [s.tree[key] EXCEPT !.mem_estimate = r.mem]
           t == [s.tree EXCEPT ![key] = n]
           u == [s EXCEPT !.tree = t]
<1>1. HandleJoining(s, r) = s \/ HandleJoining(s, r) = u
    BY DEF HandleJoining
<1>2. SameState(s, s)
    BY OthersKeep
<1>3. key \in DOMAIN s.tree =>
        /\ Marked(n)
        /\ n.in_progress = s.tree[key].in_progress
        /\ n.active_count = s.tree[key].active_count
    BY DEF StateOK, TrailOf, Marked
<1> HIDE DEF n, key
<1>4. SameMarks(s.tree, t)
    BY <1>3, FieldsLeaveMarks DEF StateOK, TrailOf
<1> HIDE DEF t
<1>5. SameState(s, u)
    BY <1>4 DEF SameState, StateOK
<1> QED BY <1>1, <1>2, <1>5, FeedsSame

LEMMA JoinedFeeds ==
    ASSUME NEW s, StateOK(s), NEW r
    PROVE  Feeds(s, HandleJoined(s, r), {})
<1> DEFINE key == NodeOf(s, r.key)
           v == [s EXCEPT !.joins_done = @ + 1,
                          !.join_events = IF EntryOf(s, r.pid).resumed THEN @ ELSE @ + 1]
           t == MarkUnitsDone(v.tree, key, 1)
<1>1. HandleJoined(s, r) =
        IF key = NoKey THEN v ELSE [v EXCEPT !.tree = MarkNodeDone(t, key)]
    BY DEF HandleJoined
<1>2. SameState(s, v)
    BY OthersKeep DEF StateOK
<1>3. key # NoKey => key \in DOMAIN s.tree
    BY NodeOfTree
<1> HIDE DEF v, key
<1>4. SameMarks(v.tree, t)
    BY <1>2, CountsKeepMarks
<1> HIDE DEF t
<1> QED BY <1>1, <1>2, <1>3, <1>4, FeedsSame, DoneFeeds

LEMMA PieceFeeds ==
    ASSUME NEW s, StateOK(s), NEW r
    PROVE  Feeds(s, HandlePiece(s, r), {})
<1> DEFINE key == NodeOf(s, r.key)
           v == [s EXCEPT !.pieces_done = @ + 1, !.piece_events = @ + 1]
           t == MarkUnitsDone(MarkLeavesDone(v.tree, key, 1), key, 1)
<1>1. HandlePiece(s, r) =
        IF key = NoKey THEN v ELSE [v EXCEPT !.tree = MarkNodeDone(t, key)]
    BY DEF HandlePiece
<1>2. SameState(s, v)
    BY OthersKeep DEF StateOK
<1>3. key # NoKey => key \in DOMAIN s.tree
    BY NodeOfTree
<1> HIDE DEF v, key
<1>4. SameMarks(v.tree, t)
    BY <1>2, CountsKeepMarks
<1> HIDE DEF t
<1> QED BY <1>1, <1>2, <1>3, <1>4, FeedsSame, DoneFeeds

LEMMA PhaseLineFeeds ==
    ASSUME NEW s, StateOK(s), NEW r
    PROVE  Feeds(s, HandlePhaseLine(s, r), {})
<1> DEFINE key == EntryOf(s, r.pid).node
           s1 == IF Known(s, r.pid) THEN SetEntry(s, r.pid, PhaseEntry(s.active[r.pid], r))
                 ELSE s
           s2 == PhaseLock(s1, r)
           n == PhaseNode(s2.tree[key], r)
           s3 == [s2 EXCEPT !.tree[key] = n]
<1>1. HandlePhaseLine(s, r) = IF key = NoKey THEN s2
                              ELSE IF r.action = "multiplying"
                                   THEN AttachTaskPlan(s3, r.pid, key) ELSE s3
    BY DEF HandlePhaseLine
<1>2. SameState(s, s1) /\ s1.tree = s.tree
    BY OthersKeep DEF SetEntry, StateOK
<1> HIDE DEF s1
<1>3. StateOK(s1)
    BY <1>2, SameStateKept
<1>4. SameState(s1, s2) /\ s2.tree = s1.tree
    BY <1>3, OthersKeep DEF PhaseLock, StateOK
<1>5. SameState(s, s2)
    BY <1>2, <1>4, SameStateTransitive
<1> HIDE DEF s2
<1>6. StateOK(s2)
    BY <1>5, SameStateKept
<1>7. key \in DOMAIN s2.tree =>
        /\ Marked(n)
        /\ n.in_progress = s2.tree[key].in_progress
        /\ n.active_count = s2.tree[key].active_count
    BY <1>6 DEF StateOK, TrailOf, Marked, PhaseNode
<1> DEFINE t == [s2.tree EXCEPT ![key] = n]
<1>8. s3 = [s2 EXCEPT !.tree = t]
    OBVIOUS
<1> HIDE DEF n, key, s3
<1>9. SameMarks(s2.tree, t)
    BY <1>6, <1>7, FieldsLeaveMarks DEF StateOK, TrailOf
<1> HIDE DEF t
<1>10. SameState(s2, s3)
    BY <1>6, <1>8, <1>9 DEF SameState, StateOK
<1>11. SameState(s, s3) /\ StateOK(s3)
    BY <1>5, <1>6, <1>10, SameStateTransitive, SameStateKept
<1>12. SameState(s3, AttachTaskPlan(s3, r.pid, key))
    BY <1>11, AttachKeeps DEF StateOK, TrailOf
<1> QED BY <1>1, <1>5, <1>11, <1>12, SameStateTransitive, FeedsSame

LEMMA TaskStartFeeds ==
    ASSUME NEW s, StateOK(s), NEW r, NEW ts
    PROVE  Feeds(s, HandleTaskStart(s, r, ts), {})
<1> DEFINE start == r.fn = "task_start"
           e == [EntryOf(s, r.pid) EXCEPT
                   !.mem = r.mem, !.threads = r.thr,
                   !.threads_live = IF start THEN r.thr ELSE @]
           s1 == [s EXCEPT !.halt = IF start THEN NoHalt ELSE @,
                           !.threads_seen = TRUE,
                           !.thread_last_ts = IF s.threads_seen THEN @ ELSE ts]
           s2 == SetEntry(s1, r.pid, e)
<1>1. HandleTaskStart(s, r, ts) = AttachTaskPlan(s2, r.pid, e.node)
    BY DEF HandleTaskStart
<1>2. SameState(s, s1)
    BY OthersKeep DEF StateOK
<1> HIDE DEF s1, e
<1>3. StateOK(s1)
    BY <1>2, SameStateKept
<1>4. SameState(s1, s2)
    BY <1>3, EntryKeeps
<1> HIDE DEF s2
<1>5. SameState(s, s2) /\ StateOK(s2)
    BY <1>2, <1>3, <1>4, SameStateTransitive, SameStateKept
<1>6. SameState(s2, AttachTaskPlan(s2, r.pid, e.node))
    BY <1>5, AttachKeeps DEF StateOK, TrailOf
<1> QED BY <1>1, <1>5, <1>6, SameStateTransitive, FeedsSame

LEMMA BookkeepingFeeds ==
    ASSUME NEW s, StateOK(s), NEW r
    PROVE  /\ Feeds(s, HandleTaskEnd(s, r), {})
           /\ Feeds(s, HandleTaskExit(s, r), {})
           /\ Feeds(s, HandleHalt(s, r), {})
           /\ r.action \in {"active processes", "active threads", "active memory"} =>
                Feeds(s, HandleScheduler(s, r), {})
<1>1. SameState(s, HandleTaskEnd(s, r))
    BY OthersKeep DEF HandleTaskEnd, DropEntry, StateOK
<1>2. SameState(s, HandleTaskExit(s, r))
    <2> DEFINE d == DropEntry(s, r.pid)
    <2>1. SameState(s, d) /\ StateOK(d)
        BY EntryKeeps, SameStateKept
    <2>2. HandleTaskExit(s, r) = [d EXCEPT !.locking_pids = @ \ {r.pid}, !.task_exit = r.pid]
        BY DEF HandleTaskExit
    <2> HIDE DEF d
    <2>3. SameState(d, HandleTaskExit(s, r))
        BY <2>1, <2>2, OthersKeep DEF StateOK
    <2> QED BY <2>1, <2>3, SameStateTransitive
<1>3. SameState(s, HandleHalt(s, r))
    BY OthersKeep DEF HandleHalt, StateOK
<1>4. ASSUME r.action \in {"active processes", "active threads", "active memory"}
      PROVE  SameState(s, HandleScheduler(s, r))
    <2> DEFINE u == HandleScheduler(s, r)
    <2>1. \/ u = [s EXCEPT !.active_max = AtLeast(@, r.val)]
          \/ u = [s EXCEPT !.threads_reported = r.val]
          \/ u = [s EXCEPT !.mem_booked = r.val]
        BY <1>4, Zenon DEF HandleScheduler
    <2> HIDE DEF u
    <2>2. /\ DOMAIN u = DOMAIN s
          /\ u.tree = s.tree
          /\ u.index_max = s.index_max
          /\ u.chunk_span = s.chunk_span
        BY <2>1 DEF StateOK
    <2> QED BY <2>2, OthersKeep DEF u
<1>5. \A u : SameState(s, u) => Feeds(s, u, {})
    BY FeedsSame
<1> QED BY <1>1, <1>2, <1>3, <1>4, <1>5, Zenon

\* A tree built again is a tree nothing runs in.
LEMMA ApplyFeeds ==
    ASSUME NEW s, StateOK(s), NEW N \in Nat
    PROVE  Feeds(s, ApplyIndexMax(s, N), {})
<1> DEFINE t == IF s.chunk_span = 0 THEN NoTree ELSE BuildTree(N, s.chunk_span)
           u == ApplyIndexMax(s, N)
<1>1. /\ DOMAIN u = DOMAIN s
      /\ u.index_max = N
      /\ u.chunk_span = s.chunk_span
      /\ u.tree = t
    BY DEF ApplyIndexMax, StateOK
<1>2. DOMAIN NoTree = {} /\ IsTree(NoTree)
    BY DEF NoTree, IsTree
<1>3. TrailOf(NoTree) /\ Running(NoTree) = {}
    BY <1>2, EmptyTrail
<1>4. s.chunk_span \in Nat
    BY DEF StateOK
<1>5. TrailOf(t) /\ Running(t) = {} /\ (t # NoTree => <<1, N>> \in DOMAIN t)
    BY <1>3, <1>4, BuiltTree
<1> HIDE DEF t, u
<1> QED BY <1>1, <1>5 DEF Feeds, StateOK, u

LEMMA IndexMaxType ==
    ASSUME NEW size \in Nat
    PROVE  GetIndexMax(size) \in Nat
<1>1. PiecesPerLeaf \in Nat \ {0}
    BY PieceSizeAssumption, PowerDoubles DEF PiecesPerLeaf
<1> HIDE DEF PiecesPerLeaf
<1>2. ASSUME NEW b \in Nat \ {0}, NEW m \in Nat
      PROVE  m % b \in 0 .. b - 1
    OBVIOUS
<1>3. 32 * size + 4 \in Nat
    OBVIOUS
<1>4. (32 * size + 4) % PiecesPerLeaf \in 0 .. PiecesPerLeaf - 1
    BY <1>1, <1>2, <1>3
<1> QED BY <1>1, <1>3, <1>4 DEF GetIndexMax

LEMMA FeedsAfterSame ==
    ASSUME NEW s, StateOK(s), NEW v, SameState(s, v), NEW u, Feeds(v, u, {})
    PROVE  Feeds(s, u, {})
BY SameStateKept DEF Feeds

LEMMA ConfigFeeds ==
    ASSUME NEW s, StateOK(s), NEW name, NEW val \in Nat
    PROVE  Feeds(s, HandleConfig(s, name, val), {})
<1> DEFINE prev == s.prev_config
           v == [s EXCEPT
                    !.config = (name :> val) @@ @,
                    !.config_diff = IF name \in DOMAIN prev /\ prev[name] # val
                                    THEN @ \cup {name} ELSE @]
           u == HandleConfigOf(v, name, val)
<1>1. HandleConfig(s, name, val) = u
    BY DEF HandleConfig
<1>2. SameState(s, v)
    BY OthersKeep DEF StateOK
<1> HIDE DEF v
<1>3. StateOK(v)
    BY <1>2, SameStateKept
<1>4. \A N \in Nat : Feeds(v, ApplyIndexMax(v, N), {})
    BY <1>3, ApplyFeeds
<1>5. \A x : SameState(v, x) => Feeds(v, x, {})
    BY <1>3, FeedsSame
<1>6. SameState(v, v)
    BY <1>3, OthersKeep
<1> SUFFICES Feeds(v, u, {})
    BY <1>1, <1>2, FeedsAfterSame
<1>7. CASE name = "piece size"
    <2>1. GetIndexMax(ArgSize) \in Nat
        BY IndexMaxType, ArgAssumption
    <2>2. u = v \/ u = ApplyIndexMax(v, GetIndexMax(ArgSize))
        BY <1>7, Zenon DEF HandleConfigOf
    <2> QED BY <1>4, <1>5, <1>6, <2>1, <2>2
<1>8. CASE name = "run size"
    <2>1. u = v \/ u = ApplyIndexMax(v, val)
        BY <1>8, Zenon DEF HandleConfigOf
    <2> QED BY <1>4, <1>5, <1>6, <2>1
<1>9. CASE name = "chunk span"
    <2> DEFINE w == [v EXCEPT !.chunk_span = val]
    <2>1. u = w \/ u = ApplyIndexMax(w, v.index_max)
        BY <1>9, Zenon DEF HandleConfigOf
    <2>2. /\ DOMAIN w = DOMAIN v
          /\ w.tree = v.tree
          /\ w.index_max = v.index_max
          /\ w.chunk_span = val
        BY <1>3 DEF StateOK
    <2> HIDE DEF w
    <2>3. StateOK(w) /\ Running(w.tree) = Running(v.tree)
        BY <1>3, <2>2 DEF StateOK
    <2>4. Feeds(w, ApplyIndexMax(w, v.index_max), {})
        BY <1>3, <2>3, ApplyFeeds DEF StateOK
    <2> QED BY <2>1, <2>3, <2>4 DEF Feeds
<1>10. CASE name \notin {"piece size", "run size", "chunk span"}
    <2>1. \/ u = v
          \/ u = [v EXCEPT !.n_process_logged = val]
          \/ u = [v EXCEPT !.mem_launch = val]
          \/ u = [v EXCEPT !.mem_max = val]
          \/ u = [v EXCEPT !.disk_lock_enabled = (val # 0)]
        BY <1>10, Zenon DEF HandleConfigOf
    <2> HIDE DEF u
    <2>2. /\ DOMAIN u = DOMAIN v
          /\ u.tree = v.tree
          /\ u.index_max = v.index_max
          /\ u.chunk_span = v.chunk_span
        BY <1>3, <2>1 DEF StateOK
    <2>3. SameState(v, u)
        BY <1>3, <2>2, OthersKeep
    <2> QED BY <1>5, <2>3
<1> QED BY <1>7, <1>8, <1>9, <1>10, Zenon

LEMMA AllDoneFeeds ==
    ASSUME NEW s, StateOK(s)
    PROVE  Feeds(s, AllDone(s), {})
<1> DEFINE root == <<1, s.index_max>>
           v == IF s.total_pieces = 0 THEN s
                ELSE [s EXCEPT !.pieces_done = s.total_pieces,
                               !.joins_done = s.total_pieces - 1]
           L == s.tree[root].leaves_total
           t == MarkUnitsDone(MarkLeavesDone(v.tree, root, L), root, 2 * L - 1)
<1>1. AllDone(s) = IF s.tree = NoTree THEN v ELSE [v EXCEPT !.tree = MarkNodeDone(t, root)]
    BY DEF AllDone
<1>2. SameState(s, v)
    BY OthersKeep DEF StateOK
<1>3. s.tree # NoTree => root \in DOMAIN s.tree
    BY DEF StateOK
<1> HIDE DEF v, root, L
<1>4. SameMarks(v.tree, t)
    BY <1>2, CountsKeepMarks
<1> HIDE DEF t
<1> QED BY <1>1, <1>2, <1>3, <1>4, FeedsSame, DoneFeeds

PhaseActions == {"dividing", "divided", "binary split solved", "pi already stored",
                 "display begin", "display end"}

LEMMA PhaseFeeds ==
    ASSUME NEW s, StateOK(s), NEW action \in PhaseActions
    PROVE  Feeds(s, HandlePhase(s, action), {})
<1>1. \A name : SameState(s, SetPhase(s, name)) /\ StateOK(SetPhase(s, name))
    BY OthersKeep, SameStateKept DEF SetPhase, StateOK
<1>2. CASE action \in {"dividing", "divided", "binary split solved"}
    <2>1. HandlePhase(s, action) = SetPhase(s, action)
        BY <1>2, Zenon DEF HandlePhase
    <2> QED BY <1>1, <2>1, FeedsSame
<1>3. CASE action = "pi already stored"
    <2>1. HandlePhase(s, action) = AllDone(SetPhase(s, action))
        BY <1>3, Zenon DEF HandlePhase
    <2> QED BY <1>1, <2>1, AllDoneFeeds, FeedsAfterSame
<1>4. CASE action = "display begin"
    <2>1. HandlePhase(s, action) = SetPhase(s, "displaying")
        BY <1>4, Zenon DEF HandlePhase
    <2> QED BY <1>1, <2>1, FeedsSame
<1>5. CASE action = "display end"
    <2> DEFINE v == SetPhase(s, "displayed")
    <2>1. HandlePhase(s, action) = [v EXCEPT !.done = TRUE]
        BY <1>5, Zenon DEF HandlePhase
    <2>2. SameState(s, v) /\ StateOK(v)
        BY <1>1
    <2> HIDE DEF v
    <2>3. SameState(v, [v EXCEPT !.done = TRUE])
        BY <2>2, OthersKeep DEF StateOK
    <2> QED BY <2>1, <2>2, <2>3, SameStateTransitive, FeedsSame
<1> QED BY <1>2, <1>3, <1>4, <1>5, Zenon DEF PhaseActions

-----------------------------------------------------------------------------
(* The records.                                                            *)

Begins(r) == r.fn = "node_process" /\ r.action = "begin"

NodeActions == {"begin", "already stored", "joining", "joined", "piece"}

\* A record that a handler of the parser knows.
Line(r) ==
    \/ r.fn = "node_process" /\ r.action \in NodeActions
    \/ r.fn = "split_piece"
    \/ r.fn \in {"task_start", "task_donate"}
    \/ r.fn = "task_end"
    \/ r.fn = "task_check_exit"
    \/ r.fn = "node_can_launch"
    \/ r.fn = "scheduler" /\ r.action \in {"active processes", "active threads",
                                           "active memory"}
    \/ r.fn = "pi_tree" /\ r.val \in Nat
    \/ r.fn = "pi" /\ r.action \in PhaseActions

LEMMA NodeFeeds ==
    ASSUME NEW s, StateOK(s), NEW r,
           r.action \in NodeActions,
           r.action = "begin" => r.key \notin Running(s.tree)
    PROVE  /\ r.action = "begin" => Feeds(s, HandleNodeProcess(s, r), {r.key})
           /\ r.action # "begin" => Feeds(s, HandleNodeProcess(s, r), {})
<1>1. CASE r.action = "begin"
    <2>1. HandleNodeProcess(s, r) = HandleBegin(s, r)
        BY <1>1, Zenon DEF HandleNodeProcess
    <2> QED BY <1>1, <2>1, BeginFeeds, Zenon
<1>2. CASE r.action = "already stored"
    <2>1. HandleNodeProcess(s, r) = HandleAlreadyStored(s, r)
        BY <1>2, Zenon DEF HandleNodeProcess
    <2> QED BY <1>2, <2>1, StoredFeeds, Zenon
<1>3. CASE r.action = "joining"
    <2>1. HandleNodeProcess(s, r) = HandleJoining(s, r)
        BY <1>3, Zenon DEF HandleNodeProcess
    <2> QED BY <1>3, <2>1, JoiningFeeds, Zenon
<1>4. CASE r.action = "joined"
    <2>1. HandleNodeProcess(s, r) = HandleJoined(s, r)
        BY <1>4, Zenon DEF HandleNodeProcess
    <2> QED BY <1>4, <2>1, JoinedFeeds, Zenon
<1>5. CASE r.action = "piece"
    <2>1. HandleNodeProcess(s, r) = HandlePiece(s, r)
        BY <1>5, Zenon DEF HandleNodeProcess
    <2> QED BY <1>5, <2>1, PieceFeeds, Zenon
<1> QED BY <1>1, <1>2, <1>3, <1>4, <1>5, Zenon DEF NodeActions

LEMMA HandleFeeds ==
    ASSUME NEW s, StateOK(s), NEW r, Line(r), NEW ts,
           Begins(r) => r.key \notin Running(s.tree)
    PROVE  Feeds(s, Handle(s, r, ts), IF Begins(r) THEN {r.key} ELSE {})
<1>1. CASE r.fn = "node_process"
    <2>1. Handle(s, r, ts) = HandleNodeProcess(s, r)
        BY <1>1, Zenon DEF Handle
    <2>2. r.action \in NodeActions
        BY <1>1, Zenon DEF Line
    <2>3. Begins(r) <=> r.action = "begin"
        BY <1>1 DEF Begins
    <2>4. r.action = "begin" => r.key \notin Running(s.tree)
        BY <2>3
    <2>5. /\ r.action = "begin" => Feeds(s, HandleNodeProcess(s, r), {r.key})
          /\ r.action # "begin" => Feeds(s, HandleNodeProcess(s, r), {})
        BY <2>2, <2>4, NodeFeeds, Zenon
    <2> QED BY <2>1, <2>3, <2>5, Zenon
<1> SUFFICES ASSUME r.fn # "node_process"
             PROVE  Feeds(s, Handle(s, r, ts), {})
    BY <1>1 DEF Begins
<1>2. CASE r.fn = "split_piece"
    <2>1. Handle(s, r, ts) = HandlePhaseLine(s, r)
        BY <1>2, Zenon DEF Handle
    <2> QED BY <2>1, PhaseLineFeeds
<1>3. CASE r.fn \in {"task_start", "task_donate"}
    <2>1. Handle(s, r, ts) = HandleTaskStart(s, r, ts)
        BY <1>3, Zenon DEF Handle
    <2> QED BY <2>1, TaskStartFeeds
<1>4. CASE r.fn = "task_end"
    <2>1. Handle(s, r, ts) = HandleTaskEnd(s, r)
        BY <1>4, Zenon DEF Handle
    <2> QED BY <2>1, BookkeepingFeeds, Zenon
<1>5. CASE r.fn = "task_check_exit"
    <2>1. Handle(s, r, ts) = HandleTaskExit(s, r)
        BY <1>5, Zenon DEF Handle
    <2> QED BY <2>1, BookkeepingFeeds, Zenon
<1>6. CASE r.fn = "node_can_launch"
    <2>1. Handle(s, r, ts) = HandleHalt(s, r)
        BY <1>6, Zenon DEF Handle
    <2> QED BY <2>1, BookkeepingFeeds, Zenon
<1>7. CASE r.fn = "scheduler"
    <2>1. Handle(s, r, ts) = HandleScheduler(s, r)
        BY <1>7, Zenon DEF Handle
    <2>2. r.action \in {"active processes", "active threads", "active memory"}
        BY <1>7, Zenon DEF Line
    <2> QED BY <2>1, <2>2, BookkeepingFeeds, Zenon
<1>8. CASE r.fn = "pi_tree"
    <2>1. Handle(s, r, ts) = HandleConfig(s, r.action, r.val)
        BY <1>8, Zenon DEF Handle
    <2>2. r.val \in Nat
        BY <1>8, Zenon DEF Line
    <2> QED BY <2>1, <2>2, ConfigFeeds
<1>9. CASE r.fn = "pi"
    <2>1. Handle(s, r, ts) = HandlePhase(s, r.action)
        BY <1>9, Zenon DEF Handle
    <2>2. r.action \in PhaseActions
        BY <1>9, Zenon DEF Line
    <2> QED BY <2>1, <2>2, PhaseFeeds
<1> QED BY <1>2, <1>3, <1>4, <1>5, <1>6, <1>7, <1>8, <1>9, Zenon DEF Line

\* Whatever stamp it carries.
LEMMA FeedLineFeeds ==
    ASSUME NEW s, StateOK(s), NEW r, Line(r), NEW ts,
           Begins(r) => r.key \notin Running(s.tree)
    PROVE  Feeds(s, FeedLine(s, r, ts), IF Begins(r) THEN {r.key} ELSE {})
<1> DEFINE v == IF r.fn \in Stamped THEN ThreadTick(s, ts) ELSE s
<1>1. FeedLine(s, r, ts) = Handle(v, r, ts)
    BY DEF FeedLine
<1>2. SameState(s, v)
    BY EntryKeeps, OthersKeep
<1> HIDE DEF v
<1>3. StateOK(v) /\ Running(v.tree) = Running(s.tree)
    BY <1>2, SameStateKept
<1>4. Feeds(v, Handle(v, r, ts), IF Begins(r) THEN {r.key} ELSE {})
    BY <1>3, HandleFeeds
<1> QED BY <1>1, <1>3, <1>4 DEF Feeds

-----------------------------------------------------------------------------
(* What the scheduler logs.                                                *)

\* Lines none of which begins a node.
Plain(R) == \A r \in R : Line(r) /\ ~Begins(r)

Quiet(q) == \E R : q \in Seq(R) /\ Plain(R)

LEMMA QuietOne ==
    ASSUME NEW r, Line(r), ~Begins(r)
    PROVE  Quiet(<<r>>)
<1>1. <<r>> \in Seq({r}) /\ Plain({r})
    BY DEF Plain
<1> QED BY <1>1 DEF Quiet

LEMMA QuietLines ==
    /\ Quiet(<< >>)
    /\ \A p, q : Quiet(p) /\ Quiet(q) => Quiet(p \o q)
    /\ \A a, b : Quiet(<<a>>) /\ Quiet(<<b>>) => Quiet(<<a, b>>)
    /\ \A a, b, c : Quiet(<<a>>) /\ Quiet(<<b, c>>) => Quiet(<<a, b, c>>)
    /\ \A q : Quiet(q) /\ q # << >> =>
            Line(Head(q)) /\ ~Begins(Head(q)) /\ Quiet(Tail(q))
<1>1. Quiet(<< >>)
    <2>1. << >> \in Seq({}) /\ Plain({})
        BY DEF Plain
    <2> QED BY <2>1 DEF Quiet
<1>2. \A R, T : Plain(R) /\ Plain(T) => Plain(R \cup T)
    BY DEF Plain
<1>3. ASSUME NEW p, NEW q, Quiet(p), Quiet(q) PROVE Quiet(p \o q)
    <2>1. PICK R : p \in Seq(R) /\ Plain(R)
        BY <1>3 DEF Quiet
    <2>2. PICK T : q \in Seq(T) /\ Plain(T)
        BY <1>3 DEF Quiet
    <2>3. p \in Seq(R \cup T) /\ q \in Seq(R \cup T)
        BY <2>1, <2>2
    <2>4. p \o q \in Seq(R \cup T)
        BY <2>3
    <2> QED BY <1>2, <2>1, <2>2, <2>4 DEF Quiet
<1>4. ASSUME NEW a, NEW b, Quiet(<<a>>), Quiet(<<b>>) PROVE Quiet(<<a, b>>)
    <2>1. PICK R : <<a>> \in Seq(R) /\ Plain(R)
        BY <1>4 DEF Quiet
    <2>2. PICK T : <<b>> \in Seq(T) /\ Plain(T)
        BY <1>4 DEF Quiet
    <2>3. a \in R \cup T /\ b \in R \cup T
        BY <2>1, <2>2
    <2>4. <<a, b>> \in Seq(R \cup T)
        BY <2>3
    <2> QED BY <1>2, <2>1, <2>2, <2>4 DEF Quiet
<1>5. ASSUME NEW a, NEW b, NEW c, Quiet(<<a>>), Quiet(<<b, c>>) PROVE Quiet(<<a, b, c>>)
    <2>1. PICK R : <<a>> \in Seq(R) /\ Plain(R)
        BY <1>5 DEF Quiet
    <2>2. PICK T : <<b, c>> \in Seq(T) /\ Plain(T)
        BY <1>5 DEF Quiet
    <2>3. a \in R \cup T /\ b \in R \cup T /\ c \in R \cup T
        BY <2>1, <2>2
    <2>4. <<a, b, c>> \in Seq(R \cup T)
        BY <2>3
    <2> QED BY <1>2, <2>1, <2>2, <2>4 DEF Quiet
<1>6. ASSUME NEW q, Quiet(q), q # << >>
      PROVE  Line(Head(q)) /\ ~Begins(Head(q)) /\ Quiet(Tail(q))
    <2>1. PICK R : q \in Seq(R) /\ Plain(R)
        BY <1>6 DEF Quiet
    <2>2. Head(q) \in R /\ Tail(q) \in Seq(R)
        BY <1>6, <2>1
    <2>3. Line(Head(q)) /\ ~Begins(Head(q))
        BY <2>1, <2>2 DEF Plain
    <2> QED BY <2>1, <2>2, <2>3 DEF Quiet
<1> QED BY <1>1, <1>3, <1>4, <1>5, <1>6

\* Every line the scheduler has to log.
LEMMA SchedulerLinesQuiet ==
    /\ \A n, p : /\ Quiet(<<TaskLine("task_start", n, p)>>)
                 /\ Quiet(<<TaskLine("task_donate", n, p)>>)
    /\ \A n : /\ Quiet(<<StoredLine(n)>>)
              /\ Quiet(<<[fn |-> "task_end", pid |-> n]>>)
              /\ Quiet(<<[fn |-> "task_check_exit", pid |-> n]>>)
              /\ Quiet(<<HaltLine(n)>>)
    /\ \A a, b, c : Quiet(<<SchedulerLine("active processes", a),
                            SchedulerLine("active threads", b),
                            SchedulerLine("active memory", c)>>)
<1>1. ASSUME NEW n, NEW p
      PROVE  /\ Quiet(<<TaskLine("task_start", n, p)>>)
             /\ Quiet(<<TaskLine("task_donate", n, p)>>)
    <2> DEFINE a == TaskLine("task_start", n, p)
               b == TaskLine("task_donate", n, p)
    <2>1. a.fn = "task_start" /\ b.fn = "task_donate"
        BY DEF TaskLine
    <2> HIDE DEF a, b
    <2>2. Line(a) /\ ~Begins(a) /\ Line(b) /\ ~Begins(b)
        BY <2>1, Zenon DEF Line, Begins
    <2>3. Quiet(<<a>>) /\ Quiet(<<b>>)
        BY <2>2, QuietOne
    <2> QED BY <2>3 DEF a, b
<1>2. ASSUME NEW n PROVE Quiet(<<StoredLine(n)>>)
    <2> DEFINE a == StoredLine(n)
    <2>1. a.fn = "node_process" /\ a.action = "already stored"
        BY DEF StoredLine, NodeLine
    <2> HIDE DEF a
    <2>2. Line(a) /\ ~Begins(a)
        BY <2>1, Zenon DEF Line, Begins, NodeActions
    <2>3. Quiet(<<a>>)
        BY <2>2, QuietOne
    <2> QED BY <2>3 DEF a
<1>3. ASSUME NEW n
      PROVE  /\ Quiet(<<[fn |-> "task_end", pid |-> n]>>)
             /\ Quiet(<<[fn |-> "task_check_exit", pid |-> n]>>)
             /\ Quiet(<<HaltLine(n)>>)
    <2> DEFINE a == [fn |-> "task_end", pid |-> n]
               b == [fn |-> "task_check_exit", pid |-> n]
               c == HaltLine(n)
    <2>1. a.fn = "task_end" /\ b.fn = "task_check_exit" /\ c.fn = "node_can_launch"
        BY DEF HaltLine
    <2> HIDE DEF a, b, c
    <2>2. Line(a) /\ ~Begins(a) /\ Line(b) /\ ~Begins(b) /\ Line(c) /\ ~Begins(c)
        BY <2>1, Zenon DEF Line, Begins
    <2>3. Quiet(<<a>>) /\ Quiet(<<b>>) /\ Quiet(<<c>>)
        BY <2>2, QuietOne
    <2> QED BY <2>3 DEF a, b, c
<1>4. ASSUME NEW x, NEW y, NEW z
      PROVE  Quiet(<<SchedulerLine("active processes", x),
                     SchedulerLine("active threads", y),
                     SchedulerLine("active memory", z)>>)
    <2> DEFINE a == SchedulerLine("active processes", x)
               b == SchedulerLine("active threads", y)
               c == SchedulerLine("active memory", z)
    <2>1. /\ a.fn = "scheduler" /\ b.fn = "scheduler" /\ c.fn = "scheduler"
          /\ a.action = "active processes"
          /\ b.action = "active threads"
          /\ c.action = "active memory"
        BY DEF SchedulerLine
    <2> HIDE DEF a, b, c
    <2>2. Line(a) /\ ~Begins(a) /\ Line(b) /\ ~Begins(b) /\ Line(c) /\ ~Begins(c)
        BY <2>1, Zenon DEF Line, Begins
    <2>3. Quiet(<<a>>) /\ Quiet(<<b>>) /\ Quiet(<<c>>)
        BY <2>2, QuietOne
    <2>4. Quiet(<<b, c>>)
        BY <2>3, QuietLines
    <2>5. Quiet(<<a, b, c>>)
        BY <2>3, <2>4, QuietLines
    <2> QED BY <2>5, Zenon DEF a, b, c
<1> QED BY <1>1, <1>2, <1>3, <1>4, Zenon

LEMMA RootLineQuiet ==
    ASSUME NEW action \in PhaseActions
    PROVE  Quiet(<<RootLine(action)>>)
<1> DEFINE a == RootLine(action)
<1>1. a.fn = "pi" /\ a.action \in PhaseActions
    BY DEF RootLine
<1> HIDE DEF a
<1>2. Line(a) /\ ~Begins(a)
    BY <1>1, Zenon DEF Line, Begins
<1>3. Quiet(<<a>>)
    BY <1>2, QuietOne
<1> QED BY <1>3 DEF a

LEMMA RootLinesQuiet == Quiet(ShowLines) /\ Quiet(FinishLines)
<1>1. \A action \in PhaseActions : Quiet(<<RootLine(action)>>)
    BY RootLineQuiet
<1>2. /\ Quiet(<<RootLine("display begin")>>)
      /\ Quiet(<<RootLine("display end")>>)
      /\ Quiet(<<RootLine("binary split solved")>>)
      /\ Quiet(<<RootLine("dividing")>>)
      /\ Quiet(<<RootLine("divided")>>)
    BY <1>1, Zenon DEF PhaseActions
<1>3. Quiet(ShowLines)
    BY <1>2, QuietLines, Zenon DEF ShowLines
<1>4. Quiet(<<RootLine("dividing"), RootLine("divided")>>)
    BY <1>2, QuietLines, Zenon
<1>5. Quiet(<<RootLine("binary split solved"), RootLine("dividing"), RootLine("divided")>>)
    BY <1>2, <1>4, QuietLines, Zenon
<1>6. Quiet(FinishLines)
    BY <1>3, <1>5, QuietLines, Zenon DEF FinishLines
<1> QED BY <1>3, <1>6

LEMMA ConfigLinesQuiet == Quiet(ConfigLines)
<1> DEFINE L(x) == [fn |-> "pi_tree", action |-> x[1], val |-> x[2]]
           R == {L(x) : x \in STRING \X Nat}
<1>1. Plain(R)
    <2>1. ASSUME NEW x \in STRING \X Nat PROVE Line(L(x)) /\ ~Begins(L(x))
        <3> DEFINE a == L(x)
        <3>1. a.fn = "pi_tree" /\ a.val \in Nat
            OBVIOUS
        <3> HIDE DEF a
        <3>2. Line(a) /\ ~Begins(a)
            BY <3>1, Zenon DEF Line, Begins
        <3> QED BY <3>2 DEF a
    <2> QED BY <2>1 DEF Plain
<1>2. ConfigLines = [j \in 1 .. Len(Config) |-> L(Config[j])] /\ Len(Config) \in Nat
    BY ConfigAssumption DEF ConfigLines
<1>3. \A j \in 1 .. Len(Config) : L(Config[j]) \in R
    BY ConfigAssumption
<1> HIDE DEF L
<1>4. ConfigLines \in Seq(R)
    <2> HIDE DEF R
    <2> QED BY <1>2, <1>3
<1> QED BY <1>1, <1>4 DEF Quiet

\* The lines of the nodes a walk has found stored, in the order it came to them.
LEMMA StoredLinesQuiet ==
    ASSUME P!TypeOK, NEW lines \in StoredLines
    PROVE  Quiet(lines)
<1> DEFINE found == {n \in Node : status[n] = "unmade" /\ status'[n] = "done"}
<1>1. PICK o \in SetToSeqs(found) : lines = [j \in DOMAIN o |-> StoredLine(o[j])]
    BY DEF StoredLines
<1>2. IsFiniteSet(found)
    <2>1. IsFiniteSet(Node)
        BY ProgramAssumption DEF S!NodeAssumption, S!IsFiniteSet, IsFiniteSet
    <2> QED BY <2>1, FS_Subset
<1> HIDE DEF found
<1>3. o \in [1 .. Cardinality(found) -> found] /\ Cardinality(found) \in Nat
    BY <1>1, <1>2, FS_CardinalityType DEF SetToSeqs
<1> DEFINE T == {StoredLine(n) : n \in found}
<1>4. Plain(T)
    <2>1. ASSUME NEW n \in found PROVE Line(StoredLine(n)) /\ ~Begins(StoredLine(n))
        <3> DEFINE a == StoredLine(n)
        <3>1. a.fn = "node_process" /\ a.action = "already stored"
            BY DEF StoredLine, NodeLine
        <3> HIDE DEF a
        <3>2. Line(a) /\ ~Begins(a)
            BY <3>1, Zenon DEF Line, Begins, NodeActions
        <3> QED BY <3>2 DEF a
    <2> QED BY <2>1 DEF Plain
<1>5. \A j \in 1 .. Cardinality(found) : StoredLine(o[j]) \in T
    BY <1>3
<1>6. lines = [j \in 1 .. Cardinality(found) |-> StoredLine(o[j])]
    BY <1>1, <1>3
<1>7. lines \in Seq(T)
    <2> HIDE DEF T
    <2> QED BY <1>3, <1>5, <1>6
<1> QED BY <1>4, <1>7 DEF Quiet

LEMMA HaltLinesQuiet == Quiet(HaltLines)
<1>1. Quiet(<< >>) /\ \A reason : Quiet(<<HaltLine(reason)>>)
    BY QuietLines, SchedulerLinesQuiet, Zenon
<1> QED BY <1>1 DEF HaltLines

\* What a run logs ahead of its walk.
LEMMA FirstLinesQuiet == \A b : \A lines \in FirstLines(b) : Quiet(lines)
<1>1. Quiet(ConfigLines) /\ Quiet(ShowLines) /\ Quiet(FinishLines)
    BY ConfigLinesQuiet, RootLinesQuiet
<1>2. Quiet(<<StoredLine(S!Root)>>)
    BY SchedulerLinesQuiet, Zenon
<1>3. Quiet(<<RootLine("pi already stored")>>)
    BY RootLineQuiet, Zenon DEF PhaseActions
<1>4. Quiet(ConfigLines \o <<StoredLine(S!Root)>> \o FinishLines)
    BY <1>1, <1>2, QuietLines, Zenon
<1>5. Quiet(ConfigLines \o <<RootLine("pi already stored")>> \o ShowLines)
    BY <1>1, <1>3, QuietLines, Zenon
<1> QED BY <1>1, <1>4, <1>5, Zenon DEF FirstLines

-----------------------------------------------------------------------------
(* What a worker logs.                                                     *)

\* A step of a worker on n after its first.
Later(n, s) ==
    \/ s.r = Silent
    \/ s.r.fn = "split_piece"
    \/ \E action \in NodeActions \ {"begin"} : s.r = NodeLine(n, action, 0)

LEMMA StepFields ==
    /\ \A op, r, held : Step(op, r, held).op = op /\ Step(op, r, held).r = r
    /\ \A r : Says(r).op = "log" /\ Says(r).r = r
    /\ \A op : Does(op).op = op /\ Does(op).r = Silent
BY DEF Step, Says, Does

\* A join logs that it joins, or takes the step without a word.
LEMMA JoiningSteps ==
    ASSUME NEW n
    PROVE  \/ Says(Joining(n)) = Says(NodeLine(n, "joining", 0))
           \/ Says(Joining(n)) = Does("log")
<1>1. CASE n \in Big
    <2>1. Joining(n) = Silent
        BY <1>1 DEF Joining
    <2> QED BY <2>1 DEF Says, Does
<1>2. CASE n \notin Big
    <2>1. Joining(n) = NodeLine(n, "joining", 0)
        BY <1>2 DEF Joining
    <2> QED BY <2>1
<1> QED BY <1>1, <1>2

LEMMA LaterSteps ==
    ASSUME NEW n
    PROVE  /\ \A op : Later(n, Does(op))
           /\ \A action : Later(n, Says(PhaseLine(n, action)))
           /\ \A op, action, held : Later(n, Step(op, PhaseLine(n, action), held))
           /\ \A op, term, held : Later(n, Step(op, Header(n, term), held))
           /\ \A action \in NodeActions \ {"begin"} :
                /\ Later(n, Says(NodeLine(n, action, 0)))
                /\ \A op, held : Later(n, Step(op, NodeLine(n, action, 0), held))
<1>1. \A action : PhaseLine(n, action).fn = "split_piece"
    BY DEF PhaseLine
<1>2. \A term : Header(n, term).fn = "split_piece"
    BY DEF Header, PhaseLine
<1>3. \A s : s.r.fn = "split_piece" => Later(n, s)
    BY DEF Later
<1>4. \A s : \A action \in NodeActions \ {"begin"} :
        s.r = NodeLine(n, action, 0) => Later(n, s)
    BY DEF Later
<1>5. \A op : Later(n, Does(op))
    BY StepFields DEF Later
<1> HIDE DEF Header
<1>6. \A r : r.fn = "split_piece" =>
        /\ Later(n, Says(r))
        /\ \A op, held : Later(n, Step(op, r, held))
    BY <1>3, StepFields
<1>7. \A action : /\ Later(n, Says(PhaseLine(n, action)))
                  /\ \A op, held : Later(n, Step(op, PhaseLine(n, action), held))
    BY <1>1, <1>6
<1>8. \A op, term, held : Later(n, Step(op, Header(n, term), held))
    BY <1>2, <1>6
<1>9. ASSUME NEW action \in NodeActions \ {"begin"}
      PROVE  /\ Later(n, Says(NodeLine(n, action, 0)))
             /\ \A op, held : Later(n, Step(op, NodeLine(n, action, 0), held))
    BY <1>4, StepFields
<1> QED BY <1>5, <1>7, <1>8, <1>9

\* A worker begins its node with its first line and never again, and ends with
\* its last step.
LEMMA ScriptFacts ==
    ASSUME NEW n \in Node
    PROVE  /\ Len(Scripts[n]) \in Nat \ {0}
           /\ Scripts[n][1].r = NodeLine(n, "begin", 0)
           /\ \A a \in 2 .. Len(Scripts[n]) : Later(n, Scripts[n][a])
           /\ Scripts[n][Len(Scripts[n])].op = "exit"
<1>1. CASE S!NodeIsLeaf(n)
    <2>1. PICK a, b, c, d, e :
            /\ a = Says(NodeLine(n, "begin", 0))
            /\ b = Says(PhaseLine(n, "locking"))
            /\ c = Says(PhaseLine(n, "locked"))
            /\ d = Step("commit", NodeLine(n, "piece", 0), TRUE)
            /\ e = Does("exit")
        OBVIOUS
    <2>2. Scripts[n] = <<a, b, c, d, e>>
        BY <1>1, <2>1 DEF Scripts, LeafScript
    <2>3. a.r = NodeLine(n, "begin", 0)
        BY <2>1, StepFields, Zenon
    <2>4. "piece" \in NodeActions \ {"begin"}
        BY DEF NodeActions
    <2>5. Later(n, b) /\ Later(n, c) /\ Later(n, d) /\ Later(n, e)
        BY <2>1, <2>4, LaterSteps, Zenon
    <2>6. e.op = "exit"
        BY <2>1, StepFields, Zenon
    <2>7. \A j \in 2 .. 5 : Later(n, Scripts[n][j])
        BY <2>2, <2>5
    <2> QED BY <2>2, <2>3, <2>6, <2>7
<1>2. CASE ~S!NodeIsLeaf(n)
    <2>1. PICK a, b, c, d, e, f, g, h, k, l, m, o :
            /\ a = Says(NodeLine(n, "begin", 0))
            /\ b = Says(Joining(n))
            /\ c = Says(PhaseLine(n, "locking"))
            /\ d = Says(PhaseLine(n, "locked"))
            /\ e = Step("log", PhaseLine(n, "loading"), TRUE)
            /\ f = Says(PhaseLine(n, "multiplying"))
            /\ g = Does("read")
            /\ h = Says(PhaseLine(n, "multiplying"))
            /\ k = Does("close")
            /\ l = Step("commit", Header(n, "R"), FALSE)
            /\ m = Step("delete", NodeLine(n, "joined", 0), FALSE)
            /\ o = Does("exit")
        OBVIOUS
    <2>2. Scripts[n] = <<a, b, c, d, e, f, g, h, k, l, m, o>>
        BY <1>2, <2>1 DEF Scripts, JoinScript
    <2>3. a.r = NodeLine(n, "begin", 0)
        BY <2>1, StepFields, Zenon
    <2>4. "joining" \in NodeActions \ {"begin"} /\ "joined" \in NodeActions \ {"begin"}
        BY DEF NodeActions
    <2>b. b = Says(NodeLine(n, "joining", 0)) \/ b = Does("log")
        BY <2>1, JoiningSteps
    <2>5. /\ Later(n, b) /\ Later(n, c) /\ Later(n, d) /\ Later(n, e) /\ Later(n, f)
          /\ Later(n, g) /\ Later(n, h) /\ Later(n, k) /\ Later(n, l) /\ Later(n, m)
          /\ Later(n, o)
        <3>1. Later(n, b)
            BY <2>b, <2>4, LaterSteps, Zenon
        <3> QED BY <2>1, <2>4, <3>1, LaterSteps, Zenon
    <2>6. o.op = "exit"
        BY <2>1, StepFields, Zenon
    <2>7. \A j \in 2 .. 12 : Later(n, Scripts[n][j])
        BY <2>2, <2>5
    <2> QED BY <2>2, <2>3, <2>6, <2>7
<1> QED BY <1>1, <1>2

-----------------------------------------------------------------------------
(* The inductive invariant.                                                *)

Begun(n) == status[n] \in {"processing", "done"}

\* A node the dashboard shows running has been begun by the program.
RunningBegun == \A n \in Node : KeyOf[n] \in Running(st.tree) => Begun(n)

\* A worker's first line is the one that will show its node running.
ScriptsFollowed ==
    /\ at \in [S!Slots -> Nat]
    /\ \A i \in S!Slots : phase[i] \in S!Live =>
        /\ at[i] \in 1 .. Len(Scripts[tasks[i]])
        /\ at[i] = 1 => KeyOf[tasks[i]] \notin Running(st.tree)

TrailInv ==
    /\ P!IInv
    /\ StateOK(st)
    /\ RunningBegun
    /\ ScriptsFollowed
    /\ Quiet(out)

LEMMA WorkerFacts ==
    ASSUME P!IInv
    PROVE  /\ tasks \in [S!Slots -> Node \cup {NoNode}]
           /\ phase \in [S!Slots -> P!Phases]
           /\ status \in [Node -> {"unmade", "open", "processing", "done"}]
           /\ \A i \in S!Slots : phase[i] \in S!Live =>
                /\ tasks[i] \in Node
                /\ Begun(tasks[i])
                /\ \A j \in S!Slots : phase[j] \in S!Live /\ j # i =>
                        KeyOf[tasks[j]] # KeyOf[tasks[i]]
<1>1. /\ tasks \in [S!Slots -> Node \cup {NoNode}]
      /\ phase \in [S!Slots -> P!Phases]
      /\ status \in [Node -> {"unmade", "open", "processing", "done"}]
    BY SameTree DEF P!IInv, P!TypeOK
<1>2. \A i \in S!Slots : phase[i] \in S!Live => phase[i] # "none"
    BY DEF S!Live
<1>3. ASSUME NEW i \in S!Slots, phase[i] \in S!Live
      PROVE  /\ i \in P!Active
             /\ tasks[i] \in Node
             /\ Begun(tasks[i])
    <2>1. i \in P!Active
        BY <1>2, <1>3, SameTree DEF P!IInv, P!TasksKnown
    <2>2. tasks[i] # NoNode
        BY <2>1 DEF P!Active
    <2>3. tasks[i] \in Node
        BY <1>1, <2>2
    <2>4. status[tasks[i]] = "processing"
        BY <2>1 DEF P!IInv, P!TasksSeparate
    <2> QED BY <2>1, <2>3, <2>4 DEF Begun
<1>4. ASSUME NEW i \in S!Slots, phase[i] \in S!Live, NEW j \in S!Slots, phase[j] \in S!Live, j # i
      PROVE  KeyOf[tasks[j]] # KeyOf[tasks[i]]
    <2>1. tasks[j] # tasks[i]
        BY <1>3, <1>4 DEF P!IInv, P!TasksSeparate
    <2> QED BY <1>3, <1>4, <2>1, KeyAssumption
<1> QED BY <1>1, <1>3, <1>4

\* A line of worker i adds to what runs the worker's own node, and that with its
\* first line only.
LEMMA WorkerFeeds ==
    ASSUME TrailInv, NEW i \in S!Slots, phase[i] \in S!Live, Now(i).r # Silent,
           NEW beside \in BOOLEAN, Feed(Record(i), beside)
    PROVE  /\ StateOK(st')
           /\ Running(st'.tree) \subseteq
                Running(st.tree) \cup (IF at[i] = 1 THEN {KeyOf[tasks[i]]} ELSE {})
<1> DEFINE n == tasks[i]
           r == Record(i)
<1>1. n \in Node /\ at[i] \in 1 .. Len(Scripts[n])
    BY WorkerFacts DEF TrailInv, ScriptsFollowed
<1>2. /\ Line(r)
      /\ Begins(r) => at[i] = 1 /\ r.key = KeyOf[n]
    <2>1. CASE at[i] = 1
        <3>1. Now(i).r = NodeLine(n, "begin", 0)
            BY <1>1, <2>1, ScriptFacts DEF Now
        <3>2. NodeLine(n, "begin", 0).action = "begin"
            BY DEF NodeLine
        <3>3. r = NodeLine(n, "begin", 0)
            BY <3>1, <3>2 DEF Record
        <3>4. r.fn = "node_process" /\ r.action = "begin" /\ r.key = KeyOf[n]
            BY <3>3 DEF NodeLine
        <3> HIDE DEF r
        <3> QED BY <2>1, <3>4, Zenon DEF Line, NodeActions
    <2>2. CASE at[i] # 1
        <3>1. at[i] \in 2 .. Len(Scripts[n])
            BY <1>1, <2>2
        <3>2. Later(n, Now(i))
            BY <1>1, <3>1, ScriptFacts DEF Now
        <3>3. CASE Now(i).r.fn = "split_piece"
            <4>1. r.fn = "split_piece"
                BY <3>3 DEF Record
            <4> HIDE DEF r
            <4> QED BY <4>1, Zenon DEF Line, Begins
        <3>4. CASE \E action \in NodeActions \ {"begin"} : Now(i).r = NodeLine(n, action, 0)
            <4>1. PICK action \in NodeActions \ {"begin"} : Now(i).r = NodeLine(n, action, 0)
                BY <3>4
            <4>2. r.fn = "node_process" /\ r.action = action
                BY <4>1 DEF Record, NodeLine
            <4> HIDE DEF r
            <4>3. r.action \in NodeActions /\ r.action # "begin"
                BY <4>2
            <4> QED BY <4>2, <4>3, Zenon DEF Line, Begins
        <3> QED BY <3>2, <3>3, <3>4 DEF Later
    <2> QED BY <2>1, <2>2
<1>3. Begins(r) => r.key \notin Running(st.tree)
    BY <1>2 DEF TrailInv, ScriptsFollowed
<1>4. StateOK(st)
    BY DEF TrailInv
<1>5. CASE st' = st
    BY <1>4, <1>5
<1>6. CASE \E ts : st' = FeedLine(st, r, ts)
    <2> HIDE DEF r, n
    <2>1. PICK ts : st' = FeedLine(st, r, ts)
        BY <1>6
    <2>2. Feeds(st, st', IF Begins(r) THEN {r.key} ELSE {})
        BY <1>2, <1>3, <1>4, <2>1, FeedLineFeeds
    <2> QED BY <1>2, <2>2 DEF Feeds, n
<1> QED BY <1>5, <1>6 DEF Feed

\* What a worker does of the program's.
LEMMA WorkerMoves ==
    ASSUME P!IInv, NEW i \in S!Slots, WorkerSteps(i)
    PROVE  /\ tasks' = tasks /\ status' = status /\ out' = out
           /\ at' = [at EXCEPT ![i] = @ + 1]
           /\ phase[i] \in S!Live
           /\ \A j \in S!Slots \ {i} : phase'[j] = phase[j]
           /\ phase'[i] \in S!Live => Now(i).op # "exit"
<1>1. tasks' = tasks /\ status' = status /\ \A j \in S!Slots \ {i} : phase'[j] = phase[j]
    <2>1. CASE UNCHANGED program
        BY <2>1 DEF program
    <2>2. CASE S!CloseSlot(i) \/ S!Commit(i) \/ S!DeleteLeft(i) \/ S!Exit(i)
        <3>1. UNCHANGED S!sched
            BY <2>2 DEF S!CloseSlot, S!Commit, S!DeleteLeft, S!Exit
        <3>2. \E x : phase' = [phase EXCEPT ![i] = x]
            BY <2>2 DEF S!CloseSlot, S!Commit, S!DeleteLeft, S!Exit
        <3>3. phase \in [S!Slots -> P!Phases]
            BY WorkerFacts
        <3> QED BY <3>1, <3>2, <3>3 DEF S!sched
    <2> QED BY <2>1, <2>2 DEF WorkerSteps
<1>2. phase[i] \in S!Live /\ out' = out /\ at' = [at EXCEPT ![i] = @ + 1]
    BY DEF WorkerSteps, Alive
<1>3. ASSUME Now(i).op = "exit" PROVE phase'[i] \notin S!Live
    <2>1. S!Exit(i)
        BY <1>3 DEF WorkerSteps
    <2>2. phase'[i] = "exited"
        BY <2>1, WorkerFacts DEF S!Exit
    <2> QED BY <2>2 DEF S!Live
<1> QED BY <1>1, <1>2, <1>3

LEMMA WorkerTrail ==
    ASSUME TrailInv, P!IInv', NEW i \in S!Slots, WorkerSteps(i)
    PROVE  TrailInv'
<1>1. /\ tasks' = tasks /\ status' = status /\ out' = out
      /\ at' = [at EXCEPT ![i] = @ + 1]
      /\ phase[i] \in S!Live
      /\ \A j \in S!Slots \ {i} : phase'[j] = phase[j]
      /\ phase'[i] \in S!Live => Now(i).op # "exit"
    BY WorkerMoves DEF TrailInv
<1>2. /\ StateOK(st')
      /\ Running(st'.tree) \subseteq
            Running(st.tree) \cup (IF at[i] = 1 THEN {KeyOf[tasks[i]]} ELSE {})
    <2>1. CASE Now(i).r = Silent
        BY <2>1 DEF WorkerSteps, TrailInv
    <2>2. CASE Now(i).r # Silent
        <3>1. PICK beside \in BOOLEAN : Feed(Record(i), beside)
            BY <2>2, Zenon DEF WorkerSteps
        <3> QED BY <1>1, <2>2, <3>1, WorkerFeeds
    <2> QED BY <2>1, <2>2
<1>3. RunningBegun'
    <2> SUFFICES ASSUME NEW n \in Node, KeyOf[n] \in Running(st'.tree)
                 PROVE  Begun(n)
        BY <1>1 DEF RunningBegun, Begun
    <2>1. CASE KeyOf[n] \in Running(st.tree)
        BY <2>1 DEF TrailInv, RunningBegun
    <2>2. CASE KeyOf[n] = KeyOf[tasks[i]]
        <3>1. tasks[i] \in Node /\ Begun(tasks[i])
            BY <1>1, WorkerFacts DEF TrailInv
        <3> QED BY <2>2, <3>1, KeyAssumption
    <2> QED BY <1>2, <2>1, <2>2
<1>4. ScriptsFollowed'
    <2>1. at' \in [S!Slots -> Nat]
        BY <1>1 DEF TrailInv, ScriptsFollowed
    <2>2. ASSUME NEW j \in S!Slots, phase'[j] \in S!Live
          PROVE  /\ at'[j] \in 1 .. Len(Scripts[tasks[j]])
                 /\ at'[j] = 1 => KeyOf[tasks[j]] \notin Running(st'.tree)
        <3>1. CASE j = i
            <4>1. /\ tasks[i] \in Node
                  /\ at[i] \in 1 .. Len(Scripts[tasks[i]])
                BY <1>1, WorkerFacts DEF TrailInv, ScriptsFollowed
            <4>2. Scripts[tasks[i]][at[i]].op # "exit"
                BY <1>1, <2>2, <3>1 DEF Now
            <4>3. Len(Scripts[tasks[i]]) \in Nat /\ at[i] # Len(Scripts[tasks[i]])
                BY <4>1, <4>2, ScriptFacts
            <4>4. at'[i] = at[i] + 1
                BY <1>1 DEF TrailInv, ScriptsFollowed
            <4> QED BY <1>1, <3>1, <4>1, <4>3, <4>4
        <3>2. CASE j # i
            <4>1. phase[j] \in S!Live /\ at'[j] = at[j]
                BY <1>1, <2>2, <3>2 DEF TrailInv, ScriptsFollowed
            <4>2. KeyOf[tasks[j]] # KeyOf[tasks[i]]
                BY <1>1, <3>2, <4>1, WorkerFacts DEF TrailInv
            <4> QED BY <1>2, <4>1, <4>2 DEF TrailInv, ScriptsFollowed
        <3> QED BY <3>1, <3>2
    <2> QED BY <1>1, <2>1, <2>2 DEF ScriptsFollowed
<1> QED BY <1>1, <1>2, <1>3, <1>4 DEF TrailInv

\* A step of the scheduler writes to no row, and starts a worker on a node that
\* has not begun, if it starts any.
LEMMA SchedulerTrail ==
    ASSUME TrailInv, P!IInv', st' = st, Quiet(out'), at' \in [S!Slots -> Nat],
           \A n \in Node : Begun(n) => Begun(n)',
           \A i \in S!Slots : phase'[i] \in S!Live =>
              \/ phase[i] \in S!Live /\ tasks'[i] = tasks[i] /\ at'[i] = at[i]
              \/ tasks'[i] \in Node /\ ~Begun(tasks'[i]) /\ at'[i] = 1
    PROVE  TrailInv'
<1>1. RunningBegun'
    BY DEF TrailInv, RunningBegun
<1>2. ScriptsFollowed'
    <2>1. ASSUME NEW i \in S!Slots, phase'[i] \in S!Live
          PROVE  /\ at'[i] \in 1 .. Len(Scripts[tasks'[i]])
                 /\ at'[i] = 1 => KeyOf[tasks'[i]] \notin Running(st.tree)
        <3>1. CASE phase[i] \in S!Live /\ tasks'[i] = tasks[i] /\ at'[i] = at[i]
            BY <3>1 DEF TrailInv, ScriptsFollowed
        <3>2. CASE tasks'[i] \in Node /\ ~Begun(tasks'[i]) /\ at'[i] = 1
            <4>1. Len(Scripts[tasks'[i]]) \in Nat \ {0}
                BY <3>2, ScriptFacts
            <4> QED BY <3>2, <4>1 DEF TrailInv, RunningBegun
        <3> QED BY <2>1, <3>1, <3>2
    <2> QED BY <2>1 DEF ScriptsFollowed
<1>3. StateOK(st')
    BY DEF TrailInv
<1> QED BY <1>1, <1>2, <1>3 DEF TrailInv

\* The walk passes over what has begun, and takes what has not.
LEMMA WalkFacts ==
    ASSUME P!IInv
    PROVE  /\ \A n \in Node : Begun(n) => S!Walked[n] = status[n]
           /\ \A n \in S!Taken : n \in Node /\ ~Begun(n)
<1>1. \A n \in Node : Begun(n) => S!Grown(n) = status[n]
    BY DEF Begun, S!Grown
<1>2. \A n \in Node : Begun(n) => S!Walked[n] = status[n]
    BY <1>1 DEF S!Walked
<1>3. ASSUME NEW n \in S!Taken PROVE n \in Node /\ ~Begun(n)
    <2>1. n \in Node /\ S!Reached(n)
        BY DEF S!Taken, S!Visited
    <2>2. n \in S!Path(n)
        <3>1. n \in Seq({0, 1})
            BY <2>1, ProgramAssumption DEF S!NodeAssumption
        <3>2. Len(n) \in 0 .. Len(n) /\ SubSeq(n, 1, Len(n)) = n
            BY <3>1
        <3>3. PICK k : k = Len(n)
            OBVIOUS
        <3>4. k \in 0 .. Len(n) /\ n = SubSeq(n, 1, k)
            BY <3>2, <3>3
        <3> QED BY <3>4, Zenon DEF S!Path
    <2>3. S!Grown(n) = "open"
        BY <2>1, <2>2 DEF S!Reached
    <2>4. ~Begun(n)
        BY <1>1, <2>1, <2>3 DEF Begun
    <2> QED BY <2>1, <2>4
<1> QED BY <1>2, <1>3

LEMMA LaunchTrail ==
    ASSUME TrailInv, P!IInv', Launch
    PROVE  TrailInv'
<1> DEFINE i == S!FreeIndex
<1>1. i \in S!Slots
    BY P!FreeIndexType, ProgramAssumption, SameTree, SameBooks
       DEF Launch, S!Launch, S!NodeAssumption,
           S!BinaryAssumption, S!BudgetAssumption, S!CostAssumption, S!CacheAssumption,
           S!Root, P!Root, S!IsFiniteSet, P!IsFiniteSet
<1>2. PICK n \in S!Taken : S!TaskStart(n, i)
    BY DEF Launch, S!Launch
<1> HIDE DEF i
<1>3. /\ tasks \in [S!Slots -> Node \cup {NoNode}]
      /\ phase \in [S!Slots -> P!Phases]
      /\ status \in [Node -> {"unmade", "open", "processing", "done"}]
    BY WorkerFacts DEF TrailInv
<1>4. /\ tasks' = [tasks EXCEPT ![i] = n]
      /\ phase' = [phase EXCEPT ![i] = "run"]
      /\ status' = [S!Walked EXCEPT ![n] = "processing"]
    BY <1>2 DEF S!TaskStart
<1>5. n \in Node /\ ~Begun(n)
    BY WalkFacts DEF TrailInv
<1>6. \A m \in Node : Begun(m) => Begun(m)'
    BY <1>4, <1>5, WalkFacts DEF TrailInv, Begun
<1>7. at' = [at EXCEPT ![i] = 1]
    BY DEF Launch, i
<1>8. at' \in [S!Slots -> Nat]
    BY <1>1, <1>7 DEF TrailInv, ScriptsFollowed
<1>9. Quiet(out')
    <2>1. PICK lines \in StoredLines :
            out' = lines \o <<TaskLine("task_start", tasks'[i], plan'[tasks'[i]])>>
        BY DEF Launch, i
    <2>2. Quiet(lines)
        BY StoredLinesQuiet DEF TrailInv, P!IInv
    <2>3. Quiet(<<TaskLine("task_start", tasks'[i], plan'[tasks'[i]])>>)
        BY SchedulerLinesQuiet, Zenon
    <2> QED BY <2>1, <2>2, <2>3, QuietLines, Zenon
<1>10. \A j \in S!Slots : phase'[j] \in S!Live =>
            \/ phase[j] \in S!Live /\ tasks'[j] = tasks[j] /\ at'[j] = at[j]
            \/ tasks'[j] \in Node /\ ~Begun(tasks'[j]) /\ at'[j] = 1
    <2>1. tasks'[i] = n /\ at'[i] = 1
        BY <1>1, <1>3, <1>4, <1>7 DEF TrailInv, ScriptsFollowed
    <2>2. \A j \in S!Slots \ {i} : phase'[j] = phase[j] /\ tasks'[j] = tasks[j] /\ at'[j] = at[j]
        BY <1>3, <1>4, <1>7 DEF TrailInv, ScriptsFollowed
    <2> QED BY <1>5, <2>1, <2>2
<1>11. st' = st
    BY DEF Launch
<1> QED BY <1>6, <1>8, <1>9, <1>10, <1>11, SchedulerTrail

\* A step after which no worker is on another node, or further, than before.
LEMMA SettledTrail ==
    ASSUME TrailInv, P!IInv', st' = st, Quiet(out'), UNCHANGED at,
           \A n \in Node : Begun(n) => Begun(n)',
           \A i \in S!Slots : phase'[i] \in S!Live =>
                phase[i] \in S!Live /\ tasks'[i] = tasks[i]
    PROVE  TrailInv'
BY SchedulerTrail DEF TrailInv, ScriptsFollowed

LEMMA EndLaunchTrail ==
    ASSUME TrailInv, P!IInv', EndLaunch
    PROVE  TrailInv'
<1>1. /\ UNCHANGED <<tasks, at, st, phase>>
      /\ status' = status \/ status' = S!Walked
    BY DEF EndLaunch, S!EndLaunch, S!workers, workers
<1>2. \A m \in Node : Begun(m) => Begun(m)'
    BY <1>1, WalkFacts DEF TrailInv, Begun
<1>3. Quiet(out')
    <2>1. PICK lines \in StoredLines : out' = lines \o HaltLines
        BY DEF EndLaunch
    <2>2. Quiet(lines)
        BY StoredLinesQuiet DEF TrailInv, P!IInv
    <2> QED BY <2>1, <2>2, HaltLinesQuiet, QuietLines, Zenon
<1> QED BY <1>1, <1>2, <1>3, SettledTrail

LEMMA DonateTrail ==
    ASSUME TrailInv, P!IInv', Donate
    PROVE  TrailInv'
<1>1. UNCHANGED <<tasks, at, st, phase, status>>
    <2>1. UNCHANGED <<workers, clock, lost, st>>
        BY Zenon DEF Donate
    <2>2. S!DonateLoad \/ S!DonateRefused \/ S!DonateAccepted \/ S!DonateEnd
        BY Zenon DEF Donate
    <2>3. UNCHANGED <<tasks, phase, status>>
        BY <2>2 DEF S!DonateLoad, S!DonateRefused, S!DonateAccepted, S!DonateEnd, S!workers
    <2> QED BY <2>1, <2>3 DEF workers
<1>2. Quiet(out')
    <2>1. CASE UNCHANGED out
        BY <2>1 DEF TrailInv
    <2>2. CASE out' = <<TaskLine("task_donate", tasks[di], plan'[tasks[di]])>>
        BY <2>2, SchedulerLinesQuiet, Zenon
    <2>3. CASE out' = <<SchedulerLine("active processes", Cardinality(S!Active)),
                        SchedulerLine("active threads", total_threads),
                        SchedulerLine("active memory", total_mem_cost)>>
        BY <2>3, SchedulerLinesQuiet, Zenon
    <2> QED BY <2>1, <2>2, <2>3, Zenon DEF Donate
<1>3. \A n \in Node : Begun(n) => Begun(n)'
    BY <1>1 DEF Begun
<1> QED BY <1>1, <1>2, <1>3, SettledTrail

LEMMA ReapTrail ==
    ASSUME TrailInv, P!IInv', NEW i \in S!Slots, Reap(i)
    PROVE  TrailInv'
<1>1. CASE S!TaskEnd(i) /\ out' = <<[fn |-> "task_end", pid |-> tasks[i]]>> \o
                                    (IF tasks[i] = S!Root THEN FinishLines ELSE << >>)
                        /\ at' = [at EXCEPT ![i] = 0]
    <2>1. /\ tasks \in [S!Slots -> Node \cup {NoNode}]
          /\ phase \in [S!Slots -> P!Phases]
          /\ status \in [Node -> {"unmade", "open", "processing", "done"}]
        BY WorkerFacts DEF TrailInv
    <2>2. /\ tasks' = [tasks EXCEPT ![i] = NoNode]
          /\ phase' = [phase EXCEPT ![i] = "none"]
          /\ status' = [status EXCEPT ![tasks[i]] = "done"]
        BY <1>1 DEF S!TaskEnd
    <2>3. Quiet(out')
        <3>1. Quiet(<<[fn |-> "task_end", pid |-> tasks[i]]>>)
            BY SchedulerLinesQuiet, Zenon
        <3>2. Quiet(IF tasks[i] = S!Root THEN FinishLines ELSE << >>)
            BY RootLinesQuiet, QuietLines, Zenon
        <3> QED BY <1>1, <3>1, <3>2, QuietLines, Zenon
    <2>4. \A n \in Node : Begun(n) => Begun(n)'
        BY <2>1, <2>2 DEF Begun
    <2>5. at' \in [S!Slots -> Nat]
        BY <1>1 DEF TrailInv, ScriptsFollowed
    <2>6. "none" \notin S!Live
        BY DEF S!Live
    <2>7. \A j \in S!Slots : phase'[j] \in S!Live =>
                phase[j] \in S!Live /\ tasks'[j] = tasks[j] /\ at'[j] = at[j]
        BY <1>1, <2>1, <2>2, <2>6 DEF TrailInv, ScriptsFollowed
    <2>8. st' = st
        BY DEF Reap
    <2> QED BY <2>3, <2>4, <2>5, <2>7, <2>8, SchedulerTrail
<1>2. CASE S!TaskCheckExit(i) /\ out' = <<[fn |-> "task_check_exit", pid |-> tasks[i]]>>
                              /\ UNCHANGED workers
    <2>1. UNCHANGED <<tasks, at, st, phase, status>>
        BY <1>2 DEF Reap, S!TaskCheckExit, S!workers, workers
    <2>2. Quiet(out')
        BY <1>2, SchedulerLinesQuiet, Zenon
    <2>3. \A n \in Node : Begun(n) => Begun(n)'
        BY <2>1 DEF Begun
    <2> QED BY <2>1, <2>2, <2>3, SettledTrail
<1> QED BY <1>1, <1>2 DEF Reap

LEMMA DiesTrail ==
    ASSUME TrailInv, P!IInv', Dies
    PROVE  TrailInv'
<1>1. UNCHANGED <<tasks, at, st, status>>
    BY DEF Dies, S!WorkerDies, S!Crash, S!sched, workers
<1>2. Quiet(out')
    BY QuietLines DEF Dies, TrailInv
<1>3. phase \in [S!Slots -> P!Phases] /\ "failed" \notin S!Live
    BY WorkerFacts DEF TrailInv, S!Live
<1>4. \A i \in S!Slots : phase'[i] \in S!Live => phase[i] \in S!Live
    <2>1. CASE \E j \in S!Slots : S!WorkerDies(j)
        BY <1>3, <2>1 DEF S!WorkerDies
    <2>2. CASE S!Crash
        BY <1>3, <2>2 DEF S!Crash
    <2> QED BY <2>1, <2>2 DEF Dies
<1>5. \A n \in Node : Begun(n) => Begun(n)'
    BY <1>1 DEF Begun
<1> QED BY <1>1, <1>2, <1>4, <1>5, SettledTrail

\* Nothing runs on a screen that has just been cleared.
LEMMA FreshTrail ==
    ASSUME NEW config
    PROVE  StateOK(FreshState(config)) /\ Running(FreshState(config).tree) = {}
<1> DEFINE s == FreshState(config)
<1>1. /\ {"tree", "index_max", "chunk_span"} \subseteq DOMAIN s
      /\ s.index_max = 0 /\ s.chunk_span = 0 /\ s.tree = NoTree
    BY DEF FreshState
<1> HIDE DEF s
<1>2. IsTree(NoTree) /\ DOMAIN NoTree = {}
    BY DEF IsTree, NoTree
<1>3. TrailOf(NoTree) /\ Running(NoTree) = {}
    BY <1>2, EmptyTrail
<1> QED BY <1>1, <1>3 DEF StateOK, s

LEMMA RestartTrail ==
    ASSUME P!IInv', Restart
    PROVE  TrailInv'
<1>1. st' = FreshState(st.config) /\ at' = [i \in S!Slots |-> 0]
    BY DEF Restart, NewWorkers
<1>2. phase' = [i \in S!Slots |-> "none"]
    BY DEF Restart, S!Restart
<1>3. StateOK(st') /\ Running(st'.tree) = {}
    BY <1>1, FreshTrail
<1>4. Quiet(out')
    BY FirstLinesQuiet DEF Restart
<1>5. ScriptsFollowed'
    BY <1>1, <1>2 DEF ScriptsFollowed, S!Live
<1>6. RunningBegun'
    BY <1>3 DEF RunningBegun
<1> QED BY <1>3, <1>4, <1>5, <1>6 DEF TrailInv

LEMMA InitTrail == Init => TrailInv
<1> SUFFICES ASSUME Init PROVE TrailInv
    OBVIOUS
<1>1. st = FreshState(<< >>) /\ at = [i \in S!Slots |-> 0]
    BY DEF Init, NewWorkers
<1>2. phase = [i \in S!Slots |-> "none"]
    BY DEF Init, S!Init
<1>3. StateOK(st) /\ Running(st.tree) = {}
    BY <1>1, FreshTrail
<1>4. Quiet(out)
    BY FirstLinesQuiet DEF Init
<1>5. ScriptsFollowed
    BY <1>1, <1>2 DEF ScriptsFollowed, S!Live
<1>6. RunningBegun
    BY <1>3 DEF RunningBegun
<1>7. P!IInv
    BY ProgramInvariance
<1> QED BY <1>3, <1>4, <1>5, <1>6, <1>7 DEF TrailInv

LEMMA SchedulerLogsTrail ==
    ASSUME TrailInv, P!IInv', SchedulerLogs
    PROVE  TrailInv'
<1>1. Line(Head(out)) /\ ~Begins(Head(out)) /\ Quiet(Tail(out))
    BY QuietLines DEF SchedulerLogs, TrailInv
<1>2. UNCHANGED <<tasks, at, phase, status>> /\ out' = Tail(out)
    BY DEF SchedulerLogs, program, workers
<1>3. StateOK(st') /\ Running(st'.tree) \subseteq Running(st.tree)
    <2>1. CASE st' = st
        BY <2>1 DEF TrailInv
    <2>2. CASE \E ts : st' = FeedLine(st, Head(out), ts)
        <3>1. PICK ts : st' = FeedLine(st, Head(out), ts)
            BY <2>2
        <3>2. Feeds(st, st', {})
            BY <1>1, <3>1, FeedLineFeeds DEF TrailInv
        <3> QED BY <3>2 DEF Feeds
    <2> QED BY <2>1, <2>2 DEF SchedulerLogs, Feed
<1>4. RunningBegun'
    BY <1>2, <1>3 DEF TrailInv, RunningBegun, Begun
<1>5. ScriptsFollowed'
    BY <1>2, <1>3 DEF TrailInv, ScriptsFollowed
<1> QED BY <1>1, <1>2, <1>3, <1>4, <1>5 DEF TrailInv

LEMMA NextTrail == TrailInv /\ [Next]_vars => TrailInv'
<1> SUFFICES ASSUME TrailInv, [Next]_vars PROVE TrailInv'
    OBVIOUS
<1>1. P!IInv'
    BY ProgramInvariance DEF TrailInv
<1>2. CASE UNCHANGED <<program, out, workers, st>>
    <2>1. UNCHANGED <<tasks, at, st, phase, status, out>>
        BY <1>2 DEF program, workers
    <2>2. Quiet(out')
        BY <2>1 DEF TrailInv
    <2>3. \A n \in Node : Begun(n) => Begun(n)'
        BY <2>1 DEF Begun
    <2> QED BY <1>1, <2>1, <2>2, <2>3, SettledTrail
<1>3. CASE SchedulerLogs
    BY <1>1, <1>3, SchedulerLogsTrail
<1>4. CASE Launch
    BY <1>1, <1>4, LaunchTrail
<1>5. CASE EndLaunch
    BY <1>1, <1>5, EndLaunchTrail
<1>6. CASE Donate
    BY <1>1, <1>6, DonateTrail
<1>7. ASSUME NEW i \in S!Slots, WorkerSteps(i) PROVE TrailInv'
    BY <1>1, <1>7, WorkerTrail
<1>8. ASSUME NEW i \in S!Slots, Reap(i) PROVE TrailInv'
    BY <1>1, <1>8, ReapTrail
<1>9. CASE Dies
    BY <1>1, <1>9, DiesTrail
<1>10. CASE Restart
    BY <1>1, <1>10, RestartTrail
<1>11. CASE Tick \/ AllShown \/ UNCHANGED vars
    BY <1>2, <1>11 DEF Tick, AllShown, vars
<1> QED BY <1>3, <1>4, <1>5, <1>6, <1>7, <1>8, <1>9, <1>10, <1>11 DEF Next

\* On every node the count of what runs at or below it is exact, whatever order
\* the records come in and whichever are lost (mark_node_done and mark_active,
\* dashboard.py:369-400).
THEOREM TrailsExact == Spec => []TrailExact
<1>1. TrailInv => TrailExact
    <2> SUFFICES ASSUME TrailInv, NEW k \in DOMAIN st.tree
                 PROVE  st.tree[k].active_count =
                          Cardinality({j \in DOMAIN st.tree :
                                          st.tree[j].in_progress /\ Within(j, k)})
        BY DEF TrailExact, Shown
    <2>1. {j \in DOMAIN st.tree : st.tree[j].in_progress /\ Within(j, k)}
            = RunningIn(st.tree, k)
        BY DEF RunningIn, Running
    <2> QED BY <2>1 DEF TrailInv, StateOK, TrailOf
<1> QED BY <1>1, InitTrail, NextTrail, PTL DEF Spec

-----------------------------------------------------------------------------
(* What a record does to the threads that are shown lent.                  *)

\* A node or an entry with a grant booked and a grant in force.
Lent(x) == /\ {"threads", "threads_live"} \subseteq DOMAIN x
           /\ x.threads \in Nat
           /\ x.threads_live \in Nat

Loans(x) == <<x.threads, x.threads_live>>

NoLoans == <<0, 0>>

\* A State in which every entry is of a node, and on that node if on any.
LendingOK(s) ==
    /\ {"tree", "active"} \subseteq DOMAIN s
    /\ \A k \in DOMAIN s.tree : Lent(s.tree[k])
    /\ \A p \in DOMAIN s.active :
        /\ p \in Node
        /\ Lent(s.active[p])
        /\ "node" \in DOMAIN s.active[p]
        /\ s.active[p].node # NoKey =>
            s.active[p].node = KeyOf[p] /\ KeyOf[p] \in DOMAIN s.tree

\* Nodes keep their grants or are rid of them.
Freed(t, u) ==
    /\ DOMAIN u = DOMAIN t
    /\ \A k \in DOMAIN t :
        /\ Lent(u[k])
        /\ Loans(u[k]) \in {Loans(t[k]), NoLoans}

\* A node has the grants it had, none, or those of its worker's entry.
NodesFollow(s, u) ==
    \A k \in DOMAIN u.tree :
        \/ Loans(u.tree[k]) = NoLoans
        \/ k \in DOMAIN s.tree /\ Loans(u.tree[k]) = Loans(s.tree[k])
        \/ \E p \in DOMAIN u.active :
            k = KeyOf[p] /\ Loans(u.tree[k]) = Loans(u.active[p]) /\ u.active[p].threads # 0

\* Entries but those of pids come, stay and go as they were.
EntriesKept(s, u, pids) ==
    \A p : p \notin pids =>
        /\ p \in DOMAIN u.active <=> p \in DOMAIN s.active
        /\ p \in DOMAIN u.active => Loans(u.active[p]) = Loans(s.active[p])

Lends(s, u, pids) == LendingOK(u) /\ NodesFollow(s, u) /\ EntriesKept(s, u, pids)

\* Only the nodes change, if anything does.
Keeps(s, u) ==
    /\ {"tree", "active"} \subseteq DOMAIN u
    /\ u.active = s.active
    /\ Freed(s.tree, u.tree)

LEMMA FreedTransitive ==
    ASSUME NEW t, NEW u, NEW v, Freed(t, u), Freed(u, v)
    PROVE  Freed(t, v)
BY DEF Freed

LEMMA FreedSelf ==
    ASSUME NEW t, \A k \in DOMAIN t : Lent(t[k])
    PROVE  Freed(t, t)
BY DEF Freed

LEMMA KeepsLends ==
    ASSUME NEW s, LendingOK(s), NEW u, Keeps(s, u)
    PROVE  Lends(s, u, {})
<1>1. LendingOK(u)
    BY DEF LendingOK, Keeps, Freed
<1>2. NodesFollow(s, u)
    BY DEF NodesFollow, Keeps, Freed
<1>3. EntriesKept(s, u, {})
    BY DEF EntriesKept, Keeps
<1> QED BY <1>1, <1>2, <1>3 DEF Lends

\* A change of other fields, before or after.
LEMMA LendsAfterKeeps ==
    ASSUME NEW s, NEW v, NEW u, NEW pids, Keeps(s, v), Lends(v, u, pids)
    PROVE  Lends(s, u, pids)
<1>1. NodesFollow(s, u)
    BY DEF NodesFollow, Keeps, Lends, Freed
<1>2. EntriesKept(s, u, pids)
    BY DEF EntriesKept, Keeps, Lends
<1> QED BY <1>1, <1>2 DEF Lends

LEMMA KeepsAfterLends ==
    ASSUME NEW s, NEW v, NEW u, NEW pids, Lends(s, v, pids), Keeps(v, u)
    PROVE  Lends(s, u, pids)
<1>1. LendingOK(u)
    BY KeepsLends DEF Lends
<1>2. NodesFollow(s, u)
    BY DEF NodesFollow, Keeps, Lends, Freed
<1>3. EntriesKept(s, u, pids)
    BY DEF EntriesKept, Keeps, Lends
<1> QED BY <1>1, <1>2, <1>3 DEF Lends

LEMMA MarksLend ==
    ASSUME NEW t, \A k \in DOMAIN t : Lent(t[k]), NEW key, NEW x
    PROVE  /\ Freed(t, MarkLeavesDone(t, key, x))
           /\ Freed(t, MarkUnitsDone(t, key, x))
           /\ Freed(t, MarkActive(t, key, x))
           /\ Freed(t, MarkNodeDone(t, key))
<1>1. \A n : Lent(n) =>
        /\ Lent([n EXCEPT !.leaves_done = AtMost(@ + x, n.leaves_total)])
        /\ Loans([n EXCEPT !.leaves_done = AtMost(@ + x, n.leaves_total)]) = Loans(n)
        /\ Lent([n EXCEPT !.units_done = AtMost(@ + x, 2 * n.leaves_total - 1)])
        /\ Loans([n EXCEPT !.units_done = AtMost(@ + x, 2 * n.leaves_total - 1)]) = Loans(n)
        /\ Lent(Finished(n)) /\ Loans(Finished(n)) = NoLoans
    BY DEF Lent, Loans, Finished, NoLoans
<1>2. \A n, y : Lent(n) =>
        /\ Lent([n EXCEPT !.active_count = @ + y])
        /\ Loans([n EXCEPT !.active_count = @ + y]) = Loans(n)
    BY DEF Lent, Loans
<1>3. Freed(t, MarkLeavesDone(t, key, x)) /\ Freed(t, MarkUnitsDone(t, key, x))
    BY <1>1 DEF Freed, MarkLeavesDone, MarkUnitsDone, Upward
<1>4. \A v, y : (\A k \in DOMAIN v : Lent(v[k])) => Freed(v, MarkActive(v, key, y))
    BY <1>2 DEF Freed, MarkActive, Upward
<1>5. Freed(t, MarkNodeDone(t, key))
    <2> DEFINE v == [t EXCEPT ![key] = Finished(@)]
    <2>1. Freed(t, v)
        BY <1>1 DEF Freed
    <2>2. MarkNodeDone(t, key) = v \/ MarkNodeDone(t, key) = MarkActive(v, key, -1)
        BY DEF MarkNodeDone
    <2> HIDE DEF v
    <2>3. Freed(v, MarkActive(v, key, -1))
        BY <1>4, <2>1 DEF Freed
    <2> QED BY <2>1, <2>2, <2>3, FreedTransitive
<1> QED BY <1>3, <1>4, <1>5

LEMMA OthersLend ==
    ASSUME NEW s, LendingOK(s), NEW u, {"tree", "active"} \subseteq DOMAIN u,
           u.active = s.active, u.tree = s.tree
    PROVE  Keeps(s, u)
BY FreedSelf DEF Keeps, LendingOK

LEMMA KeepsTransitive ==
    ASSUME NEW s, NEW v, NEW u, Keeps(s, v), Keeps(v, u)
    PROVE  Keeps(s, u)
BY FreedTransitive DEF Keeps

LEMMA TreeLends ==
    ASSUME NEW s, LendingOK(s), NEW t, Freed(s.tree, t)
    PROVE  Keeps(s, [s EXCEPT !.tree = t])
BY DEF Keeps, LendingOK

LEMMA LendsMore ==
    ASSUME NEW s, NEW u, NEW pids, NEW more, Lends(s, u, pids), pids \subseteq more
    PROVE  Lends(s, u, more)
BY DEF Lends, EntriesKept

\* An entry is written, or dropped.
EntryFits(s, pid, entry) ==
    /\ pid \in Node
    /\ Lent(entry)
    /\ "node" \in DOMAIN entry
    /\ entry.node # NoKey => entry.node = KeyOf[pid] /\ KeyOf[pid] \in DOMAIN s.tree

EntryWritten(s, u, pid, entry) ==
    /\ Lends(s, u, {pid})
    /\ u.tree = s.tree
    /\ DOMAIN u = DOMAIN s
    /\ DOMAIN u.active = DOMAIN s.active \cup {pid}
    /\ u.active[pid] = entry

LEMMA EntrySet ==
    ASSUME NEW s, LendingOK(s), NEW pid, NEW entry, EntryFits(s, pid, entry)
    PROVE  EntryWritten(s, SetEntry(s, pid, entry), pid, entry)
<1> DEFINE u == SetEntry(s, pid, entry)
<1>1. /\ DOMAIN u = DOMAIN s
      /\ u.tree = s.tree
      /\ u.active = [p \in DOMAIN s.active \cup {pid} |->
                        IF p = pid THEN entry ELSE s.active[p]]
    BY DEF SetEntry, LendingOK
<1> HIDE DEF u
<1>2. LendingOK(u)
    BY <1>1 DEF LendingOK, EntryFits
<1>3. NodesFollow(s, u) /\ EntriesKept(s, u, {pid})
    BY <1>1 DEF NodesFollow, EntriesKept
<1>4. DOMAIN u.active = DOMAIN s.active \cup {pid} /\ u.active[pid] = entry
    BY <1>1
<1> QED BY <1>1, <1>2, <1>3, <1>4 DEF Lends, EntryWritten, u

LEMMA EntryDropped ==
    ASSUME NEW s, LendingOK(s), NEW pid
    PROVE  LET u == DropEntry(s, pid)
           IN  /\ Lends(s, u, {pid})
               /\ u.tree = s.tree
               /\ DOMAIN u = DOMAIN s
               /\ DOMAIN u.active = DOMAIN s.active \ {pid}
<1> DEFINE u == DropEntry(s, pid)
<1>1. /\ DOMAIN u = DOMAIN s
      /\ u.tree = s.tree
      /\ u.active = [p \in DOMAIN s.active \ {pid} |-> s.active[p]]
    BY DEF DropEntry, LendingOK, Restrict
<1> HIDE DEF u
<1>2. LendingOK(u)
    BY <1>1 DEF LendingOK
<1>3. NodesFollow(s, u) /\ EntriesKept(s, u, {pid})
    BY <1>1 DEF NodesFollow, EntriesKept
<1> QED BY <1>1, <1>2, <1>3 DEF Lends, u

\* A node takes what the entry of its worker has.
LEMMA AttachLends ==
    ASSUME NEW s, LendingOK(s), NEW pid, NEW key,
           key # NoKey => key = KeyOf[pid] /\ key \in DOMAIN s.tree
    PROVE  LET u == AttachTaskPlan(s, pid, key)
           IN  /\ Lends(s, u, {})
               /\ u.active = s.active
               /\ DOMAIN u = DOMAIN s
               /\ DOMAIN u.tree = DOMAIN s.tree
<1> DEFINE u == AttachTaskPlan(s, pid, key)
           e == s.active[pid]
           m == s.tree[key]
           n == [m EXCEPT
                    !.threads = IF e.threads # 0 THEN e.threads ELSE @,
                    !.threads_live = IF e.threads # 0 THEN e.threads_live ELSE @,
                    !.mem_estimate = IF e.mem # 0 THEN e.mem ELSE @]
           t == [s.tree EXCEPT ![key] = n]
<1>1. CASE key = NoKey \/ pid \notin DOMAIN s.active
    <2>1. u = s
        BY <1>1 DEF AttachTaskPlan, Known
    <2>2. Lends(s, s, {})
        BY OthersLend, KeepsLends DEF LendingOK
    <2> QED BY <2>1, <2>2
<1>2. CASE key # NoKey /\ pid \in DOMAIN s.active
    <2>1. Lent(m) /\ Lent(e)
        BY <1>2 DEF LendingOK
    <2>2. /\ Lent(n)
          /\ e.threads = 0 => Loans(n) = Loans(m)
          /\ e.threads # 0 => Loans(n) = Loans(e)
        BY <2>1 DEF Lent, Loans
    <2>3. u = [s EXCEPT !.tree = t]
        BY <1>2 DEF AttachTaskPlan, Known
    <2> HIDE DEF n
    <2>4. /\ DOMAIN t = DOMAIN s.tree
          /\ t[key] = n
          /\ \A k \in DOMAIN t \ {key} : t[k] = s.tree[k]
        BY <1>2
    <2> HIDE DEF t
    <2>5. u.tree = t /\ u.active = s.active /\ DOMAIN u = DOMAIN s
        BY <2>3 DEF LendingOK
    <2> HIDE DEF u
    <2>6. LendingOK(u)
        BY <2>2, <2>4, <2>5 DEF LendingOK
    <2>7. NodesFollow(s, u)
        BY <1>2, <2>2, <2>4, <2>5 DEF NodesFollow
    <2>8. EntriesKept(s, u, {})
        BY <2>5 DEF EntriesKept
    <2> QED BY <2>4, <2>5, <2>6, <2>7, <2>8 DEF Lends, u
<1> QED BY <1>1, <1>2

LEMMA LendsThenAttached ==
    ASSUME NEW s, NEW v, NEW u, NEW pids, Lends(s, v, pids), Lends(v, u, {}),
           u.active = v.active
    PROVE  Lends(s, u, pids)
<1>1. NodesFollow(s, u)
    BY DEF NodesFollow, Lends
<1>2. EntriesKept(s, u, pids)
    BY DEF EntriesKept, Lends
<1> QED BY <1>1, <1>2 DEF Lends

-----------------------------------------------------------------------------
(* The records of a worker leave what is lent to it as it was, but for     *)
(* what is in force: "multiplying" puts the whole grant in force.          *)

WorkerLends(s, u, pid, raised) ==
    /\ Lends(s, u, {pid})
    /\ pid \in DOMAIN s.active => pid \in DOMAIN u.active
    /\ pid \in DOMAIN u.active =>
        LET e == EntryOf(s, pid)
            f == u.active[pid]
        IN  /\ f.threads = e.threads
            /\ \/ f.threads_live = e.threads_live
               \/ raised /\ f.threads # 0 /\ f.threads_live = f.threads

LEMMA EntryLent ==
    ASSUME NEW s, LendingOK(s), NEW pid
    PROVE  Lent(EntryOf(s, pid)) /\ "node" \in DOMAIN EntryOf(s, pid)
BY DEF LendingOK, EntryOf, NewEntry, Known, Lent

LEMMA KeepsWorkerLends ==
    ASSUME NEW s, LendingOK(s), NEW u, Keeps(s, u), NEW pid, NEW raised
    PROVE  WorkerLends(s, u, pid, raised)
<1>1. Lends(s, u, {pid})
    BY KeepsLends, LendsMore
<1>2. u.active = s.active
    BY DEF Keeps
<1>3. \A q \in DOMAIN s.active : EntryOf(s, q) = s.active[q]
    BY DEF EntryOf, Known
<1> QED BY <1>1, <1>2, <1>3 DEF WorkerLends

LEMMA BeginLends ==
    ASSUME NEW s, LendingOK(s), NEW pid \in Node, NEW r, r.pid = pid, r.key = KeyOf[pid]
    PROVE  WorkerLends(s, HandleBegin(s, r), pid, FALSE)
<1> DEFINE key == NodeOf(s, r.key)
           e  == EntryOf(s, pid)
           f  == [e EXCEPT !.node = key, !.resumed = FALSE]
           s1 == SetEntry(s, pid, f)
           n  == [s1.tree[key] EXCEPT !.in_progress = TRUE, !.pid = pid]
           s2 == [s1 EXCEPT !.tree[key].in_progress = TRUE, !.tree[key].pid = pid]
           s3 == AttachTaskPlan(s2, pid, key)
           t  == MarkActive(s3.tree, key, 1)
           u  == [s3 EXCEPT !.tree = t]
<1>1. HandleBegin(s, r) = IF key = NoKey THEN s1 ELSE u
    BY DEF HandleBegin
<1>2. key # NoKey => key = KeyOf[pid] /\ key \in DOMAIN s.tree
    BY DEF NodeOf
<1>3. Lent(f) /\ Loans(f) = Loans(e) /\ f.node = key /\ "node" \in DOMAIN f
    BY EntryLent DEF Lent, Loans
<1> HIDE DEF f, key
<1>4. EntryFits(s, pid, f)
    BY <1>2, <1>3 DEF EntryFits
<1>5. EntryWritten(s, s1, pid, f)
    BY <1>4, EntrySet
<1> HIDE DEF s1, e
<1>6. /\ Lends(s, s1, {pid}) /\ LendingOK(s1)
      /\ s1.tree = s.tree
      /\ DOMAIN s1 = DOMAIN s
      /\ DOMAIN s1.active = DOMAIN s.active \cup {pid}
      /\ s1.active[pid] = f
    BY <1>5 DEF EntryWritten, Lends
<1>7. CASE key = NoKey
    BY <1>1, <1>3, <1>6, <1>7 DEF WorkerLends, Loans, e
<1>8. CASE key # NoKey
    <2>1. Lent(s1.tree[key])
        BY <1>2, <1>6, <1>8 DEF LendingOK
    <2>2. Lent(n) /\ Loans(n) = Loans(s1.tree[key])
        BY <2>1 DEF Lent, Loans
    <2>3. s2 = [s1 EXCEPT !.tree = [s1.tree EXCEPT ![key] = n]]
        BY <1>2, <1>6, <1>8
    <2> HIDE DEF n
    <2>4. Freed(s1.tree, [s1.tree EXCEPT ![key] = n])
        BY <1>6, <2>2 DEF Freed, LendingOK
    <2> HIDE DEF s2
    <2>5. Keeps(s1, s2) /\ LendingOK(s2)
        BY <1>6, <2>3, <2>4, TreeLends, KeepsLends DEF Lends
    <2>6. key \in DOMAIN s2.tree
        BY <1>2, <1>6, <1>8, <2>5 DEF Keeps, Freed
    <2>7. Lends(s2, s3, {}) /\ s3.active = s2.active
        BY <1>2, <1>8, <2>5, <2>6, AttachLends
    <2> HIDE DEF s3
    <2>8. Lends(s, s2, {pid})
        BY <1>6, <2>5, KeepsAfterLends
    <2>9. Lends(s, s3, {pid})
        BY <2>7, <2>8, LendsThenAttached
    <2>10. LendingOK(s3)
        BY <2>9 DEF Lends
    <2>11. Freed(s3.tree, t)
        BY <2>10, MarksLend DEF LendingOK
    <2> HIDE DEF t
    <2>12. Keeps(s3, u)
        BY <2>10, <2>11, TreeLends
    <2> HIDE DEF u
    <2>13. Lends(s, u, {pid})
        BY <2>9, <2>12, KeepsAfterLends
    <2>14. u.active = s1.active
        BY <2>5, <2>7, <2>12 DEF Keeps
    <2> QED BY <1>1, <1>3, <1>6, <1>8, <2>13, <2>14 DEF WorkerLends, Loans, e
<1> QED BY <1>7, <1>8

\* What joins and pieces mark of a State of whose entries nothing changes.
LEMMA DoneLends ==
    ASSUME NEW s, LendingOK(s), NEW v, Keeps(s, v), NEW key, NEW x, NEW y
    PROVE  /\ Keeps(s, [v EXCEPT !.tree = MarkNodeDone(MarkUnitsDone(v.tree, key, x), key)])
           /\ Keeps(s, [v EXCEPT !.tree = MarkNodeDone(
                                    MarkUnitsDone(MarkLeavesDone(v.tree, key, y), key, x),
                                    key)])
<1>1. LendingOK(v)
    BY KeepsLends DEF Lends
<1>2. \A t : (\A k \in DOMAIN t : Lent(t[k])) =>
        /\ Freed(t, MarkLeavesDone(t, key, y))
        /\ Freed(t, MarkUnitsDone(t, key, x))
        /\ Freed(t, MarkNodeDone(t, key))
    BY MarksLend
<1>3. \A t, w : Freed(t, w) => \A k \in DOMAIN w : Lent(w[k])
    BY DEF Freed
<1>4. \A t : Freed(v.tree, t) => Freed(v.tree, MarkNodeDone(MarkUnitsDone(t, key, x), key))
    BY <1>2, <1>3, FreedTransitive
<1>5. Freed(v.tree, v.tree) /\ Freed(v.tree, MarkLeavesDone(v.tree, key, y))
    BY <1>1, <1>2, FreedSelf DEF LendingOK
<1>6. \A t : Freed(v.tree, t) => Keeps(s, [v EXCEPT !.tree = t])
    BY <1>1, TreeLends, KeepsTransitive
<1> QED BY <1>4, <1>5, <1>6

LEMMA JoiningLends ==
    ASSUME NEW s, LendingOK(s), NEW r
    PROVE  Keeps(s, HandleJoining(s, r))
<1> DEFINE key == NodeOf(s, r.key)
           n == [s.tree[key] EXCEPT !.mem_estimate = r.mem]
           t == [s.tree EXCEPT ![key] = n]
<1>1. HandleJoining(s, r) = s \/ HandleJoining(s, r) = [s EXCEPT !.tree = t]
    BY DEF HandleJoining
<1>2. key \in DOMAIN s.tree => Lent(n) /\ Loans(n) = Loans(s.tree[key])
    BY DEF LendingOK, Lent, Loans
<1> HIDE DEF n, key
<1>3. Freed(s.tree, t)
    BY <1>2 DEF Freed, LendingOK
<1> HIDE DEF t
<1> QED BY <1>1, <1>3, TreeLends, OthersLend DEF LendingOK

LEMMA JoinedLends ==
    ASSUME NEW s, LendingOK(s), NEW r
    PROVE  Keeps(s, HandleJoined(s, r))
<1> DEFINE key == NodeOf(s, r.key)
           v == [s EXCEPT !.joins_done = @ + 1,
                          !.join_events = IF EntryOf(s, r.pid).resumed THEN @ ELSE @ + 1]
<1>1. HandleJoined(s, r) =
        IF key = NoKey THEN v
        ELSE [v EXCEPT !.tree = MarkNodeDone(MarkUnitsDone(v.tree, key, 1), key)]
    BY DEF HandleJoined
<1>2. /\ {"tree", "active"} \subseteq DOMAIN v
      /\ v.active = s.active
      /\ v.tree = s.tree
    BY DEF LendingOK
<1> HIDE DEF v, key
<1>3. Keeps(s, v)
    BY <1>2, OthersLend
<1>4. Keeps(s, [v EXCEPT !.tree = MarkNodeDone(MarkUnitsDone(v.tree, key, 1), key)])
    BY <1>3, DoneLends
<1> QED BY <1>1, <1>3, <1>4

LEMMA PieceLends ==
    ASSUME NEW s, LendingOK(s), NEW r
    PROVE  Keeps(s, HandlePiece(s, r))
<1> DEFINE key == NodeOf(s, r.key)
           v == [s EXCEPT !.pieces_done = @ + 1, !.piece_events = @ + 1]
<1>1. HandlePiece(s, r) =
        IF key = NoKey THEN v
        ELSE [v EXCEPT !.tree =
                 MarkNodeDone(MarkUnitsDone(MarkLeavesDone(v.tree, key, 1), key, 1), key)]
    BY DEF HandlePiece
<1>2. /\ {"tree", "active"} \subseteq DOMAIN v
      /\ v.active = s.active
      /\ v.tree = s.tree
    BY DEF LendingOK
<1> HIDE DEF v, key
<1>3. Keeps(s, v)
    BY <1>2, OthersLend
<1>4. Keeps(s, [v EXCEPT !.tree =
                 MarkNodeDone(MarkUnitsDone(MarkLeavesDone(v.tree, key, 1), key, 1), key)])
    BY <1>3, DoneLends
<1> QED BY <1>1, <1>3, <1>4

LEMMA PhaseLends ==
    ASSUME NEW s, LendingOK(s), NEW pid \in Node, NEW r, r.pid = pid
    PROVE  WorkerLends(s, HandlePhaseLine(s, r), pid, r.action = "multiplying")
<1> DEFINE raised == r.action = "multiplying"
           key == EntryOf(s, pid).node
           f  == PhaseEntry(s.active[pid], r)
           s1 == IF Known(s, pid) THEN SetEntry(s, pid, f) ELSE s
           s2 == PhaseLock(s1, r)
           n  == PhaseNode(s2.tree[key], r)
           t  == [s2.tree EXCEPT ![key] = n]
           s3 == [s2 EXCEPT !.tree[key] = n]
           u  == HandlePhaseLine(s, r)
<1>1. u = IF key = NoKey THEN s2
          ELSE IF raised THEN AttachTaskPlan(s3, pid, key) ELSE s3
    BY DEF HandlePhaseLine
<1> SUFFICES WorkerLends(s, u, pid, raised)
    OBVIOUS
<1> HIDE DEF u
<1>2. key # NoKey => key = KeyOf[pid] /\ key \in DOMAIN s.tree
    BY DEF EntryOf, Known, NewEntry, LendingOK
<1>3. CASE ~Known(s, pid)
    <2>1. key = NoKey /\ s1 = s
        BY <1>3 DEF EntryOf, NewEntry
    <2>2. LendingOK(s1) /\ {"tree", "active"} \subseteq DOMAIN s1
        BY <2>1 DEF LendingOK
    <2> HIDE DEF s1
    <2>3. {"tree", "active"} \subseteq DOMAIN s2 /\ s2.active = s1.active /\ s2.tree = s1.tree
        BY <2>2 DEF PhaseLock
    <2> HIDE DEF s2, key
    <2>4. Keeps(s1, s2)
        BY <2>2, <2>3, OthersLend
    <2> QED BY <1>1, <2>1, <2>4, KeepsWorkerLends
<1>4. CASE Known(s, pid)
    <2> DEFINE e == s.active[pid]
    <2>1. pid \in DOMAIN s.active /\ Lent(e) /\ "node" \in DOMAIN e /\ EntryOf(s, pid) = e
        BY <1>4 DEF LendingOK, Known, EntryOf
    <2>2. /\ Lent(f) /\ "node" \in DOMAIN f /\ f.node = e.node
          /\ f.threads = e.threads
          /\ \/ f.threads_live = e.threads_live
             \/ raised /\ f.threads # 0 /\ f.threads_live = f.threads
        <3> DEFINE micro == IF r.term = NoText THEN r.action ELSE e.micro
                   live  == IF raised /\ e.threads # 0 THEN e.threads ELSE e.threads_live
                   again == e.resumed \/ r.action = "resumed"
        <3>1. f = [e EXCEPT !.micro = micro, !.threads_live = live, !.resumed = again]
            BY DEF PhaseEntry
        <3>2. live \in Nat
            BY <2>1 DEF Lent
        <3>3. live = e.threads_live \/ (raised /\ e.threads # 0 /\ live = e.threads)
            OBVIOUS
        <3> HIDE DEF e, f, micro, live, again, raised
        <3>4. /\ DOMAIN f = DOMAIN e /\ f.threads = e.threads /\ f.node = e.node
              /\ f.threads_live = live
            BY <2>1, <3>1 DEF Lent
        <3> QED BY <2>1, <3>2, <3>3, <3>4 DEF Lent
    <2>3. f.node # NoKey => f.node = KeyOf[pid] /\ KeyOf[pid] \in DOMAIN s.tree
        BY <1>2, <2>1, <2>2
    <2>4. s1 = SetEntry(s, pid, f)
        BY <1>4
    <2>5. EntryOf(s, pid) = e
        BY <2>1
    <2> HIDE DEF e, f, key, raised
    <2>6. EntryFits(s, pid, f)
        BY <2>2, <2>3 DEF EntryFits
    <2>7. EntryWritten(s, s1, pid, f)
        BY <2>4, <2>6, EntrySet
    <2>8. /\ Lends(s, s1, {pid}) /\ LendingOK(s1)
          /\ s1.tree = s.tree
          /\ pid \in DOMAIN s1.active
          /\ s1.active[pid] = f
        BY <2>7 DEF EntryWritten, Lends
    <2> HIDE DEF s1
    <2>9. {"tree", "active"} \subseteq DOMAIN s2 /\ s2.active = s1.active /\ s2.tree = s1.tree
        BY <2>8 DEF PhaseLock, LendingOK
    <2> HIDE DEF s2
    <2>10. Keeps(s1, s2) /\ LendingOK(s2)
        BY <2>8, <2>9, OthersLend, KeepsLends DEF Lends
    <2>11. Lends(s, s2, {pid})
        BY <2>8, <2>10, KeepsAfterLends
    <2>12. \A x : Lends(s, x, {pid}) /\ x.active = s2.active => WorkerLends(s, x, pid, raised)
        BY <2>2, <2>5, <2>8, <2>9 DEF WorkerLends
    <2>13. CASE key = NoKey
        BY <1>1, <2>11, <2>12, <2>13 DEF raised
    <2>14. CASE key # NoKey
        <3>1. key \in DOMAIN s2.tree /\ key = KeyOf[pid]
            BY <1>2, <2>8, <2>9, <2>14
        <3>2. Lent(s2.tree[key])
            BY <2>10, <3>1 DEF LendingOK
        <3>3. Lent(n) /\ Loans(n) = Loans(s2.tree[key])
            BY <3>2 DEF PhaseNode, Lent, Loans
        <3> HIDE DEF n
        <3>4. Freed(s2.tree, t)
            BY <2>10, <3>3 DEF Freed, LendingOK
        <3>5. s3 = [s2 EXCEPT !.tree = t]
            BY <2>9
        <3> HIDE DEF s3, t
        <3>6. Keeps(s2, s3) /\ LendingOK(s3)
            BY <2>10, <3>4, <3>5, TreeLends, KeepsLends DEF Lends
        <3>7. Lends(s, s3, {pid}) /\ s3.active = s2.active /\ key \in DOMAIN s3.tree
            BY <2>11, <3>1, <3>6, KeepsAfterLends DEF Keeps, Freed
        <3> DEFINE w == AttachTaskPlan(s3, pid, key)
        <3>8. Lends(s3, w, {}) /\ w.active = s3.active
            BY <3>1, <3>6, <3>7, AttachLends
        <3> HIDE DEF w
        <3>9. Lends(s, w, {pid}) /\ w.active = s2.active
            BY <3>7, <3>8, LendsThenAttached
        <3>10. u = w \/ u = s3
            BY <1>1, <2>14 DEF w, raised
        <3> QED BY <2>12, <3>7, <3>9, <3>10 DEF u, raised
    <2> QED BY <2>13, <2>14 DEF u
<1> QED BY <1>3, <1>4 DEF u

-----------------------------------------------------------------------------
(* The records of the scheduler: a task starts, is lent more or is gone;   *)
(* the other records leave the entries alone, and those that build the     *)
(* tree come before there are any.                                         *)

Drops(r) == \/ r.fn = "node_process" /\ r.action = "already stored"
            \/ r.fn \in {"task_end", "task_check_exit"}

Starts(r) == r.fn = "task_start"

Donates(r) == r.fn = "task_donate"

Configures(r) == r.fn = "pi_tree"

Notes(r) == r.fn \in {"scheduler", "node_can_launch", "pi"}

\* Of these, those that carry no figure.
Remarks(r) == r.fn \in {"node_can_launch", "pi"}

LEMMA StoredLends ==
    ASSUME NEW s, LendingOK(s), NEW r
    PROVE  LET u == HandleAlreadyStored(s, r)
           IN  Lends(s, u, {r.pid}) /\ DOMAIN u.active = DOMAIN s.active \ {r.pid}
<1> DEFINE key == NodeOf(s, r.key)
           x == LeavesCovered(r.key)
           y == 2 * x - 1
           d == DropEntry(s, r.pid)
           v == [d EXCEPT !.pieces_done = @ + x, !.joins_done = @ + x - 1]
           w == [v EXCEPT !.tree =
                    MarkNodeDone(MarkUnitsDone(MarkLeavesDone(v.tree, key, x), key, y), key)]
           u == HandleAlreadyStored(s, r)
<1>1. u = IF key = NoKey THEN v ELSE w
    BY DEF HandleAlreadyStored
<1> SUFFICES Lends(s, u, {r.pid}) /\ DOMAIN u.active = DOMAIN s.active \ {r.pid}
    OBVIOUS
<1> HIDE DEF u
<1>2. /\ Lends(s, d, {r.pid}) /\ LendingOK(d)
      /\ DOMAIN d.active = DOMAIN s.active \ {r.pid}
    BY EntryDropped DEF Lends
<1> HIDE DEF d, key, x, y
<1>3. {"tree", "active"} \subseteq DOMAIN v /\ v.active = d.active /\ v.tree = d.tree
    BY <1>2 DEF LendingOK
<1> HIDE DEF v
<1>4. Keeps(d, v)
    BY <1>2, <1>3, OthersLend
<1>5. Keeps(d, w)
    BY <1>2, <1>4, DoneLends
<1> HIDE DEF w
<1>6. \A z : Keeps(d, z) => /\ Lends(s, z, {r.pid})
                            /\ DOMAIN z.active = DOMAIN s.active \ {r.pid}
    BY <1>2, KeepsAfterLends DEF Keeps
<1> QED BY <1>1, <1>4, <1>5, <1>6

LEMMA EndLends ==
    ASSUME NEW s, LendingOK(s), NEW r
    PROVE  /\ LET u == HandleTaskEnd(s, r)
              IN  Lends(s, u, {r.pid}) /\ DOMAIN u.active = DOMAIN s.active \ {r.pid}
           /\ LET u == HandleTaskExit(s, r)
              IN  Lends(s, u, {r.pid}) /\ DOMAIN u.active = DOMAIN s.active \ {r.pid}
<1> DEFINE d == DropEntry(s, r.pid)
           v == [d EXCEPT !.locking_pids = @ \ {r.pid}]
           w == [d EXCEPT !.locking_pids = @ \ {r.pid}, !.task_exit = r.pid]
<1>1. HandleTaskEnd(s, r) = v /\ HandleTaskExit(s, r) = w
    BY DEF HandleTaskEnd, HandleTaskExit
<1>2. /\ Lends(s, d, {r.pid}) /\ LendingOK(d)
      /\ DOMAIN d.active = DOMAIN s.active \ {r.pid}
    BY EntryDropped DEF Lends
<1> HIDE DEF d
<1>3. /\ {"tree", "active"} \subseteq DOMAIN v /\ v.active = d.active /\ v.tree = d.tree
      /\ {"tree", "active"} \subseteq DOMAIN w /\ w.active = d.active /\ w.tree = d.tree
    BY <1>2 DEF LendingOK
<1> HIDE DEF v, w
<1>4. Keeps(d, v) /\ Keeps(d, w)
    BY <1>2, <1>3, OthersLend
<1>5. \A z : Keeps(d, z) => /\ Lends(s, z, {r.pid})
                            /\ DOMAIN z.active = DOMAIN s.active \ {r.pid}
    BY <1>2, KeepsAfterLends DEF Keeps
<1>6. /\ Lends(s, v, {r.pid}) /\ DOMAIN v.active = DOMAIN s.active \ {r.pid}
      /\ Lends(s, w, {r.pid}) /\ DOMAIN w.active = DOMAIN s.active \ {r.pid}
    BY <1>4, <1>5
<1> QED BY <1>1, <1>6

\* "task start" and "task donate" book a grant; a start has it in force.
Booked(s, u, r) ==
    /\ Lends(s, u, {r.pid})
    /\ r.pid \in DOMAIN u.active
    /\ u.active[r.pid].threads = r.thr
    /\ u.active[r.pid].threads_live =
            IF Starts(r) THEN r.thr ELSE EntryOf(s, r.pid).threads_live

LEMMA TaskStartLends ==
    ASSUME NEW s, LendingOK(s), NEW r, r.pid \in Node, r.thr \in Nat, NEW ts
    PROVE  Booked(s, HandleTaskStart(s, r, ts), r)
<1> DEFINE pid == r.pid
           f == EntryOf(s, pid)
           live == IF Starts(r) THEN r.thr ELSE f.threads_live
           e == [f EXCEPT !.mem = r.mem, !.threads = r.thr, !.threads_live = live]
           s1 == [s EXCEPT !.halt = IF r.fn = "task_start" THEN NoHalt ELSE @,
                           !.threads_seen = TRUE,
                           !.thread_last_ts = IF s.threads_seen THEN @ ELSE ts]
           s2 == SetEntry(s1, pid, e)
           u == AttachTaskPlan(s2, pid, e.node)
<1>1. HandleTaskStart(s, r, ts) = u
    BY DEF HandleTaskStart, Starts
<1>2. Lent(f) /\ "node" \in DOMAIN f /\ live \in Nat
    BY EntryLent DEF Lent
<1>3. f.node # NoKey => f.node = KeyOf[pid] /\ KeyOf[pid] \in DOMAIN s.tree
    BY DEF EntryOf, Known, NewEntry, LendingOK
<1>4. {"tree", "active"} \subseteq DOMAIN s1 /\ s1.active = s.active /\ s1.tree = s.tree
    BY DEF LendingOK
<1> HIDE DEF s1, f, live
<1>5. /\ Lent(e) /\ "node" \in DOMAIN e /\ e.node = f.node
      /\ e.threads = r.thr /\ e.threads_live = live
    BY <1>2 DEF Lent
<1>6. Keeps(s, s1) /\ LendingOK(s1)
    BY <1>4, OthersLend, KeepsLends DEF Lends
<1> HIDE DEF e
<1>7. EntryFits(s1, pid, e)
    BY <1>3, <1>4, <1>5 DEF EntryFits
<1>8. EntryWritten(s1, s2, pid, e)
    BY <1>6, <1>7, EntrySet
<1> HIDE DEF s2
<1>9. /\ Lends(s1, s2, {pid}) /\ LendingOK(s2)
      /\ s2.tree = s.tree
      /\ pid \in DOMAIN s2.active
      /\ s2.active[pid] = e
    BY <1>4, <1>8 DEF EntryWritten, Lends
<1>10. Lends(s, s2, {pid})
    BY <1>6, <1>9, LendsAfterKeeps
<1>11. e.node # NoKey => e.node = KeyOf[pid] /\ e.node \in DOMAIN s2.tree
    BY <1>3, <1>5, <1>9
<1>12. Lends(s2, u, {}) /\ u.active = s2.active
    BY <1>9, <1>11, AttachLends
<1> HIDE DEF u
<1>13. Lends(s, u, {pid})
    BY <1>10, <1>12, LendsThenAttached
<1>14. Booked(s, u, r)
    BY <1>5, <1>9, <1>12, <1>13 DEF Booked, f, live
<1> QED BY <1>1, <1>14

LEMMA TickLends ==
    ASSUME NEW s, LendingOK(s), NEW ts
    PROVE  Keeps(s, ThreadTick(s, ts))
<1> DEFINE u == ThreadTick(s, ts)
<1>1. {"tree", "active"} \subseteq DOMAIN u /\ u.active = s.active /\ u.tree = s.tree
    BY DEF LendingOK, ThreadTick
<1> HIDE DEF u
<1>2. Keeps(s, u)
    BY <1>1, OthersLend
<1> QED BY <1>2 DEF u

LEMMA NoteLends ==
    ASSUME NEW s, LendingOK(s), NEW r
    PROVE  /\ Keeps(s, HandleHalt(s, r))
           /\ r.action \in {"active processes", "active threads", "active memory"} =>
                Keeps(s, HandleScheduler(s, r))
<1>1. Keeps(s, HandleHalt(s, r))
    <2> DEFINE u == HandleHalt(s, r)
    <2>1. {"tree", "active"} \subseteq DOMAIN u /\ u.active = s.active /\ u.tree = s.tree
        BY DEF LendingOK, HandleHalt
    <2> HIDE DEF u
    <2>2. Keeps(s, u)
        BY <2>1, OthersLend
    <2> QED BY <2>2 DEF u
<1>2. ASSUME r.action \in {"active processes", "active threads", "active memory"}
      PROVE  Keeps(s, HandleScheduler(s, r))
    <2> DEFINE u == HandleScheduler(s, r)
    <2>1. \/ u = [s EXCEPT !.active_max = AtLeast(@, r.val)]
          \/ u = [s EXCEPT !.threads_reported = r.val]
          \/ u = [s EXCEPT !.mem_booked = r.val]
        BY <1>2, Zenon DEF HandleScheduler
    <2> HIDE DEF u
    <2>2. {"tree", "active"} \subseteq DOMAIN u /\ u.active = s.active /\ u.tree = s.tree
        BY <2>1 DEF LendingOK
    <2>3. Keeps(s, u)
        BY <2>2, OthersLend
    <2> QED BY <2>3 DEF u
<1> QED BY <1>1, <1>2, Zenon

LEMMA PhasesLend ==
    ASSUME NEW s, LendingOK(s), NEW action \in PhaseActions
    PROVE  Keeps(s, HandlePhase(s, action))
<1>1. \A name : Keeps(s, SetPhase(s, name)) /\ LendingOK(SetPhase(s, name))
    <2> SUFFICES ASSUME NEW name
                 PROVE  Keeps(s, SetPhase(s, name)) /\ LendingOK(SetPhase(s, name))
        OBVIOUS
    <2> DEFINE u == SetPhase(s, name)
    <2>1. {"tree", "active"} \subseteq DOMAIN u /\ u.active = s.active /\ u.tree = s.tree
        BY DEF LendingOK, SetPhase
    <2> HIDE DEF u
    <2>2. Keeps(s, u) /\ LendingOK(u)
        BY <2>1, OthersLend, KeepsLends DEF Lends
    <2> QED BY <2>2 DEF u
<1>2. CASE action \in {"dividing", "divided", "binary split solved"}
    <2>1. HandlePhase(s, action) = SetPhase(s, action)
        BY <1>2, Zenon DEF HandlePhase
    <2> QED BY <1>1, <2>1
<1>3. CASE action = "pi already stored"
    <2> DEFINE w == SetPhase(s, action)
               root == <<1, w.index_max>>
               v == IF w.total_pieces = 0 THEN w
                    ELSE [w EXCEPT !.pieces_done = w.total_pieces,
                                   !.joins_done = w.total_pieces - 1]
               L == w.tree[root].leaves_total
               x == 2 * L - 1
               u == HandlePhase(s, action)
    <2>1. u = AllDone(w)
        BY <1>3, Zenon DEF HandlePhase
    <2>2. u = IF w.tree = NoTree THEN v
              ELSE [v EXCEPT !.tree = MarkNodeDone(MarkUnitsDone(
                                MarkLeavesDone(v.tree, root, L), root, x), root)]
        BY <2>1 DEF AllDone
    <2>3. Keeps(s, w) /\ LendingOK(w)
        BY <1>1
    <2> HIDE DEF u, w
    <2>4. {"tree", "active"} \subseteq DOMAIN v /\ v.active = w.active /\ v.tree = w.tree
        BY <2>3 DEF LendingOK
    <2> HIDE DEF v, root, L, x
    <2>5. Keeps(w, v)
        BY <2>3, <2>4, OthersLend
    <2>6. Keeps(w, [v EXCEPT !.tree = MarkNodeDone(MarkUnitsDone(
                                MarkLeavesDone(v.tree, root, L), root, x), root)])
        BY <2>3, <2>5, DoneLends
    <2>7. Keeps(w, u)
        BY <2>2, <2>5, <2>6
    <2>8. Keeps(s, u)
        BY <2>3, <2>7, KeepsTransitive
    <2> QED BY <2>8 DEF u
<1>4. CASE action = "display begin"
    <2>1. HandlePhase(s, action) = SetPhase(s, "displaying")
        BY <1>4, Zenon DEF HandlePhase
    <2> QED BY <1>1, <2>1
<1>5. CASE action = "display end"
    <2> DEFINE v == SetPhase(s, "displayed")
               u == [v EXCEPT !.done = TRUE]
    <2>1. HandlePhase(s, action) = u
        BY <1>5, Zenon DEF HandlePhase
    <2>2. Keeps(s, v) /\ LendingOK(v)
        BY <1>1
    <2> HIDE DEF v
    <2>3. {"tree", "active"} \subseteq DOMAIN u /\ u.active = v.active /\ u.tree = v.tree
        BY <2>2 DEF LendingOK
    <2> HIDE DEF u
    <2>4. Keeps(s, u)
        BY <2>2, <2>3, OthersLend, KeepsTransitive
    <2> QED BY <2>1, <2>4
<1> QED BY <1>2, <1>3, <1>4, <1>5, Zenon DEF PhaseActions

\* A State no more than whose tree is built again.
Rebuilt(s, u) ==
    /\ {"tree", "active"} \subseteq DOMAIN u
    /\ u.active = s.active
    /\ \/ u.tree = s.tree
       \/ \A k \in DOMAIN u.tree : Lent(u.tree[k]) /\ Loans(u.tree[k]) = NoLoans

LEMMA RebuiltLends ==
    ASSUME NEW s, LendingOK(s), DOMAIN s.active = {}, NEW u, Rebuilt(s, u)
    PROVE  Lends(s, u, {})
<1>1. LendingOK(u)
    BY DEF Rebuilt, LendingOK
<1>2. NodesFollow(s, u)
    BY DEF Rebuilt, NodesFollow
<1>3. EntriesKept(s, u, {})
    BY DEF Rebuilt, EntriesKept
<1> QED BY <1>1, <1>2, <1>3 DEF Lends

LEMMA ApplyRebuilds ==
    ASSUME NEW s, {"tree", "active"} \subseteq DOMAIN s, NEW N
    PROVE  Rebuilt(s, ApplyIndexMax(s, N))
<1> DEFINE c == s.chunk_span
           t == IF c = 0 THEN NoTree ELSE BuildTree(N, c)
           u == ApplyIndexMax(s, N)
<1>1. {"tree", "active"} \subseteq DOMAIN u /\ u.active = s.active /\ u.tree = t
    BY DEF ApplyIndexMax
<1>2. \A x, y : LET n == TreeNode(x, y) IN Lent(n) /\ Loans(n) = NoLoans
    BY DEF TreeNode, Lent, Loans, NoLoans
<1>3. \A k \in DOMAIN t : Lent(t[k]) /\ Loans(t[k]) = NoLoans
    <2>1. CASE t = NoTree
        BY <2>1 DEF NoTree
    <2>2. CASE t # NoTree
        <3> DEFINE keys == {Key(x) : x \in Shapes(N, c)}
        <3>1. t = [k \in keys |-> TreeNode(CHOOSE x \in Shapes(N, c) : Key(x) = k, c)]
            BY <2>2 DEF BuildTree
        <3>2. \A k \in DOMAIN t : \E x : t[k] = TreeNode(x, c)
            BY <3>1
        <3> HIDE DEF t, c
        <3> QED BY <1>2, <3>2
    <2> QED BY <2>1, <2>2
<1> HIDE DEF t, u
<1>4. Rebuilt(s, u)
    BY <1>1, <1>3 DEF Rebuilt
<1> QED BY <1>4 DEF u

LEMMA ConfigRebuilds ==
    ASSUME NEW s, {"tree", "active"} \subseteq DOMAIN s, NEW name, NEW val
    PROVE  Rebuilt(s, HandleConfig(s, name, val))
<1> DEFINE prev == s.prev_config
           v == [s EXCEPT
                    !.config = (name :> val) @@ @,
                    !.config_diff = IF name \in DOMAIN prev /\ prev[name] # val
                                    THEN @ \cup {name} ELSE @]
           u == HandleConfigOf(v, name, val)
<1>1. HandleConfig(s, name, val) = u
    BY DEF HandleConfig
<1>2. {"tree", "active"} \subseteq DOMAIN v /\ v.active = s.active /\ v.tree = s.tree
    OBVIOUS
<1> HIDE DEF v
<1>3. \A N : Rebuilt(v, ApplyIndexMax(v, N))
    BY <1>2, ApplyRebuilds
<1>4. Rebuilt(v, v)
    BY <1>2 DEF Rebuilt
<1> SUFFICES Rebuilt(v, u)
    BY <1>1, <1>2 DEF Rebuilt
<1>5. CASE name = "piece size"
    <2>1. u = v \/ u = ApplyIndexMax(v, GetIndexMax(ArgSize))
        BY <1>5, Zenon DEF HandleConfigOf
    <2> QED BY <1>3, <1>4, <2>1
<1>6. CASE name = "run size"
    <2>1. u = v \/ u = ApplyIndexMax(v, val)
        BY <1>6, Zenon DEF HandleConfigOf
    <2> QED BY <1>3, <1>4, <2>1
<1>7. CASE name = "chunk span"
    <2> DEFINE w == [v EXCEPT !.chunk_span = val]
    <2>1. u = w \/ u = ApplyIndexMax(w, v.index_max)
        BY <1>7, Zenon DEF HandleConfigOf
    <2>2. {"tree", "active"} \subseteq DOMAIN w /\ w.active = v.active /\ w.tree = v.tree
        BY <1>2
    <2> HIDE DEF w
    <2>3. Rebuilt(w, ApplyIndexMax(w, v.index_max))
        BY <2>2, ApplyRebuilds
    <2> QED BY <2>1, <2>2, <2>3 DEF Rebuilt
<1>8. CASE name \notin {"piece size", "run size", "chunk span"}
    <2>1. \/ u = v
          \/ u = [v EXCEPT !.n_process_logged = val]
          \/ u = [v EXCEPT !.mem_launch = val]
          \/ u = [v EXCEPT !.mem_max = val]
          \/ u = [v EXCEPT !.disk_lock_enabled = (val # 0)]
        BY <1>8, Zenon DEF HandleConfigOf
    <2> HIDE DEF u
    <2>2. {"tree", "active"} \subseteq DOMAIN u /\ u.active = v.active /\ u.tree = v.tree
        BY <1>2, <2>1
    <2> QED BY <2>2 DEF Rebuilt
<1> QED BY <1>5, <1>6, <1>7, <1>8, Zenon

\* What a record of the scheduler does to a State.
Told(s, u, r) ==
    /\ Drops(r) => Lends(s, u, {r.pid}) /\ DOMAIN u.active = DOMAIN s.active \ {r.pid}
    /\ (Starts(r) \/ Donates(r)) /\ r.pid \in Node /\ r.thr \in Nat => Booked(s, u, r)
    /\ Configures(r) /\ DOMAIN s.active = {} => Lends(s, u, {}) /\ u.active = s.active
    /\ Notes(r) => Lends(s, u, {}) /\ u.active = s.active

LEMMA KeepsTells ==
    ASSUME NEW s, LendingOK(s), NEW v, Keeps(s, v), NEW u, NEW r, Told(v, u, r)
    PROVE  Told(s, u, r)
<1>1. \A pids : Lends(v, u, pids) => Lends(s, u, pids)
    BY LendsAfterKeeps
<1>2. v.active = s.active /\ EntryOf(v, r.pid) = EntryOf(s, r.pid)
    BY DEF Keeps, EntryOf, Known
<1> QED BY <1>1, <1>2 DEF Told, Booked

LEMMA HandleTells ==
    ASSUME NEW s, LendingOK(s), NEW r, Line(r), NEW ts
    PROVE  Told(s, Handle(s, r, ts), r)
<1> DEFINE u == Handle(s, r, ts)
<1> SUFFICES Told(s, u, r)
    OBVIOUS
<1>1. Drops(r) => Lends(s, u, {r.pid}) /\ DOMAIN u.active = DOMAIN s.active \ {r.pid}
    <2> SUFFICES ASSUME Drops(r)
                 PROVE  Lends(s, u, {r.pid}) /\ DOMAIN u.active = DOMAIN s.active \ {r.pid}
        OBVIOUS
    <2>1. CASE r.fn = "node_process" /\ r.action = "already stored"
        <3>1. u = HandleNodeProcess(s, r)
            BY <2>1, Zenon DEF Handle
        <3>2. HandleNodeProcess(s, r) = HandleAlreadyStored(s, r)
            BY <2>1, Zenon DEF HandleNodeProcess
        <3> HIDE DEF u
        <3> QED BY <3>1, <3>2, StoredLends
    <2>2. CASE r.fn = "task_end"
        <3>1. u = HandleTaskEnd(s, r)
            BY <2>2, Zenon DEF Handle
        <3> HIDE DEF u
        <3> QED BY <3>1, EndLends
    <2>3. CASE r.fn = "task_check_exit"
        <3>1. u = HandleTaskExit(s, r)
            BY <2>3, Zenon DEF Handle
        <3> HIDE DEF u
        <3> QED BY <3>1, EndLends
    <2> QED BY <2>1, <2>2, <2>3, Zenon DEF Drops
<1>2. (Starts(r) \/ Donates(r)) /\ r.pid \in Node /\ r.thr \in Nat => Booked(s, u, r)
    <2> SUFFICES ASSUME Starts(r) \/ Donates(r), r.pid \in Node, r.thr \in Nat
                 PROVE  Booked(s, u, r)
        OBVIOUS
    <2>1. u = HandleTaskStart(s, r, ts)
        BY Zenon DEF Handle, Starts, Donates
    <2> HIDE DEF u
    <2> QED BY <2>1, TaskStartLends
<1>3. Configures(r) /\ DOMAIN s.active = {} => Lends(s, u, {}) /\ u.active = s.active
    <2> SUFFICES ASSUME Configures(r), DOMAIN s.active = {}
                 PROVE  Lends(s, u, {}) /\ u.active = s.active
        OBVIOUS
    <2>1. u = HandleConfig(s, r.action, r.val)
        BY Zenon DEF Handle, Configures
    <2>2. {"tree", "active"} \subseteq DOMAIN s
        BY DEF LendingOK
    <2> HIDE DEF u
    <2>3. Rebuilt(s, u)
        BY <2>1, <2>2, ConfigRebuilds
    <2> QED BY <2>3, RebuiltLends DEF Rebuilt
<1>4. Notes(r) => Lends(s, u, {}) /\ u.active = s.active
    <2> SUFFICES ASSUME Notes(r) PROVE Lends(s, u, {}) /\ u.active = s.active
        OBVIOUS
    <2>1. CASE r.fn = "scheduler"
        <3>1. u = HandleScheduler(s, r)
            BY <2>1, Zenon DEF Handle
        <3>2. r.action \in {"active processes", "active threads", "active memory"}
            BY <2>1, Zenon DEF Line
        <3> HIDE DEF u
        <3>3. Keeps(s, u)
            BY <3>1, <3>2, NoteLends, Zenon
        <3> QED BY <3>3, KeepsLends DEF Keeps
    <2>2. CASE r.fn = "node_can_launch"
        <3>1. u = HandleHalt(s, r)
            BY <2>2, Zenon DEF Handle
        <3> HIDE DEF u
        <3>2. Keeps(s, u)
            BY <3>1, NoteLends, Zenon
        <3> QED BY <3>2, KeepsLends DEF Keeps
    <2>3. CASE r.fn = "pi"
        <3>1. u = HandlePhase(s, r.action)
            BY <2>3, Zenon DEF Handle
        <3>2. r.action \in PhaseActions
            BY <2>3, Zenon DEF Line
        <3> HIDE DEF u
        <3>3. Keeps(s, u)
            BY <3>1, <3>2, PhasesLend
        <3> QED BY <3>3, KeepsLends DEF Keeps
    <2> QED BY <2>1, <2>2, <2>3, Zenon DEF Notes
<1> HIDE DEF u
<1> QED BY <1>1, <1>2, <1>3, <1>4 DEF Told

LEMMA FeedLineTells ==
    ASSUME NEW s, LendingOK(s), NEW r, Line(r), NEW ts
    PROVE  Told(s, FeedLine(s, r, ts), r)
<1> DEFINE v == IF r.fn \in Stamped THEN ThreadTick(s, ts) ELSE s
<1>1. FeedLine(s, r, ts) = Handle(v, r, ts)
    BY DEF FeedLine
<1>2. Keeps(s, v)
    BY TickLends, OthersLend DEF LendingOK
<1> HIDE DEF v
<1>3. LendingOK(v)
    BY <1>2, KeepsLends DEF Lends
<1>4. Told(v, Handle(v, r, ts), r)
    BY <1>3, HandleTells
<1> QED BY <1>1, <1>2, <1>4, KeepsTells

\* A line of the worker on n.
Mine(n, r) ==
    /\ r.pid = n
    /\ \/ r.fn = "split_piece"
       \/ /\ r.fn = "node_process"
          /\ r.key = KeyOf[n]
          /\ r.action \in {"begin", "joining", "joined", "piece"}

Raises(r) == r.fn = "split_piece" /\ r.action = "multiplying"

LEMMA RaisedOrNot ==
    ASSUME NEW s, NEW u, NEW pid, NEW a, WorkerLends(s, u, pid, a), NEW b, a => b
    PROVE  WorkerLends(s, u, pid, b)
BY DEF WorkerLends

LEMMA FeedLineLends ==
    ASSUME NEW s, LendingOK(s), NEW n \in Node, NEW r, Mine(n, r), NEW ts
    PROVE  WorkerLends(s, FeedLine(s, r, ts), n, Raises(r))
<1> DEFINE v == IF r.fn \in Stamped THEN ThreadTick(s, ts) ELSE s
           u == Handle(v, r, ts)
<1>1. FeedLine(s, r, ts) = u
    BY DEF FeedLine
<1>2. Keeps(s, v)
    BY TickLends, OthersLend DEF LendingOK
<1> HIDE DEF v
<1>3. LendingOK(v)
    BY <1>2, KeepsLends DEF Lends
<1>4. WorkerLends(v, u, n, Raises(r))
    <2>1. CASE r.fn = "split_piece"
        <3>1. u = HandlePhaseLine(v, r)
            BY <2>1, Zenon DEF Handle
        <3>2. r.pid = n
            BY DEF Mine
        <3> HIDE DEF u
        <3>3. WorkerLends(v, u, n, r.action = "multiplying")
            BY <1>3, <3>1, <3>2, PhaseLends
        <3>4. r.action = "multiplying" => Raises(r)
            BY <2>1 DEF Raises
        <3> QED BY <3>3, <3>4, RaisedOrNot
    <2>2. CASE /\ r.fn = "node_process"
               /\ r.key = KeyOf[n]
               /\ r.action \in {"begin", "joining", "joined", "piece"}
        <3>1. u = HandleNodeProcess(v, r)
            BY <2>2, Zenon DEF Handle
        <3> HIDE DEF u
        <3>2. CASE r.action = "begin"
            <4>1. u = HandleBegin(v, r)
                BY <3>1, <3>2, Zenon DEF HandleNodeProcess
            <4>2. r.pid = n /\ r.key = KeyOf[n]
                BY <2>2 DEF Mine
            <4>3. WorkerLends(v, u, n, FALSE)
                BY <1>3, <4>1, <4>2, BeginLends
            <4> QED BY <4>3, RaisedOrNot
        <3>3. CASE r.action = "joining"
            <4>1. u = HandleJoining(v, r)
                BY <3>1, <3>3, Zenon DEF HandleNodeProcess
            <4> QED BY <1>3, <4>1, JoiningLends, KeepsWorkerLends
        <3>4. CASE r.action = "joined"
            <4>1. u = HandleJoined(v, r)
                BY <3>1, <3>4, Zenon DEF HandleNodeProcess
            <4> QED BY <1>3, <4>1, JoinedLends, KeepsWorkerLends
        <3>5. CASE r.action = "piece"
            <4>1. u = HandlePiece(v, r)
                BY <3>1, <3>5, Zenon DEF HandleNodeProcess
            <4> QED BY <1>3, <4>1, PieceLends, KeepsWorkerLends
        <3> QED BY <2>2, <3>2, <3>3, <3>4, <3>5, Zenon
    <2> QED BY <2>1, <2>2, Zenon DEF Mine
<1> HIDE DEF u
<1>5. Lends(s, u, {n})
    BY <1>2, <1>4, LendsAfterKeeps DEF WorkerLends
<1>6. v.active = s.active /\ EntryOf(v, n) = EntryOf(s, n)
    BY <1>2 DEF Keeps, EntryOf, Known
<1> QED BY <1>1, <1>4, <1>5, <1>6 DEF WorkerLends

-----------------------------------------------------------------------------
(* A grant as it is shown against a grant as it is: booked and in force.   *)

Backs(b, f, whole, x) ==
    /\ x.threads <= b
    /\ x.threads_live <= f
    /\ whole /\ x.threads # 0 => x.threads_live # 0

\* What is shown of node n and of its worker.
ShownFits(s, n, b, f, whole) ==
    /\ n \in DOMAIN s.active => Backs(b, f, whole, s.active[n])
    /\ KeyOf[n] \in DOMAIN s.tree => Backs(b, f, whole, s.tree[KeyOf[n]])

Started(s, n) == n \in DOMAIN s.active /\ s.active[n].threads_live # 0

\* A grant that grows, or a log that loses a line, asks for less.
LEMMA ShownMore ==
    ASSUME NEW s, LendingOK(s), NEW n,
           NEW b \in Nat, NEW f \in Nat, NEW b2 \in Nat, NEW f2 \in Nat, b <= b2, f <= f2,
           NEW w, NEW w2, w2 => w, ShownFits(s, n, b, f, w)
    PROVE  ShownFits(s, n, b2, f2, w2)
BY DEF ShownFits, LendingOK, Backs, Lent

\* If what a record makes of the entry of n fits, so does what it makes of the node.
LEMMA NodeFits ==
    ASSUME NEW s, LendingOK(s), NEW u, NEW pids, Lends(s, u, pids), NEW n \in Node,
           NEW b \in Nat, NEW f \in Nat, NEW f2 \in Nat, f <= f2, NEW w, NEW w2, w2 => w,
           ShownFits(s, n, b, f, w),
           n \in DOMAIN u.active => Backs(b, f2, w2, u.active[n])
    PROVE  ShownFits(u, n, b, f2, w2)
<1> SUFFICES ASSUME KeyOf[n] \in DOMAIN u.tree
             PROVE  Backs(b, f2, w2, u.tree[KeyOf[n]])
    BY DEF ShownFits
<1> DEFINE x == u.tree[KeyOf[n]]
<1>1. \A y : Loans(y) = Loans(x) /\ Backs(b, f2, w2, y) => Backs(b, f2, w2, x)
    BY DEF Loans, Backs
<1>2. CASE Loans(x) = NoLoans
    BY <1>2 DEF Loans, NoLoans, Backs
<1>3. CASE KeyOf[n] \in DOMAIN s.tree /\ Loans(x) = Loans(s.tree[KeyOf[n]])
    <2>1. Lent(s.tree[KeyOf[n]]) /\ Backs(b, f, w, s.tree[KeyOf[n]])
        BY <1>3 DEF ShownFits, LendingOK
    <2>2. Backs(b, f2, w2, s.tree[KeyOf[n]])
        BY <2>1 DEF Backs, Lent
    <2> QED BY <1>1, <1>3, <2>2
<1>4. CASE \E p \in DOMAIN u.active :
            KeyOf[n] = KeyOf[p] /\ Loans(x) = Loans(u.active[p]) /\ u.active[p].threads # 0
    <2>1. PICK p \in DOMAIN u.active : KeyOf[n] = KeyOf[p] /\ Loans(x) = Loans(u.active[p])
        BY <1>4
    <2>2. p \in Node
        BY DEF Lends, LendingOK
    <2>3. p = n
        BY <2>1, <2>2, KeyAssumption
    <2> QED BY <1>1, <2>1, <2>3
<1> QED BY <1>2, <1>3, <1>4 DEF Lends, NodesFollow

\* A record of another process leaves what is shown of n as true as it was.
LEMMA OtherFits ==
    ASSUME NEW s, LendingOK(s), NEW u, NEW pids, Lends(s, u, pids), NEW n \in Node \ pids,
           NEW b \in Nat, NEW f \in Nat, NEW f2 \in Nat, f <= f2, NEW w, NEW w2, w2 => w,
           ShownFits(s, n, b, f, w)
    PROVE  ShownFits(u, n, b, f2, w2) /\ (Started(s, n) => Started(u, n))
<1>1. /\ n \in DOMAIN u.active <=> n \in DOMAIN s.active
      /\ n \in DOMAIN u.active => Loans(u.active[n]) = Loans(s.active[n])
    BY DEF Lends, EntriesKept
<1>2. ASSUME n \in DOMAIN u.active PROVE Backs(b, f2, w2, u.active[n])
    <2>1. Lent(s.active[n]) /\ Backs(b, f, w, s.active[n])
        BY <1>1, <1>2 DEF ShownFits, LendingOK
    <2>2. Backs(b, f2, w2, s.active[n])
        BY <2>1 DEF Backs, Lent
    <2> QED BY <1>1, <1>2, <2>2 DEF Loans, Backs
<1>3. Started(s, n) => Started(u, n)
    BY <1>1 DEF Started, Loans
<1> QED BY <1>2, <1>3, NodeFits

\* So does one of its own, once what it puts in force is.
LEMMA OwnFits ==
    ASSUME NEW s, LendingOK(s), NEW u, NEW n \in Node, NEW raised,
           WorkerLends(s, u, n, raised),
           NEW b \in Nat, NEW f \in Nat, NEW f2 \in Nat, f <= f2, raised => f2 = b,
           NEW w, NEW w2, w2 => w, ShownFits(s, n, b, f, w)
    PROVE  ShownFits(u, n, b, f2, w2) /\ (Started(s, n) => Started(u, n))
<1> DEFINE e == EntryOf(s, n)
           g == u.active[n]
<1>1. Lent(e)
    BY EntryLent
<1>2. Backs(b, f, w, e)
    BY DEF ShownFits, EntryOf, Known, NewEntry, Backs
<1>3. Backs(b, f2, w2, e)
    BY <1>1, <1>2 DEF Backs, Lent
<1>4. n \in DOMAIN u.active =>
        /\ g.threads = e.threads
        /\ g.threads_live = e.threads_live \/ (raised /\ g.threads # 0 /\ g.threads_live = g.threads)
    BY DEF WorkerLends
<1>5. n \in DOMAIN s.active => e = s.active[n] /\ n \in DOMAIN u.active
    BY DEF WorkerLends, EntryOf, Known
<1> HIDE DEF e, g
<1>6. ASSUME n \in DOMAIN u.active PROVE Backs(b, f2, w2, g)
    BY <1>1, <1>3, <1>4, <1>6 DEF Backs, Lent
<1>7. ASSUME Started(s, n) PROVE Started(u, n)
    BY <1>4, <1>5, <1>7 DEF Started, g
<1>8. Lends(s, u, {n})
    BY DEF WorkerLends
<1> QED BY <1>6, <1>7, <1>8, NodeFits DEF g

-----------------------------------------------------------------------------
(* The lines still to be logged, as a set.                                 *)

Logged(q) == {q[j] : j \in DOMAIN q}

LEMMA LoggedLines ==
    /\ Logged(<< >>) = {}
    /\ \A a : Logged(<<a>>) = {a}
    /\ \A a, b : Logged(<<a, b>>) = {a, b}
    /\ \A a, b, c : Logged(<<a, b, c>>) = {a, b, c}
    /\ \A p, q : Quiet(p) /\ Quiet(q) => Logged(p \o q) = Logged(p) \cup Logged(q)
    /\ \A q : Quiet(q) /\ q # << >> => Logged(q) = {Head(q)} \cup Logged(Tail(q))
<1>1. Logged(<< >>) = {}
    BY DEF Logged
<1>2. ASSUME NEW a PROVE Logged(<<a>>) = {a}
    <2>1. DOMAIN <<a>> = {1} /\ <<a>>[1] = a
        OBVIOUS
    <2> QED BY <2>1, Zenon DEF Logged
<1>3. ASSUME NEW a, NEW b PROVE Logged(<<a, b>>) = {a, b}
    <2> DEFINE q == <<a, b>>
    <2>1. DOMAIN q = {1, 2} /\ q[1] = a /\ q[2] = b
        OBVIOUS
    <2> HIDE DEF q
    <2>2. Logged(q) = {a, b}
        BY <2>1 DEF Logged
    <2> QED BY <2>2 DEF q
<1>4. ASSUME NEW a, NEW b, NEW c PROVE Logged(<<a, b, c>>) = {a, b, c}
    <2> DEFINE q == <<a, b, c>>
    <2>1. DOMAIN q = {1, 2, 3} /\ q[1] = a /\ q[2] = b /\ q[3] = c
        OBVIOUS
    <2> HIDE DEF q
    <2>2. Logged(q) = {a, b, c}
        BY <2>1 DEF Logged
    <2> QED BY <2>2 DEF q
<1>5. ASSUME NEW p, NEW q, Quiet(p), Quiet(q)
      PROVE  Logged(p \o q) = Logged(p) \cup Logged(q)
    <2>1. PICK R : p \in Seq(R)
        BY <1>5 DEF Quiet
    <2>2. PICK T : q \in Seq(T)
        BY <1>5 DEF Quiet
    <2>3. /\ Len(p) \in Nat /\ Len(q) \in Nat
          /\ DOMAIN p = 1 .. Len(p) /\ DOMAIN q = 1 .. Len(q)
        BY <2>1, <2>2
    <2>4. p \in Seq(R \cup T) /\ q \in Seq(R \cup T)
        BY <2>1, <2>2
    <2>5. /\ DOMAIN (p \o q) = 1 .. Len(p) + Len(q)
          /\ \A j \in 1 .. Len(p) + Len(q) :
                (p \o q)[j] = IF j <= Len(p) THEN p[j] ELSE q[j - Len(p)]
        BY <2>3, <2>4
    <2> DEFINE pq == p \o q
    <2> HIDE DEF pq
    <2>6. /\ DOMAIN pq = 1 .. Len(p) + Len(q)
          /\ \A j \in 1 .. Len(p) + Len(q) :
                pq[j] = IF j <= Len(p) THEN p[j] ELSE q[j - Len(p)]
        BY <2>5 DEF pq
    <2>7. Logged(pq) \subseteq Logged(p) \cup Logged(q)
        <3> SUFFICES ASSUME NEW j \in DOMAIN pq PROVE pq[j] \in Logged(p) \cup Logged(q)
            BY DEF Logged
        <3>1. CASE j <= Len(p)
            BY <2>3, <2>6, <3>1 DEF Logged
        <3>2. CASE ~(j <= Len(p))
            <4>1. j - Len(p) \in DOMAIN q /\ pq[j] = q[j - Len(p)]
                BY <2>3, <2>6, <3>2
            <4> QED BY <4>1 DEF Logged
        <3> QED BY <3>1, <3>2
    <2>8. Logged(p) \subseteq Logged(pq)
        BY <2>3, <2>6 DEF Logged
    <2>9. Logged(q) \subseteq Logged(pq)
        <3> SUFFICES ASSUME NEW j \in DOMAIN q PROVE q[j] \in Logged(pq)
            BY DEF Logged
        <3>1. /\ j + Len(p) \in DOMAIN pq
              /\ ~(j + Len(p) <= Len(p))
              /\ (j + Len(p)) - Len(p) = j
            BY <2>3, <2>6
        <3>2. pq[j + Len(p)] = q[j]
            BY <2>6, <3>1
        <3> QED BY <3>1, <3>2 DEF Logged
    <2>10. Logged(pq) = Logged(p) \cup Logged(q)
        BY <2>7, <2>8, <2>9
    <2> QED BY <2>10 DEF pq
<1>6. ASSUME NEW q, Quiet(q), q # << >>
      PROVE  Logged(q) = {Head(q)} \cup Logged(Tail(q))
    <2>1. PICK R : q \in Seq(R)
        BY <1>6 DEF Quiet
    <2> DEFINE h == Head(q)
               t == Tail(q)
    <2>2. /\ Len(q) \in Nat \ {0} /\ DOMAIN q = 1 .. Len(q)
          /\ h = q[1]
          /\ DOMAIN t = 1 .. Len(q) - 1
          /\ \A j \in 1 .. Len(q) - 1 : t[j] = q[j + 1]
        BY <1>6, <2>1
    <2> HIDE DEF h, t
    <2>3. Logged(q) \subseteq {h} \cup Logged(t)
        <3> SUFFICES ASSUME NEW j \in DOMAIN q, j # 1 PROVE q[j] \in Logged(t)
            BY <2>2 DEF Logged
        <3>1. j - 1 \in DOMAIN t /\ (j - 1) + 1 = j
            BY <2>2
        <3>2. t[j - 1] = q[j]
            BY <2>2, <3>1
        <3> QED BY <3>1, <3>2 DEF Logged
    <2>4. h \in Logged(q)
        BY <2>2 DEF Logged
    <2>5. Logged(t) \subseteq Logged(q)
        <3> SUFFICES ASSUME NEW j \in DOMAIN t PROVE t[j] \in Logged(q)
            BY DEF Logged
        <3>1. j + 1 \in DOMAIN q /\ t[j] = q[j + 1]
            BY <2>2
        <3> QED BY <3>1 DEF Logged
    <2> QED BY <2>3, <2>4, <2>5 DEF h, t
<1> QED BY <1>1, <1>2, <1>3, <1>4, <1>5, <1>6

-----------------------------------------------------------------------------
(* The steps of a worker at which it takes what its slot grants.           *)

Reading(s) == s.op \in {"read", "close"}

\* A step of the worker on n that puts no grant in force.
Steady(n, s) == (s.r = Silent \/ Mine(n, s.r)) /\ ~Raises(s.r)

LEMMA LinesFields ==
    /\ \A n, action : /\ PhaseLine(n, action).fn = "split_piece"
                      /\ PhaseLine(n, action).pid = n
                      /\ PhaseLine(n, action).action = action
    /\ \A n, term : /\ Header(n, term).fn = "split_piece"
                    /\ Header(n, term).pid = n
                    /\ Header(n, term).action = "mul"
    /\ \A n, action, mem : /\ NodeLine(n, action, mem).fn = "node_process"
                           /\ NodeLine(n, action, mem).pid = n
                           /\ NodeLine(n, action, mem).key = KeyOf[n]
                           /\ NodeLine(n, action, mem).action = action
    /\ Silent.fn = "silent"
BY DEF PhaseLine, Header, NodeLine, Silent

LEMMA SteadySteps ==
    ASSUME NEW n
    PROVE  /\ \A op : Steady(n, Does(op))
           /\ \A op, term, held : Steady(n, Step(op, Header(n, term), held))
           /\ \A action : action # "multiplying" =>
                /\ Steady(n, Says(PhaseLine(n, action)))
                /\ \A op, held : Steady(n, Step(op, PhaseLine(n, action), held))
           /\ \A action \in {"begin", "joining", "joined", "piece"} :
                /\ Steady(n, Says(NodeLine(n, action, 0)))
                /\ \A op, held : Steady(n, Step(op, NodeLine(n, action, 0), held))
<1>1. ~Raises(Silent)
    BY LinesFields, Zenon DEF Raises
<1>2. \A op : Steady(n, Does(op))
    BY <1>1, StepFields, Zenon DEF Steady
<1>3. \A r : Mine(n, r) /\ ~Raises(r) =>
        /\ Steady(n, Says(r))
        /\ \A op, held : Steady(n, Step(op, r, held))
    BY StepFields DEF Steady
<1>4. ASSUME NEW term PROVE Mine(n, Header(n, term)) /\ ~Raises(Header(n, term))
    <2> DEFINE r == Header(n, term)
    <2>1. r.fn = "split_piece" /\ r.pid = n /\ r.action = "mul"
        BY LinesFields
    <2> HIDE DEF r
    <2>2. Mine(n, r) /\ ~Raises(r)
        BY <2>1, Zenon DEF Mine, Raises
    <2> QED BY <2>2 DEF r
<1>5. ASSUME NEW action, action # "multiplying"
      PROVE  Mine(n, PhaseLine(n, action)) /\ ~Raises(PhaseLine(n, action))
    <2> DEFINE r == PhaseLine(n, action)
    <2>1. r.fn = "split_piece" /\ r.pid = n /\ r.action = action
        BY LinesFields
    <2> HIDE DEF r
    <2>2. Mine(n, r) /\ ~Raises(r)
        BY <1>5, <2>1, Zenon DEF Mine, Raises
    <2> QED BY <2>2 DEF r
<1>6. ASSUME NEW action \in {"begin", "joining", "joined", "piece"}
      PROVE  Mine(n, NodeLine(n, action, 0)) /\ ~Raises(NodeLine(n, action, 0))
    <2> DEFINE r == NodeLine(n, action, 0)
    <2>1. r.fn = "node_process" /\ r.pid = n /\ r.key = KeyOf[n] /\ r.action = action
        BY LinesFields
    <2> HIDE DEF r
    <2>2. Mine(n, r) /\ ~Raises(r)
        BY <2>1, Zenon DEF Mine, Raises
    <2> QED BY <2>2 DEF r
<1>7. \A op, term, held : Steady(n, Step(op, Header(n, term), held))
    BY <1>3, <1>4, Zenon
<1>8. \A action : action # "multiplying" =>
        /\ Steady(n, Says(PhaseLine(n, action)))
        /\ \A op, held : Steady(n, Step(op, PhaseLine(n, action), held))
    BY <1>3, <1>5, Zenon
<1>9. \A action \in {"begin", "joining", "joined", "piece"} :
        /\ Steady(n, Says(NodeLine(n, action, 0)))
        /\ \A op, held : Steady(n, Step(op, NodeLine(n, action, 0), held))
    BY <1>3, <1>6, Zenon
<1> QED BY <1>2, <1>7, <1>8, <1>9, Zenon

\* A worker only logs lines of its own, and takes its grant right after it has
\* logged that it multiplies.
ScriptReads(n, q) ==
    /\ ~Reading(q[1])
    /\ \A a \in 1 .. Len(q) :
        /\ q[a].r = Silent \/ Mine(n, q[a].r)
        /\ Raises(q[a].r) => a + 1 \in 1 .. Len(q) /\ Reading(q[a + 1])

LEMMA ScriptLines ==
    ASSUME NEW n \in Node
    PROVE  ScriptReads(n, Scripts[n])
<1>1. ~Reading(Says(NodeLine(n, "begin", 0)))
    BY StepFields, Zenon DEF Reading
<1>2. CASE S!NodeIsLeaf(n)
    <2>1. PICK a, b, c, d, e :
            /\ a = Says(NodeLine(n, "begin", 0))
            /\ b = Says(PhaseLine(n, "locking"))
            /\ c = Says(PhaseLine(n, "locked"))
            /\ d = Step("commit", NodeLine(n, "piece", 0), TRUE)
            /\ e = Does("exit")
        OBVIOUS
    <2>2. Scripts[n] = <<a, b, c, d, e>>
        BY <1>2, <2>1 DEF Scripts, LeafScript
    <2>3. Steady(n, a) /\ Steady(n, b) /\ Steady(n, c) /\ Steady(n, d) /\ Steady(n, e)
        BY <2>1, SteadySteps, Zenon
    <2>4. ~Reading(a)
        BY <1>1, <2>1
    <2>5. \A j \in 1 .. 5 : Steady(n, Scripts[n][j])
        BY <2>2, <2>3
    <2>6. Len(Scripts[n]) = 5 /\ Scripts[n][1] = a
        BY <2>2
    <2> QED BY <2>4, <2>5, <2>6 DEF Steady, ScriptReads
<1>3. CASE ~S!NodeIsLeaf(n)
    <2>1. PICK a, b, c, d, e, f, g, h, k, l, m, o :
            /\ a = Says(NodeLine(n, "begin", 0))
            /\ b = Says(Joining(n))
            /\ c = Says(PhaseLine(n, "locking"))
            /\ d = Says(PhaseLine(n, "locked"))
            /\ e = Step("log", PhaseLine(n, "loading"), TRUE)
            /\ f = Says(PhaseLine(n, "multiplying"))
            /\ g = Does("read")
            /\ h = Says(PhaseLine(n, "multiplying"))
            /\ k = Does("close")
            /\ l = Step("commit", Header(n, "R"), FALSE)
            /\ m = Step("delete", NodeLine(n, "joined", 0), FALSE)
            /\ o = Does("exit")
        OBVIOUS
    <2>2. Scripts[n] = <<a, b, c, d, e, f, g, h, k, l, m, o>>
        BY <1>3, <2>1 DEF Scripts, JoinScript
    <2>b. b = Says(NodeLine(n, "joining", 0)) \/ b = Does("log")
        BY <2>1, JoiningSteps
    <2>3. /\ Steady(n, a) /\ Steady(n, b) /\ Steady(n, c) /\ Steady(n, d) /\ Steady(n, e)
          /\ Steady(n, g) /\ Steady(n, k) /\ Steady(n, l) /\ Steady(n, m) /\ Steady(n, o)
        <3>1. Steady(n, b)
            BY <2>b, SteadySteps, Zenon
        <3> QED BY <2>1, <3>1, SteadySteps, Zenon
    <2>4. f.r = PhaseLine(n, "multiplying") /\ h.r = PhaseLine(n, "multiplying")
        BY <2>1, StepFields, Zenon
    <2>5. Mine(n, f.r) /\ Mine(n, h.r)
        <3> DEFINE r == PhaseLine(n, "multiplying")
        <3>1. r.fn = "split_piece" /\ r.pid = n
            BY LinesFields
        <3> HIDE DEF r
        <3>2. Mine(n, r)
            BY <3>1, Zenon DEF Mine
        <3> QED BY <2>4, <3>2 DEF r
    <2>6. Reading(g) /\ Reading(k) /\ ~Reading(a)
        BY <1>1, <2>1, StepFields, Zenon DEF Reading
    <2>7. \A j \in 1 .. 12 : j # 6 /\ j # 8 => Steady(n, Scripts[n][j])
        BY <2>2, <2>3
    <2>8. /\ Len(Scripts[n]) = 12 /\ Scripts[n][1] = a
          /\ Scripts[n][6] = f /\ Scripts[n][7] = g
          /\ Scripts[n][8] = h /\ Scripts[n][9] = k
        BY <2>2
    <2>9. \A j \in 1 .. 12 : j # 6 /\ j # 8 =>
            (Scripts[n][j].r = Silent \/ Mine(n, Scripts[n][j].r)) /\ ~Raises(Scripts[n][j].r)
        BY <2>7 DEF Steady
    <2> QED BY <2>5, <2>6, <2>8, <2>9 DEF ScriptReads
<1> QED BY <1>2, <1>3

-----------------------------------------------------------------------------
(* The inductive invariant of what is shown lent.                          *)

Computing == {i \in S!Slots : phase[i] \in S!Live}

\* The grant worker i computes with, or will once it takes its next one.
InForce(i) == IF Reading(Now(i)) THEN slot[i].threads ELSE took[i]

\* The start of n's task is still to be logged.
StartPending(n) == \E r \in Logged(out) : Starts(r) /\ r.pid = n

\* What the dashboard shows lent to worker i is no more than it is lent; unless a
\* line has been lost, its start has been logged or is about to be.
LentTo(i) ==
    /\ took[i] \in 1 .. slot[i].threads
    /\ ShownFits(st, tasks[i], slot[i].threads, InForce(i), Whole)
    /\ Whole => Started(st, tasks[i]) \/ StartPending(tasks[i])

\* A task that has not started has nothing lent.
Unlent(s) ==
    \A n \in Node : ~Begun(n) =>
        /\ n \notin DOMAIN s.active
        /\ KeyOf[n] \in DOMAIN s.tree => Loans(s.tree[KeyOf[n]]) = NoLoans

\* A line that is still to be logged is of a task of its slot, and does not show
\* more of it than is lent.
Charged(r) == r.thr \in Nat /\ \E i \in S!Active : r.pid = tasks[i]

Fits(r) ==
    \/ Drops(r) /\ \A i \in Computing : r.pid # tasks[i]
    \/ Starts(r) /\ Charged(r) /\ \A i \in Computing :
            r.pid = tasks[i] => r.thr \in 1 .. took[i]
    \/ Donates(r) /\ Charged(r) /\ \A i \in Computing :
            r.pid = tasks[i] => /\ r.thr \in 1 .. slot[i].threads
                                /\ Whole => Started(st, tasks[i])
    \/ Configures(r) /\ S!Active = {} /\ DOMAIN st.active = {}
    \/ Notes(r)

LentInv ==
    /\ TrailInv
    /\ P!GInv
    /\ LendingOK(st)
    /\ took \in [S!Slots -> Nat]
    /\ lost \in [run : Nat, all : Nat]
    /\ Unlent(st)
    /\ \A i \in Computing : LentTo(i)
    /\ \A r \in Logged(out) : Fits(r)

LEMMA ComputingFacts ==
    ASSUME P!IInv
    PROVE  /\ \A i \in S!Slots : slot[i].threads \in Nat
           /\ \A i \in S!Active : i \in S!Slots /\ tasks[i] \in Node /\ Begun(tasks[i])
           /\ \A i \in Computing :
                /\ i \in S!Slots /\ i \in S!Active /\ tasks[i] \in Node
                /\ \A j \in S!Active : j # i => tasks[j] # tasks[i]
<1>1. \A i \in S!Slots : slot[i].threads \in Nat
    BY SameTree DEF P!IInv, P!TypeOK
<1>2. ASSUME NEW i \in S!Active
      PROVE  i \in S!Slots /\ tasks[i] \in Node /\ Begun(tasks[i])
    <2>1. i \in S!Slots /\ tasks[i] \in Node
        BY WorkerFacts DEF S!Active
    <2>2. status[tasks[i]] = "processing"
        BY SameBooks DEF P!IInv, P!TasksSeparate
    <2> QED BY <2>1, <2>2 DEF Begun
<1>3. \A i, j \in S!Active : j # i => tasks[j] # tasks[i]
    BY SameBooks DEF P!IInv, P!TasksSeparate
<1>4. \A i \in Computing : i \in S!Slots /\ i \in S!Active
    <2>1. "none" \notin S!Live
        BY DEF S!Live
    <2> QED BY <2>1, SameTree, SameBooks DEF Computing, P!IInv, P!TasksKnown
<1> QED BY <1>1, <1>2, <1>3, <1>4

LEMMA InForceFacts ==
    ASSUME LentInv, NEW i \in Computing
    PROVE  /\ slot[i].threads \in Nat /\ took[i] \in Nat /\ InForce(i) \in Nat
           /\ 1 <= took[i] /\ took[i] <= InForce(i) /\ InForce(i) <= slot[i].threads
<1>1. slot[i].threads \in Nat
    BY ComputingFacts DEF LentInv, TrailInv
<1>2. took[i] \in 1 .. slot[i].threads
    BY DEF LentInv, LentTo
<1> QED BY <1>1, <1>2 DEF InForce

LEMMA StillUnlent ==
    ASSUME NEW s, LendingOK(s), Unlent(s), NEW u, NEW pids, Lends(s, u, pids),
           \A p \in pids : p \in Node /\ ~Begun(p) => p \notin DOMAIN u.active
    PROVE  Unlent(u)
<1> SUFFICES ASSUME NEW n \in Node, ~Begun(n)
             PROVE  /\ n \notin DOMAIN u.active
                    /\ KeyOf[n] \in DOMAIN u.tree => Loans(u.tree[KeyOf[n]]) = NoLoans
    BY DEF Unlent
<1>1. n \notin DOMAIN u.active
    BY DEF Lends, EntriesKept, Unlent
<1>2. \A p \in DOMAIN u.active : KeyOf[p] # KeyOf[n]
    BY <1>1, KeyAssumption DEF Lends, LendingOK
<1>3. KeyOf[n] \in DOMAIN s.tree => Loans(s.tree[KeyOf[n]]) = NoLoans
    BY DEF Unlent
<1> QED BY <1>1, <1>2, <1>3 DEF Lends, NodesFollow

\* What a line of the scheduler does to what is shown lent.
ToldWell(u, r) ==
    /\ LendingOK(u)
    /\ Unlent(u)
    /\ \A i \in Computing :
        /\ ShownFits(u, tasks[i], slot[i].threads, InForce(i), Whole)
        /\ Started(st, tasks[i]) => Started(u, tasks[i])
        /\ Starts(r) /\ r.pid = tasks[i] => Started(u, tasks[i])
    /\ S!Active = {} /\ DOMAIN st.active = {} => DOMAIN u.active = {}

LEMMA OthersTold ==
    ASSUME LentInv, NEW u, NEW pids, Lends(st, u, pids), NEW i \in Computing,
           tasks[i] \notin pids
    PROVE  /\ ShownFits(u, tasks[i], slot[i].threads, InForce(i), Whole)
           /\ Started(st, tasks[i]) => Started(u, tasks[i])
<1>1. /\ slot[i].threads \in Nat /\ InForce(i) \in Nat /\ tasks[i] \in Node \ pids
      /\ ShownFits(st, tasks[i], slot[i].threads, InForce(i), Whole)
      /\ LendingOK(st)
    BY InForceFacts, ComputingFacts DEF LentInv, LentTo, TrailInv
<1> DEFINE f == InForce(i)
           b == slot[i].threads
           n == tasks[i]
           w == Whole
<1> HIDE DEF f, b, n, w
<1>2. b \in Nat /\ f \in Nat /\ f <= f /\ n \in Node \ pids /\ ShownFits(st, n, b, f, w)
    BY <1>1 DEF f, b, n, w
<1>3. ShownFits(u, n, b, f, w) /\ (Started(st, n) => Started(u, n))
    BY <1>1, <1>2, OtherFits
<1> QED BY <1>3 DEF f, b, n, w

LEMMA BookedWell ==
    ASSUME LentInv, NEW r, Fits(r), Starts(r) \/ Donates(r), NEW u, Booked(st, u, r),
           ~Drops(r), ~Configures(r), ~Notes(r), ~(Starts(r) /\ Donates(r))
    PROVE  ToldWell(u, r)
<1>1. r.thr \in Nat /\ r.pid \in Node /\ Begun(r.pid) /\ S!Active # {}
    BY ComputingFacts DEF Fits, Charged, LentInv, TrailInv
<1>2. LendingOK(u) /\ Unlent(u)
    <2>1. Lends(st, u, {r.pid})
        BY DEF Booked
    <2> QED BY <1>1, <2>1, StillUnlent DEF LentInv, Lends
<1>3. ASSUME NEW i \in Computing
      PROVE  /\ ShownFits(u, tasks[i], slot[i].threads, InForce(i), Whole)
             /\ Started(st, tasks[i]) => Started(u, tasks[i])
             /\ Starts(r) /\ r.pid = tasks[i] => Started(u, tasks[i])
    <2>1. CASE r.pid # tasks[i]
        BY <2>1, OthersTold DEF Booked
    <2>2. CASE r.pid = tasks[i]
        <3> DEFINE f == InForce(i)
                   b == slot[i].threads
                   n == tasks[i]
                   w == Whole
                   x == u.active[n]
                   e == EntryOf(st, n)
        <3>1. /\ b \in Nat /\ f \in Nat /\ 1 <= took[i] /\ took[i] <= f /\ f <= b
              /\ took[i] \in Nat
            BY InForceFacts
        <3>2. /\ Lends(st, u, {n}) /\ n \in DOMAIN u.active
              /\ x.threads = r.thr
              /\ Starts(r) => x.threads_live = r.thr
              /\ ~Starts(r) => x.threads_live = e.threads_live
            BY <2>2 DEF Booked
        <3>3. /\ ShownFits(st, n, b, f, w) /\ LendingOK(st) /\ n \in Node
            BY <1>1, <2>2 DEF LentInv, LentTo
        <3>4. e.threads_live \in Nat /\ e.threads_live <= f
            BY <3>1, <3>3 DEF ShownFits, EntryOf, Known, NewEntry, Backs, LendingOK, Lent
        <3>5. Started(st, n) => e.threads_live # 0
            BY DEF Started, EntryOf, Known
        <3>6. Starts(r) => r.thr \in 1 .. took[i]
            BY <2>2 DEF Fits
        <3>7. ~Starts(r) => r.thr \in 1 .. b /\ (w => Started(st, n))
            BY <2>2 DEF Fits
        <3> HIDE DEF f, b, n, w, x, e
        <3>8. Backs(b, f, w, x)
            BY <3>1, <3>2, <3>4, <3>5, <3>6, <3>7 DEF Backs
        <3>9. ShownFits(u, n, b, f, w)
            BY <3>1, <3>2, <3>3, <3>8, NodeFits DEF x
        <3>10. Started(st, n) => Started(u, n)
            BY <3>1, <3>2, <3>5, <3>6 DEF Started, x
        <3>11. Starts(r) => Started(u, n)
            BY <3>1, <3>2, <3>6 DEF Started, x
        <3> QED BY <3>9, <3>10, <3>11 DEF f, b, n, w
    <2> QED BY <2>1, <2>2
<1> QED BY <1>1, <1>2, <1>3 DEF ToldWell

LEMMA KindsDiffer ==
    ASSUME NEW r, Starts(r) \/ Donates(r)
    PROVE  ~Drops(r) /\ ~Configures(r) /\ ~Notes(r) /\ ~(Starts(r) /\ Donates(r))
BY Zenon DEF Starts, Donates, Drops, Configures, Notes

LEMMA FedWell ==
    ASSUME LentInv, NEW r, Fits(r), NEW u, Told(st, u, r)
    PROVE  ToldWell(u, r)
<1>1. CASE Starts(r) \/ Donates(r)
    <2>1. r.pid \in Node /\ r.thr \in Nat
        BY <1>1, KindsDiffer, ComputingFacts DEF Fits, Charged, LentInv, TrailInv
    <2>2. Booked(st, u, r)
        BY <1>1, <2>1 DEF Told
    <2> QED BY <1>1, <2>2, KindsDiffer, BookedWell
<1> SUFFICES ASSUME ~Starts(r), ~Donates(r) PROVE ToldWell(u, r)
    BY <1>1
<1>2. ASSUME NEW pids, Lends(st, u, pids), DOMAIN u.active \subseteq DOMAIN st.active,
             \A i \in Computing : tasks[i] \notin pids
      PROVE  ToldWell(u, r)
    <2>1. LendingOK(u)
        BY <1>2 DEF Lends
    <2>2. \A p \in pids : p \in Node /\ ~Begun(p) => p \notin DOMAIN u.active
        BY <1>2 DEF LentInv, Unlent
    <2>3. Unlent(u)
        BY <1>2, <2>2, StillUnlent DEF LentInv
    <2> QED BY <1>2, <2>1, <2>3, OthersTold DEF ToldWell
<1>3. CASE Drops(r) /\ \A i \in Computing : r.pid # tasks[i]
    <2>1. DOMAIN u.active \subseteq DOMAIN st.active
        BY <1>3 DEF Told
    <2> QED BY <1>2, <1>3, <2>1 DEF Told
<1>4. CASE Configures(r) /\ S!Active = {} /\ DOMAIN st.active = {}
    BY <1>2, <1>4 DEF Told
<1>5. CASE Notes(r)
    BY <1>2, <1>5 DEF Told
<1> QED BY <1>3, <1>4, <1>5 DEF Fits

\* A line that fits still does after a step that takes nothing a worker is lent,
\* and what started stays started.
LEMMA FitsStill ==
    ASSUME LentInv, NEW r, Fits(r), UNCHANGED tasks, Computing' \subseteq Computing,
           \A i \in Computing' :
              /\ took[i] <= took'[i] /\ slot[i].threads <= slot'[i].threads
              /\ took'[i] \in Nat /\ slot'[i].threads \in Nat
              /\ Whole' => Whole /\ (Started(st, tasks[i]) => Started(st', tasks[i])),
           S!Active = {} /\ DOMAIN st.active = {} => DOMAIN st'.active = {}
    PROVE  Fits(r)'
<1>1. S!Active' = S!Active
    BY DEF S!Active, S!Slots
<1>2. \A i \in Computing' : i \in Computing /\ took[i] \in Nat /\ slot[i].threads \in Nat
    BY InForceFacts
<1>3. CASE Drops(r) /\ \A i \in Computing : r.pid # tasks[i]
    BY <1>3 DEF Fits
<1>4. CASE Starts(r) /\ Charged(r) /\ \A i \in Computing :
                r.pid = tasks[i] => r.thr \in 1 .. took[i]
    <2>1. Charged(r)'
        BY <1>1, <1>4 DEF Charged
    <2>2. \A i \in Computing' : r.pid = tasks[i] => r.thr \in 1 .. took'[i]
        BY <1>2, <1>4
    <2> QED BY <1>4, <2>1, <2>2 DEF Fits
<1>5. CASE Donates(r) /\ Charged(r) /\ \A i \in Computing :
                r.pid = tasks[i] => /\ r.thr \in 1 .. slot[i].threads
                                    /\ Whole => Started(st, tasks[i])
    <2>1. Charged(r)'
        BY <1>1, <1>5 DEF Charged
    <2>2. \A i \in Computing' :
            r.pid = tasks[i] => /\ r.thr \in 1 .. slot'[i].threads
                                /\ Whole' => Started(st', tasks[i])
        BY <1>2, <1>5
    <2> QED BY <1>5, <2>1, <2>2 DEF Fits
<1>6. CASE Configures(r) /\ S!Active = {} /\ DOMAIN st.active = {}
    BY <1>1, <1>6 DEF Fits
<1>7. CASE Notes(r)
    BY <1>7 DEF Fits
<1> QED BY <1>3, <1>4, <1>5, <1>6, <1>7 DEF Fits

LEMMA SchedulerLogsLent ==
    ASSUME LentInv, TrailInv', P!GInv', SchedulerLogs
    PROVE  LentInv'
<1> DEFINE r == Head(out)
<1>1. /\ Line(r) /\ Fits(r) /\ Logged(out) = {r} \cup Logged(out')
      /\ out' = Tail(out) /\ UNCHANGED <<program, workers>>
    <2>1. Quiet(out) /\ out # << >>
        BY DEF LentInv, TrailInv, SchedulerLogs
    <2>2. Line(r) /\ Logged(out) = {r} \cup Logged(Tail(out))
        BY <2>1, QuietLines, LoggedLines
    <2> QED BY <2>2 DEF SchedulerLogs, LentInv
<1> HIDE DEF r
<1>2. /\ UNCHANGED <<tasks, status, slot, phase, at, took>>
      /\ S!Active' = S!Active /\ Computing' = Computing
      /\ \A n \in Node : Begun(n)' <=> Begun(n)
      /\ \A i \in Computing : InForce(i)' = InForce(i)
    BY <1>1 DEF program, workers, S!Active, Computing, InForce, Now, Begun, S!Slots
<1>3. /\ ToldWell(st', r) \/ (~Whole' /\ st' = st)
      /\ lost' \in [run : Nat, all : Nat]
      /\ Whole' => Whole
    <2>1. CASE \E ts : st' = FeedLine(st, r, ts) /\ UNCHANGED lost
        <3>1. PICK ts : st' = FeedLine(st, r, ts)
            BY <2>1
        <3>2. Told(st, st', r)
            BY <1>1, <3>1, FeedLineTells DEF LentInv
        <3>3. ToldWell(st', r)
            BY <1>1, <3>2, FedWell
        <3> QED BY <2>1, <3>3 DEF LentInv, Whole
    <2>2. CASE lost' = [run |-> lost.run + 1, all |-> lost.all + 1] /\ UNCHANGED st
        BY <2>2 DEF LentInv, Whole
    <2> QED BY <2>1, <2>2 DEF SchedulerLogs, Feed, r
<1>4. LendingOK(st') /\ Unlent(st')
    BY <1>3 DEF ToldWell, LentInv
<1>5. \A i \in Computing :
        /\ ShownFits(st', tasks[i], slot[i].threads, InForce(i), Whole')
        /\ Whole' => /\ Started(st, tasks[i]) => Started(st', tasks[i])
                     /\ Starts(r) /\ r.pid = tasks[i] => Started(st', tasks[i])
    <2> SUFFICES ASSUME NEW i \in Computing
                 PROVE  /\ ShownFits(st', tasks[i], slot[i].threads, InForce(i), Whole')
                        /\ Whole' => /\ Started(st, tasks[i]) => Started(st', tasks[i])
                                     /\ Starts(r) /\ r.pid = tasks[i] => Started(st', tasks[i])
        OBVIOUS
    <2>1. CASE ToldWell(st', r)
        <3>1. ShownFits(st', tasks[i], slot[i].threads, InForce(i), Whole)
            BY <2>1 DEF ToldWell
        <3>2. ShownFits(st', tasks[i], slot[i].threads, InForce(i), Whole')
            BY <1>3, <3>1 DEF ShownFits, Backs
        <3> QED BY <2>1, <3>2 DEF ToldWell
    <2>2. CASE ~Whole' /\ st' = st
        <3>1. ShownFits(st, tasks[i], slot[i].threads, InForce(i), Whole)
            BY DEF LentInv, LentTo
        <3>2. ShownFits(st', tasks[i], slot[i].threads, InForce(i), Whole')
            BY <2>2, <3>1 DEF ShownFits, Backs
        <3> QED BY <2>2, <3>2
    <2> QED BY <1>3, <2>1, <2>2
<1>6. ASSUME NEW i \in Computing PROVE LentTo(i)'
    <2>1. took'[i] \in 1 .. slot'[i].threads
        BY <1>2 DEF LentInv, LentTo
    <2>2. ShownFits(st', tasks'[i], slot'[i].threads, InForce(i)', Whole')
        BY <1>2, <1>5
    <2>3. ASSUME Whole' PROVE Started(st', tasks'[i]) \/ StartPending(tasks[i])'
        <3>1. Started(st, tasks[i]) \/ StartPending(tasks[i])
            BY <1>3, <2>3 DEF LentInv, LentTo
        <3>2. StartPending(tasks[i]) =>
                (Starts(r) /\ r.pid = tasks[i]) \/ StartPending(tasks[i])'
            BY <1>1, <1>2 DEF StartPending
        <3> QED BY <1>2, <1>5, <2>3, <3>1, <3>2
    <2> QED BY <1>2, <2>1, <2>2, <2>3 DEF LentTo
<1>7. ASSUME NEW x \in Logged(out') PROVE Fits(x)'
    <2>1. Fits(x)
        BY <1>1 DEF LentInv
    <2>2. S!Active = {} /\ DOMAIN st.active = {} => DOMAIN st'.active = {}
        BY <1>3 DEF ToldWell
    <2>3. \A i \in Computing' :
            /\ took[i] <= took'[i] /\ slot[i].threads <= slot'[i].threads
            /\ took'[i] \in Nat /\ slot'[i].threads \in Nat
            /\ Whole' => Whole /\ (Started(st, tasks[i]) => Started(st', tasks[i]))
        BY <1>2, <1>3, <1>5, InForceFacts
    <2> QED BY <1>2, <2>1, <2>2, <2>3, FitsStill
<1>8. took' \in [S!Slots -> Nat] /\ Unlent(st)'
    BY <1>2, <1>4 DEF LentInv, Unlent
<1> QED BY <1>2, <1>3, <1>4, <1>6, <1>7, <1>8 DEF LentInv

\* What a worker's step leaves of the grants.
LEMMA WorkerGrants ==
    ASSUME LentInv, NEW i \in S!Slots, WorkerSteps(i)
    PROVE  /\ \A j \in S!Slots : slot'[j].threads = slot[j].threads
           /\ took' = IF Reading(Now(i)) THEN [took EXCEPT ![i] = slot[i].threads] ELSE took
<1>1. took' = IF Reading(Now(i)) THEN [took EXCEPT ![i] = slot[i].threads] ELSE took
    BY Zenon DEF WorkerSteps, Reading
<1>2. slot \in [S!Slots -> [threads: 0 .. NProcess, closed: BOOLEAN]]
    BY SameTree DEF LentInv, TrailInv, P!IInv, P!TypeOK
<1>3. CASE S!CloseSlot(i)
    BY <1>1, <1>2, <1>3 DEF S!CloseSlot
<1>4. CASE UNCHANGED program \/ S!Commit(i) \/ S!DeleteLeft(i) \/ S!Exit(i)
    BY <1>1, <1>4 DEF program, S!Commit, S!DeleteLeft, S!Exit
<1> QED BY <1>1, <1>3, <1>4, Zenon DEF WorkerSteps

\* A worker's line carries its own name, whatever cost it carries.
LEMMA RecordMine ==
    ASSUME TrailInv, NEW i \in Computing, Now(i).r # Silent
    PROVE  /\ Mine(tasks[i], Record(i))
           /\ Raises(Record(i)) => /\ at[i] + 1 \in 1 .. Len(Scripts[tasks[i]])
                                   /\ Reading(Scripts[tasks[i]][at[i] + 1])
<1> DEFINE n == tasks[i]
           r == Now(i).r
           x == Record(i)
<1>1. n \in Node /\ at[i] \in 1 .. Len(Scripts[n])
    BY ComputingFacts DEF TrailInv, ScriptsFollowed, Computing
<1>2. /\ Mine(n, r)
      /\ Raises(r) => at[i] + 1 \in 1 .. Len(Scripts[n]) /\ Reading(Scripts[n][at[i] + 1])
    BY <1>1, ScriptLines DEF ScriptReads, Now
<1>3. x = r \/ (r.fn = "node_process" /\ \E m : x = [r EXCEPT !.mem = m])
    BY DEF Record
<1> HIDE DEF x
<1>4. r.fn = "node_process" => {"fn", "pid", "key", "action"} \subseteq DOMAIN r
    <2>1. \A action : {"fn", "pid", "key", "action"} \subseteq DOMAIN NodeLine(n, action, 0)
        BY DEF NodeLine
    <2>2. at[i] = 1 \/ at[i] \in 2 .. Len(Scripts[n])
        BY <1>1
    <2>3. r = NodeLine(n, "begin", 0) \/ Later(n, Now(i))
        BY <1>1, <2>2, ScriptFacts DEF Now
    <2> QED BY <2>1, <2>3 DEF Later
<1> HIDE DEF r
<1>5. /\ x = r \/ (r.fn = "node_process" /\ x.fn = r.fn)
      /\ x.pid = r.pid /\ x.key = r.key /\ x.action = r.action
    BY <1>3, <1>4
<1>6. Mine(n, x)
    BY <1>2, <1>5, Zenon DEF Mine
<1>7. Raises(x) => Raises(r)
    BY <1>5, Zenon DEF Raises
<1> QED BY <1>2, <1>6, <1>7 DEF x, n

\* A line of a worker may put its whole grant in force, which it is about to take.
LEMMA WorkerStepsLent ==
    ASSUME LentInv, TrailInv', P!GInv', NEW i \in S!Slots, WorkerSteps(i)
    PROVE  LentInv'
<1> DEFINE n == tasks[i]
           raised == Now(i).r # Silent /\ Raises(Record(i))
<1>1. /\ TrailInv /\ P!IInv /\ LendingOK(st) /\ Unlent(st)
      /\ took \in [S!Slots -> Nat] /\ lost \in [run : Nat, all : Nat]
    BY DEF LentInv, TrailInv
<1>2. /\ tasks' = tasks /\ status' = status /\ out' = out
      /\ at' = [at EXCEPT ![i] = @ + 1]
      /\ i \in Computing /\ Computing' \subseteq Computing
    BY <1>1, WorkerMoves DEF Computing
<1>3. /\ S!Active' = S!Active /\ i \in S!Active /\ n \in Node /\ Begun(n)
      /\ \A j \in Computing \ {i} : tasks[j] \in Node \ {n}
      /\ \A m \in Node : Begun(m)' <=> Begun(m)
    BY <1>1, <1>2, ComputingFacts DEF S!Active, Begun, S!Slots
<1>4. /\ \A j \in S!Slots : slot'[j].threads = slot[j].threads /\ slot[j].threads \in Nat
      /\ took' = IF Reading(Now(i)) THEN [took EXCEPT ![i] = slot[i].threads] ELSE took
    BY <1>1, ComputingFacts, WorkerGrants
<1>5. /\ took' \in [S!Slots -> Nat]
      /\ took'[i] = InForce(i)
      /\ \A j \in Computing \ {i} : took'[j] = took[j]
    BY <1>1, <1>4 DEF InForce, Computing
<1>6. \A j \in Computing \ {i} : InForce(j)' = InForce(j)
    <2>1. \A j \in Computing \ {i} : j \in S!Slots /\ at'[j] = at[j]
        BY <1>1, <1>2 DEF Computing, TrailInv, ScriptsFollowed
    <2> QED BY <1>2, <1>4, <1>5, <2>1 DEF InForce, Now
<1>7. /\ InForce(i) \in Nat /\ InForce(i)' \in Nat /\ InForce(i) <= InForce(i)'
      /\ slot[i].threads \in Nat
      /\ 1 <= took'[i] /\ took'[i] <= slot[i].threads /\ took[i] <= took'[i]
    BY <1>2, <1>4, <1>5, InForceFacts DEF InForce
<1>8. raised => InForce(i)' = slot[i].threads
    <2> SUFFICES ASSUME raised PROVE InForce(i)' = slot[i].threads
        OBVIOUS
    <2>1. Reading(Scripts[n][at[i] + 1])
        BY <1>1, <1>2, RecordMine
    <2>2. at'[i] = at[i] + 1
        BY <1>1, <1>2 DEF TrailInv, ScriptsFollowed
    <2> QED BY <1>2, <1>4, <2>1, <2>2 DEF InForce, Now
<1>9. \/ st' = st /\ lost' = lost
      \/ st' = st /\ lost' = [run |-> lost.run + 1, all |-> lost.all + 1]
      \/ WorkerLends(st, st', n, raised) /\ lost' = lost
    <2>1. CASE Now(i).r = Silent
        BY <2>1 DEF WorkerSteps
    <2>2. CASE Now(i).r # Silent
        <3>1. Mine(n, Record(i))
            BY <1>1, <1>2, <2>2, RecordMine
        <3>2. ASSUME NEW ts, st' = FeedLine(st, Record(i), ts)
              PROVE  WorkerLends(st, st', n, Raises(Record(i)))
            BY <1>1, <1>3, <3>1, <3>2, FeedLineLends
        <3>3. ASSUME NEW ts, st' = FeedLine(st, Record(i), ts)
              PROVE  WorkerLends(st, st', n, raised)
            BY <2>2, <3>2, <3>3 DEF WorkerLends
        <3> QED BY <2>2, <3>3 DEF WorkerSteps, Feed
    <2> QED BY <2>1, <2>2
<1> HIDE DEF raised, n
<1>10. lost' \in [run : Nat, all : Nat] /\ (Whole' => Whole)
    BY <1>1, <1>9 DEF Whole
<1>11. WorkerLends(st, st', n, raised) \/ st' = st
    BY <1>9
<1>12. LendingOK(st') /\ Unlent(st')
    <2>1. CASE WorkerLends(st, st', n, raised)
        BY <1>1, <1>3, <2>1, StillUnlent DEF WorkerLends, Lends
    <2> QED BY <1>1, <1>11, <2>1
<1>13. ASSUME NEW j \in Computing'
       PROVE  /\ ShownFits(st', tasks[j], slot[j].threads, InForce(j)', Whole')
              /\ Started(st, tasks[j]) => Started(st', tasks[j])
    <2> DEFINE m == tasks[j]
               b == slot[j].threads
               f == InForce(j)
               f2 == InForce(j)'
               w == Whole
               w2 == Whole'
    <2>1. /\ j \in Computing /\ m \in Node /\ ShownFits(st, m, b, f, w) /\ (w2 => w)
          /\ b \in Nat /\ f \in Nat /\ f2 \in Nat /\ f <= f2
        <3>1. j \in Computing
            BY <1>2
        <3>2. ShownFits(st, m, b, f, w)
            BY <3>1 DEF LentInv, LentTo
        <3>3. b \in Nat /\ f \in Nat
            BY <3>1, InForceFacts
        <3>4. f2 \in Nat /\ f <= f2
            BY <1>6, <1>7, <3>1, <3>3
        <3>5. m \in Node
            BY <1>3, <3>1 DEF n
        <3> QED BY <1>10, <3>1, <3>2, <3>3, <3>4, <3>5
    <2>2. j # i => m \in Node \ {n}
        BY <1>3, <2>1
    <2>3. j = i => m = n /\ (raised => f2 = b)
        BY <1>8 DEF n
    <2> SUFFICES ShownFits(st', m, b, f2, w2) /\ (Started(st, m) => Started(st', m))
        OBVIOUS
    <2> HIDE DEF m, b, f, f2, w, w2
    <2>4. CASE st' = st
        <3>1. ShownFits(st, m, b, f2, w2)
            BY <1>1, <2>1 DEF ShownFits, LendingOK, Backs, Lent
        <3> QED BY <2>4, <3>1
    <2>5. CASE WorkerLends(st, st', n, raised) /\ j # i
        <3>1. Lends(st, st', {n})
            BY <2>5 DEF WorkerLends
        <3> QED BY <1>1, <2>1, <2>2, <2>5, <3>1, OtherFits
    <2>6. CASE WorkerLends(st, st', n, raised) /\ j = i
        <3>1. WorkerLends(st, st', m, raised) /\ (raised => f2 = b)
            BY <2>3, <2>6
        <3> QED BY <1>1, <2>1, <3>1, OwnFits
    <2> QED BY <1>11, <2>4, <2>5, <2>6
<1>14. ASSUME NEW j \in Computing' PROVE LentTo(j)'
    <2>0. j \in Computing /\ j \in S!Slots
        BY <1>2 DEF Computing
    <2>1. took'[j] \in 1 .. slot'[j].threads
        <3>1. CASE j = i
            BY <1>4, <1>5, <1>7, <2>0, <3>1
        <3>2. CASE j # i
            BY <1>4, <1>5, <2>0, <3>2 DEF LentInv, LentTo
        <3> QED BY <3>1, <3>2
    <2>2. ShownFits(st', tasks'[j], slot'[j].threads, InForce(j)', Whole')
        BY <1>2, <1>4, <1>13, <2>0
    <2>3. ASSUME Whole' PROVE Started(st', tasks'[j]) \/ StartPending(tasks[j])'
        <3>1. Started(st, tasks[j]) \/ StartPending(tasks[j])
            BY <1>10, <2>0, <2>3 DEF LentInv, LentTo
        <3>2. StartPending(tasks[j])' <=> StartPending(tasks[j])
            BY <1>2 DEF StartPending
        <3> QED BY <1>2, <1>13, <3>1, <3>2
    <2> QED BY <1>2, <2>1, <2>2, <2>3 DEF LentTo
<1>15. ASSUME NEW x \in Logged(out') PROVE Fits(x)'
    <2>1. Fits(x)
        BY <1>2 DEF LentInv
    <2>2. S!Active # {}
        BY <1>3
    <2>3. ASSUME NEW j \in Computing'
          PROVE  /\ took[j] <= took'[j] /\ slot[j].threads <= slot'[j].threads
                 /\ took'[j] \in Nat /\ slot'[j].threads \in Nat
                 /\ Whole' => Whole /\ (Started(st, tasks[j]) => Started(st', tasks[j]))
        <3>1. j \in Computing /\ j \in S!Slots
            BY <1>2 DEF Computing
        <3>2. slot[j].threads <= slot'[j].threads /\ slot'[j].threads \in Nat
            BY <1>4, <3>1
        <3>3. took[j] \in Nat /\ took[j] <= took'[j] /\ took'[j] \in Nat
            BY <1>5, <1>7, <3>1, InForceFacts
        <3> QED BY <1>10, <1>13, <3>2, <3>3
    <2> QED BY <1>2, <2>1, <2>2, <2>3, FitsStill
<1>16. Unlent(st)'
    BY <1>3, <1>12 DEF Unlent
<1>17. \A x \in Logged(out)' : Fits(x)'
    BY <1>15 DEF Logged
<1> QED BY <1>5, <1>10, <1>12, <1>14, <1>16, <1>17 DEF LentInv

-----------------------------------------------------------------------------
(* What the scheduler has to log, by kind.                                 *)

LEMMA KindsOfLines ==
    /\ \A n, p : /\ Starts(TaskLine("task_start", n, p))
                 /\ Donates(TaskLine("task_donate", n, p))
    /\ \A n : /\ Drops(StoredLine(n))
              /\ Drops([fn |-> "task_end", pid |-> n])
              /\ Drops([fn |-> "task_check_exit", pid |-> n])
    /\ \A n : Remarks(HaltLine(n)) /\ Remarks(RootLine(n))
    /\ \A a, v : Notes(SchedulerLine(a, v))
    /\ \A a, v : Configures([fn |-> "pi_tree", action |-> a, val |-> v])
    /\ \A r : Remarks(r) => Notes(r)
<1>1. ASSUME NEW r
      PROVE  /\ r.fn = "task_start" => Starts(r)
             /\ r.fn = "task_donate" => Donates(r)
             /\ r.fn = "node_process" /\ r.action = "already stored" => Drops(r)
             /\ r.fn = "task_end" => Drops(r)
             /\ r.fn = "task_check_exit" => Drops(r)
             /\ r.fn = "node_can_launch" => Remarks(r)
             /\ r.fn = "pi" => Remarks(r)
             /\ Remarks(r) => Notes(r)
             /\ r.fn = "scheduler" => Notes(r)
             /\ r.fn = "pi_tree" => Configures(r)
    BY Zenon DEF Starts, Donates, Drops, Notes, Remarks, Configures
<1>2. \A fn, n, p : TaskLine(fn, n, p).fn = fn
    BY DEF TaskLine
<1>3. \A n : StoredLine(n).fn = "node_process" /\ StoredLine(n).action = "already stored"
    BY DEF StoredLine, NodeLine
<1>4. \A n, fn : [fn |-> fn, pid |-> n].fn = fn
    OBVIOUS
<1>5. /\ \A n : HaltLine(n).fn = "node_can_launch" /\ RootLine(n).fn = "pi"
      /\ \A a, v : SchedulerLine(a, v).fn = "scheduler"
      /\ \A a, v : [fn |-> "pi_tree", action |-> a, val |-> v].fn = "pi_tree"
    BY DEF HaltLine, RootLine, SchedulerLine
<1>6. \A n, p : /\ Starts(TaskLine("task_start", n, p))
                /\ Donates(TaskLine("task_donate", n, p))
    BY <1>1, <1>2, Zenon
<1>7. \A n : /\ Drops(StoredLine(n))
             /\ Drops([fn |-> "task_end", pid |-> n])
             /\ Drops([fn |-> "task_check_exit", pid |-> n])
    BY <1>1, <1>3, <1>4, Zenon
<1>8. /\ \A n : Remarks(HaltLine(n)) /\ Remarks(RootLine(n))
      /\ \A a, v : Notes(SchedulerLine(a, v))
      /\ \A a, v : Configures([fn |-> "pi_tree", action |-> a, val |-> v])
      /\ \A r : Remarks(r) => Notes(r)
    BY <1>1, <1>5, Zenon
<1> QED BY <1>6, <1>7, <1>8, Zenon

LEMMA LineFields ==
    /\ \A fn, n, p : TaskLine(fn, n, p).pid = n /\ TaskLine(fn, n, p).thr = p.threads
    /\ \A n : StoredLine(n).pid = n
BY DEF TaskLine, StoredLine, NodeLine

LEMMA LinesOfRoot ==
    /\ \A r \in Logged(ShowLines) : Remarks(r)
    /\ \A r \in Logged(FinishLines) : Remarks(r)
<1>1. ASSUME NEW a, NEW b, NEW c
      PROVE  /\ \A r \in Logged(<<RootLine(a), RootLine(b)>>) : Remarks(r)
             /\ \A r \in Logged(<<RootLine(a), RootLine(b), RootLine(c)>>) : Remarks(r)
    <2>1. Remarks(RootLine(a)) /\ Remarks(RootLine(b)) /\ Remarks(RootLine(c))
        BY KindsOfLines, Zenon
    <2>2. \A x, y, z : Remarks(x) /\ Remarks(y) /\ Remarks(z) =>
            /\ \A r \in Logged(<<x, y>>) : Remarks(r)
            /\ \A r \in Logged(<<x, y, z>>) : Remarks(r)
        BY LoggedLines
    <2> QED BY <2>1, <2>2, Zenon
<1>2. \A r \in Logged(ShowLines) : Remarks(r)
    BY <1>1, Zenon DEF ShowLines
<1> DEFINE q == <<RootLine("binary split solved"), RootLine("dividing"), RootLine("divided")>>
<1>3. \A r \in Logged(q) : Remarks(r)
    BY <1>1, Zenon
<1>4. Quiet(q) /\ Quiet(ShowLines)
    <2>1. \A action \in PhaseActions : Quiet(<<RootLine(action)>>)
        BY RootLineQuiet
    <2>2. /\ Quiet(<<RootLine("binary split solved")>>)
          /\ Quiet(<<RootLine("dividing")>>)
          /\ Quiet(<<RootLine("divided")>>)
        BY <2>1, Zenon DEF PhaseActions
    <2>3. Quiet(<<RootLine("dividing"), RootLine("divided")>>)
        BY <2>2, QuietLines, Zenon
    <2> QED BY <2>2, <2>3, QuietLines, RootLinesQuiet, Zenon
<1>5. FinishLines = q \o ShowLines
    BY Zenon DEF FinishLines
<1> HIDE DEF q
<1>6. Logged(FinishLines) = Logged(q) \cup Logged(ShowLines)
    BY <1>4, <1>5, LoggedLines, Zenon
<1> QED BY <1>2, <1>3, <1>6

LEMMA LinesOfHalt == \A r \in Logged(HaltLines) : Remarks(r)
<1>1. HaltLines = << >> \/ \E reason : HaltLines = <<HaltLine(reason)>>
    BY DEF HaltLines
<1>2. \A reason : Logged(<<HaltLine(reason)>>) = {HaltLine(reason)} /\ Remarks(HaltLine(reason))
    BY LoggedLines, KindsOfLines, Zenon
<1>3. Logged(<< >>) = {}
    BY LoggedLines
<1> QED BY <1>1, <1>2, <1>3

LEMMA LinesOfConfig == \A r \in Logged(ConfigLines) : Configures(r)
<1> SUFFICES ASSUME NEW r \in Logged(ConfigLines) PROVE Configures(r)
    OBVIOUS
<1>1. PICK a, v : r = [fn |-> "pi_tree", action |-> a, val |-> v]
    BY DEF Logged, ConfigLines
<1>2. \A x, y : Configures([fn |-> "pi_tree", action |-> x, val |-> y])
    BY KindsOfLines, Zenon
<1> QED BY <1>1, <1>2

\* What a run logs ahead of its walk lends nothing.
LEMMA LinesOfFirst ==
    \A b : \A lines \in FirstLines(b) : \A r \in Logged(lines) :
        r \in Logged(ConfigLines) \/ Remarks(r) \/ Drops(r)
<1> DEFINE one == <<StoredLine(S!Root)>>
           two == <<RootLine("pi already stored")>>
<1>1. Quiet(ConfigLines) /\ Quiet(ShowLines) /\ Quiet(FinishLines) /\ Quiet(one) /\ Quiet(two)
    BY ConfigLinesQuiet, RootLinesQuiet, SchedulerLinesQuiet, RootLineQuiet, Zenon
       DEF PhaseActions
<1>2. /\ \A r \in Logged(one) : Drops(r)
      /\ \A r \in Logged(two) : Remarks(r)
    <2>1. Drops(StoredLine(S!Root)) /\ Remarks(RootLine("pi already stored"))
        BY KindsOfLines, Zenon
    <2>2. \A x : Drops(x) => \A r \in Logged(<<x>>) : Drops(r)
        BY LoggedLines
    <2>3. \A x : Remarks(x) => \A r \in Logged(<<x>>) : Remarks(r)
        BY LoggedLines
    <2>4. \A r \in Logged(one) : Drops(r)
        BY <2>1, <2>2, Zenon
    <2>5. \A r \in Logged(two) : Remarks(r)
        BY <2>1, <2>3, Zenon
    <2> QED BY <2>4, <2>5, Zenon
<1>3. \A b : \A lines \in FirstLines(b) :
        \/ lines = ConfigLines
        \/ lines = ConfigLines \o one \o FinishLines
        \/ lines = ConfigLines \o two \o ShowLines
    BY Zenon DEF FirstLines
<1> HIDE DEF one, two
<1>4. Logged(ConfigLines \o one \o FinishLines)
        = (Logged(ConfigLines) \cup Logged(one)) \cup Logged(FinishLines)
    <2>1. Quiet(ConfigLines \o one)
        BY <1>1, QuietLines, Zenon
    <2>2. Logged(ConfigLines \o one) = Logged(ConfigLines) \cup Logged(one)
        BY <1>1, LoggedLines, Zenon
    <2>3. Logged((ConfigLines \o one) \o FinishLines)
            = Logged(ConfigLines \o one) \cup Logged(FinishLines)
        BY <1>1, <2>1, LoggedLines, Zenon
    <2> QED BY <2>2, <2>3, Zenon
<1>5. Logged(ConfigLines \o two \o ShowLines)
        = (Logged(ConfigLines) \cup Logged(two)) \cup Logged(ShowLines)
    <2>1. Quiet(ConfigLines \o two)
        BY <1>1, QuietLines, Zenon
    <2>2. Logged(ConfigLines \o two) = Logged(ConfigLines) \cup Logged(two)
        BY <1>1, LoggedLines, Zenon
    <2>3. Logged((ConfigLines \o two) \o ShowLines)
            = Logged(ConfigLines \o two) \cup Logged(ShowLines)
        BY <1>1, <2>1, LoggedLines, Zenon
    <2> QED BY <2>2, <2>3, Zenon
<1>6. ASSUME NEW b, NEW lines \in FirstLines(b), NEW r \in Logged(lines)
      PROVE  r \in Logged(ConfigLines) \/ Remarks(r) \/ Drops(r)
    BY <1>2, <1>3, <1>4, <1>5, LinesOfRoot
<1> QED BY <1>6

\* The walk's lines are of nodes it has just found stored.
LEMMA LinesOfStored ==
    ASSUME P!TypeOK, NEW lines \in StoredLines, NEW r \in Logged(lines)
    PROVE  Drops(r) /\ r.pid \in Node /\ status'[r.pid] = "done"
<1> DEFINE found == {n \in Node : status[n] = "unmade" /\ status'[n] = "done"}
<1>1. PICK o \in SetToSeqs(found) : lines = [j \in DOMAIN o |-> StoredLine(o[j])]
    BY DEF StoredLines
<1>2. IsFiniteSet(found)
    <2>1. IsFiniteSet(Node)
        BY ProgramAssumption DEF S!NodeAssumption, S!IsFiniteSet, IsFiniteSet
    <2> QED BY <2>1, FS_Subset
<1>3. \A n \in found : n \in Node /\ status'[n] = "done"
    OBVIOUS
<1> HIDE DEF found
<1>4. o \in [1 .. Cardinality(found) -> found]
    BY <1>1, <1>2, FS_CardinalityType DEF SetToSeqs
<1>5. PICK j \in DOMAIN o : r = StoredLine(o[j])
    BY <1>1 DEF Logged
<1>6. PICK n : n = o[j]
    OBVIOUS
<1>7. n \in found
    BY <1>4, <1>5, <1>6
<1>8. Drops(StoredLine(n))
    BY KindsOfLines, Zenon
<1>9. StoredLine(n).pid = n
    BY LineFields
<1> QED BY <1>3, <1>5, <1>6, <1>7, <1>8, <1>9

-----------------------------------------------------------------------------
(* Steps that do not reach the dashboard.                                  *)

\* The books after a step.
LEMMA NewBooks ==
    ASSUME P!IInv', P!GInv'
    PROVE  /\ \A i \in S!Slots : slot'[i].threads \in Nat
           /\ \A i \in S!Active' :
                /\ i \in S!Slots /\ tasks'[i] \in Node
                /\ status'[tasks'[i]] = "processing"
                /\ slot'[i].threads = plan'[tasks'[i]].threads
                /\ plan'[tasks'[i]].threads \in Nat \ {0}
                /\ \A j \in S!Active' : j # i => tasks'[j] # tasks'[i]
           /\ \A i \in Computing' : i \in S!Active'
<1>0. P!Slots = S!Slots /\ P!Live = S!Live
    BY SameTree
<1>1. (P!Active)' = (S!Active)'
    BY <1>0 DEF P!Active, S!Active
<1>2. /\ tasks' \in [S!Slots -> Node \cup {NoNode}]
      /\ \A i \in S!Slots : slot'[i].threads \in Nat
      /\ \A n \in Node : plan'[n].threads \in Nat
    BY <1>0, ProgramAssumption DEF P!IInv, P!TypeOK, S!BudgetAssumption
<1>3. \A i \in (S!Active)' : i \in S!Slots /\ tasks'[i] \in Node
    BY <1>2 DEF S!Active
<1>4. \A i \in (S!Active)' :
        /\ status'[tasks'[i]] = "processing"
        /\ slot'[i].threads = plan'[tasks'[i]].threads
        /\ plan'[tasks'[i]].threads >= 1
        /\ \A j \in (S!Active)' : j # i => tasks'[j] # tasks'[i]
    BY <1>1 DEF P!IInv, P!TasksSeparate, P!PlansPositive, P!GInv, P!SlotIsPlan
<1>5. \A i \in Computing' : i \in (S!Active)'
    BY <1>0, <1>1 DEF P!IInv, P!TasksKnown, Computing, S!Live
<1> QED BY <1>2, <1>3, <1>4, <1>5

\* A worker goes on, or is new on a node that has not begun.
GoesOn(i) ==
    /\ i \in Computing
    /\ tasks'[i] = tasks[i] /\ at'[i] = at[i] /\ took'[i] = took[i]
    /\ slot[i].threads <= slot'[i].threads

IsNew(i) ==
    /\ tasks'[i] \in Node /\ ~Begun(tasks'[i])
    /\ took'[i] \in 1 .. slot'[i].threads
    /\ \E r \in Logged(out') : Starts(r) /\ r.pid = tasks'[i]

LEMMA StepLent ==
    ASSUME LentInv, TrailInv', P!GInv', st' = st, lost' = lost,
           took' \in [S!Slots -> Nat],
           \A n \in Node : Begun(n) => Begun(n)',
           Logged(out) \subseteq Logged(out'),
           \A i \in Computing' : GoesOn(i) \/ IsNew(i),
           \A r \in Logged(out') : Fits(r)'
    PROVE  LentInv'
<1>1. LendingOK(st) /\ Unlent(st) /\ lost \in [run : Nat, all : Nat]
    BY DEF LentInv
<1>2. \A i \in S!Slots : slot'[i].threads \in Nat
    BY NewBooks DEF TrailInv
<1>3. Unlent(st)'
    BY <1>1 DEF Unlent
<1>4. Whole' <=> Whole
    BY DEF Whole
<1>5. ASSUME NEW i \in Computing', GoesOn(i) PROVE LentTo(i)'
    <2> DEFINE n == tasks[i]
               b == slot[i].threads
               b2 == slot'[i].threads
               f == InForce(i)
               f2 == InForce(i)'
               w == Whole
    <2>1. i \in Computing /\ i \in S!Slots
        BY <1>5 DEF GoesOn, Computing
    <2>2. /\ tasks'[i] = n /\ b \in Nat /\ b2 \in Nat /\ b <= b2
          /\ f \in Nat /\ took[i] \in Nat /\ 1 <= took[i] /\ took[i] <= f /\ f <= b
          /\ took'[i] = took[i]
        BY <1>2, <1>5, <2>1, InForceFacts DEF GoesOn
    <2>3. f2 \in Nat /\ f <= f2
        <3>1. Now(i)' = Now(i)
            BY <1>5 DEF GoesOn, Now
        <3> QED BY <2>2, <3>1 DEF InForce
    <2>4. ShownFits(st, n, b, f, w) /\ (w => Started(st, n) \/ StartPending(n))
        BY <2>1 DEF LentInv, LentTo
    <2>5. StartPending(n) => StartPending(tasks[i])'
        BY <2>2 DEF StartPending
    <2>6. took'[i] \in 1 .. slot'[i].threads
        BY <2>2
    <2> SUFFICES /\ ShownFits(st, n, b2, f2, w)
                 /\ w => Started(st, n) \/ StartPending(tasks[i])'
        BY <1>4, <2>2, <2>6 DEF LentTo
    <2> HIDE DEF n, b, b2, f, f2, w
    <2>7. ShownFits(st, n, b2, f2, w)
        BY <1>1, <2>2, <2>3, <2>4 DEF ShownFits, LendingOK, Backs, Lent
    <2> QED BY <2>4, <2>5, <2>7 DEF n
<1>6. ASSUME NEW i \in Computing', IsNew(i) PROVE LentTo(i)'
    <2> DEFINE n == tasks'[i]
    <2>1. i \in S!Slots
        BY DEF Computing
    <2>2. /\ n \in Node /\ ~Begun(n)
          /\ took'[i] \in 1 .. slot'[i].threads /\ slot'[i].threads \in Nat
        BY <1>2, <1>6, <2>1 DEF IsNew
    <2>3. InForce(i)' \in Nat
        BY <2>2 DEF InForce
    <2>4. n \notin DOMAIN st.active
        BY <1>1, <2>2 DEF Unlent
    <2>5. KeyOf[n] \in DOMAIN st.tree =>
            /\ Lent(st.tree[KeyOf[n]])
            /\ Loans(st.tree[KeyOf[n]]) = NoLoans
        BY <1>1, <2>2 DEF Unlent, LendingOK
    <2>6. StartPending(tasks[i])'
        BY <1>6 DEF IsNew, StartPending
    <2>7. ShownFits(st, n, slot'[i].threads, InForce(i)', Whole')
        <3> DEFINE b2 == slot'[i].threads
                   f2 == InForce(i)'
                   w == Whole'
        <3>1. b2 \in Nat /\ f2 \in Nat
            BY <2>2, <2>3
        <3> SUFFICES ShownFits(st, n, b2, f2, w)
            OBVIOUS
        <3> HIDE DEF n, b2, f2, w
        <3> QED BY <2>4, <2>5, <3>1 DEF ShownFits, Backs, Lent, Loans, NoLoans
    <2> QED BY <2>2, <2>6, <2>7 DEF LentTo
<1>7. \A i \in Computing' : LentTo(i)'
    BY <1>5, <1>6
<1>8. \A r \in Logged(out)' : Fits(r)'
    BY DEF Logged
<1> QED BY <1>1, <1>3, <1>7, <1>8 DEF LentInv

\* A launch: the worker in slot i is new, on a node that had not begun.
Launches(i, n, lines) ==
    LET line == TaskLine("task_start", n, plan'[n])
    IN  /\ out = << >> /\ st' = st /\ lost' = lost
        /\ i \notin S!Active
        /\ n \in S!Taken /\ S!TaskStart(n, i) /\ ~Begun(n)
        /\ \A m \in Node : Begun(m) => Begun(m)'
        /\ i \in (S!Active)'
        /\ tasks'[i] = n /\ at'[i] = 1 /\ took'[i] = plan'[n].threads
        /\ phase'[i] = "run" /\ forked' = [forked EXCEPT ![i] = plan'[n]]
        /\ slot'[i].threads = took'[i] /\ took'[i] \in Nat \ {0}
        /\ took' \in [S!Slots -> Nat]
        /\ \A j \in S!Slots \ {i} : /\ tasks'[j] = tasks[j] /\ at'[j] = at[j]
                                    /\ took'[j] = took[j] /\ phase'[j] = phase[j]
                                    /\ slot'[j] = slot[j]
        /\ Starts(line) /\ line.pid = n /\ line.thr = took'[i]
        /\ Logged(out') = Logged(lines) \cup {line}

LEMMA LaunchFacts ==
    ASSUME LentInv, TrailInv', P!GInv', Launch
    PROVE  \E i \in S!Slots, n \in Node, lines \in StoredLines : Launches(i, n, lines)
<1> DEFINE i == S!FreeIndex
<1>0. TrailInv /\ P!IInv /\ P!IInv' /\ P!TypeOK
    BY DEF LentInv, TrailInv, P!IInv
<1>1. i \in S!Slots /\ i \notin S!Active
    BY P!FreeIndexType, ProgramAssumption, SameTree, SameBooks
       DEF Launch, S!Launch, S!NodeAssumption,
           S!BinaryAssumption, S!BudgetAssumption, S!CostAssumption, S!CacheAssumption,
           S!Root, P!Root, S!IsFiniteSet, P!IsFiniteSet
<1>2. PICK n \in S!Taken : S!TaskStart(n, i)
    BY DEF Launch, S!Launch
<1>3. /\ out = << >> /\ st' = st /\ lost' = lost
      /\ at' = [at EXCEPT ![i] = 1]
      /\ forked' = [forked EXCEPT ![i] = plan'[tasks'[i]]]
      /\ took' = [took EXCEPT ![i] = plan'[tasks'[i]].threads]
    BY DEF Launch
<1>4. PICK lines \in StoredLines :
        out' = lines \o <<TaskLine("task_start", tasks'[i], plan'[tasks'[i]])>>
    BY DEF Launch
<1> HIDE DEF i
<1>5. /\ tasks \in [S!Slots -> Node \cup {NoNode}]
      /\ phase \in [S!Slots -> P!Phases]
      /\ status \in [Node -> {"unmade", "open", "processing", "done"}]
      /\ took \in [S!Slots -> Nat] /\ at \in [S!Slots -> Nat]
      /\ slot \in [S!Slots -> [threads : 0 .. NProcess, closed : BOOLEAN]]
    BY <1>0, SameTree, WorkerFacts DEF LentInv, TrailInv, ScriptsFollowed, P!TypeOK
<1>6. /\ tasks' = [tasks EXCEPT ![i] = n]
      /\ phase' = [phase EXCEPT ![i] = "run"]
      /\ status' = [S!Walked EXCEPT ![n] = "processing"]
      /\ phase'[i] = "run" /\ \A j \in S!Slots \ {i} : slot'[j] = slot[j]
    BY <1>1, <1>2, <1>5 DEF S!TaskStart
<1>7. n \in Node /\ n \in S!Taken /\ ~Begun(n) /\ \A m \in Node : Begun(m) => Begun(m)'
    <2>1. n \in Node /\ n \in S!Taken /\ ~Begun(n)
        BY <1>0, WalkFacts
    <2> QED BY <1>0, <1>6, <2>1, WalkFacts DEF Begun
<1>8. /\ tasks'[i] = n /\ at'[i] = 1 /\ took'[i] = plan'[n].threads
      /\ \A j \in S!Slots \ {i} : /\ tasks'[j] = tasks[j] /\ at'[j] = at[j]
                                  /\ took'[j] = took[j] /\ phase'[j] = phase[j]
    BY <1>1, <1>3, <1>5, <1>6
<1>9. i \in (S!Active)'
    <2>1. "run" # "none" /\ phase'[i] = "run" /\ "run" \in S!Live
        BY <1>1, <1>5, <1>6 DEF S!Live
    <2>2. i \in Computing'
        BY <1>1, <2>1 DEF Computing, S!Live
    <2> QED BY <1>0, <2>2, NewBooks
<1>10. slot'[i].threads = took'[i] /\ took'[i] \in Nat \ {0}
    BY <1>0, <1>8, <1>9, NewBooks
<1>11. took' \in [S!Slots -> Nat]
    BY <1>3, <1>5, <1>8, <1>10
<1> DEFINE line == TaskLine("task_start", n, plan'[n])
<1>12. /\ Starts(line) /\ line.pid = n /\ line.thr = took'[i]
       /\ Logged(out') = Logged(lines) \cup {line}
    <2>1. Starts(line)
        BY KindsOfLines, Zenon
    <2>2. line.pid = n /\ line.thr = took'[i]
        BY <1>8, LineFields
    <2>3. Quiet(lines) /\ Quiet(<<line>>)
        BY <1>0, StoredLinesQuiet, SchedulerLinesQuiet, Zenon
    <2>4. Logged(<<line>>) = {line}
        BY LoggedLines, Zenon
    <2>5. Logged(lines \o <<line>>) = Logged(lines) \cup Logged(<<line>>)
        BY <2>3, LoggedLines, Zenon
    <2>6. out' = lines \o <<line>>
        BY <1>4, <1>8
    <2> HIDE DEF line
    <2>7. Logged(out') = Logged(lines) \cup {line}
        BY <2>4, <2>5, <2>6
    <2> QED BY <2>1, <2>2, <2>7
<1>13. forked' = [forked EXCEPT ![i] = plan'[n]]
    BY <1>3, <1>8
<1>14. phase'[i] = "run"
    BY <1>6
<1>15. \A j \in S!Slots \ {i} : slot'[j] = slot[j]
    BY <1>6
<1>16. Launches(i, n, lines)
    BY ONLY <1>1, <1>2, <1>3, <1>7, <1>8, <1>9, <1>10, <1>11, <1>12, <1>13, <1>14, <1>15
       DEF Launches
<1> QED BY <1>1, <1>4, <1>7, <1>16

LEMMA LaunchLent ==
    ASSUME LentInv, TrailInv', P!GInv', Launch
    PROVE  LentInv'
<1>0. TrailInv /\ P!IInv /\ P!IInv' /\ P!TypeOK
    BY DEF LentInv, TrailInv, P!IInv
<1>1. PICK i \in S!Slots, n \in Node, lines \in StoredLines : Launches(i, n, lines)
    BY LaunchFacts
<1> DEFINE line == TaskLine("task_start", n, plan'[n])
<1>3. /\ out = << >> /\ st' = st /\ lost' = lost
    BY <1>1 DEF Launches
<1>7. ~Begun(n) /\ \A m \in Node : Begun(m) => Begun(m)'
    BY <1>1 DEF Launches
<1>8. /\ tasks'[i] = n /\ at'[i] = 1 /\ took'[i] = plan'[n].threads
      /\ \A j \in S!Slots \ {i} : /\ tasks'[j] = tasks[j] /\ at'[j] = at[j]
                                  /\ took'[j] = took[j] /\ phase'[j] = phase[j]
                                  /\ slot'[j] = slot[j]
    BY <1>1 DEF Launches
<1>9. i \in (S!Active)'
    BY <1>1 DEF Launches
<1>10. slot'[i].threads = took'[i] /\ took'[i] \in Nat \ {0}
    BY <1>1 DEF Launches
<1>11. took' \in [S!Slots -> Nat]
    BY <1>1 DEF Launches
<1>12. /\ Starts(line) /\ line.pid = n /\ line.thr = took'[i]
       /\ Logged(out') = Logged(lines) \cup {line}
    BY <1>1 DEF Launches
<1> HIDE DEF line
<1>13. Logged(out) \subseteq Logged(out')
    BY <1>3, LoggedLines
<1>14. ASSUME NEW j \in Computing' PROVE GoesOn(j) \/ IsNew(j)
    <2>0. j \in S!Slots /\ phase'[j] \in S!Live
        BY DEF Computing, S!Live
    <2>1. CASE j = i
        <3>1. took'[j] \in 1 .. slot'[j].threads
            BY <1>10, <2>1
        <3>2. \E r \in Logged(out') : Starts(r) /\ r.pid = tasks'[j]
            BY <1>8, <1>12, <2>1
        <3> QED BY <1>7, <1>8, <2>1, <3>1, <3>2 DEF IsNew
    <2>2. CASE j # i
        <3>1. j \in Computing
            BY <1>8, <2>0, <2>2 DEF Computing
        <3>2. slot'[j].threads = slot[j].threads /\ slot[j].threads \in Nat
            BY <1>0, <1>8, <2>0, <2>2, ComputingFacts
        <3> QED BY <1>8, <2>0, <2>2, <3>1, <3>2 DEF GoesOn
    <2> QED BY <2>1, <2>2
<1>15. ASSUME NEW r \in Logged(out') PROVE Fits(r)'
    <2>1. CASE r = line
        <3>1. Charged(r)'
            BY <1>8, <1>9, <1>10, <1>12, <2>1 DEF Charged
        <3>2. \A j \in Computing' : r.pid = tasks'[j] => r.thr \in 1 .. took'[j]
            <4> SUFFICES ASSUME NEW j \in Computing', tasks'[j] = n PROVE j = i
                BY <1>10, <1>12, <2>1
            <4> QED BY <1>0, <1>8, <1>9, NewBooks
        <3> QED BY <1>12, <2>1, <3>1, <3>2 DEF Fits
    <2>2. CASE r \in Logged(lines)
        <3>1. Drops(r) /\ status'[r.pid] = "done"
            BY <1>0, <2>2, LinesOfStored
        <3>2. \A j \in Computing' : status'[tasks'[j]] = "processing"
            BY <1>0, NewBooks
        <3>3. \A j \in Computing' : r.pid # tasks'[j]
            BY <3>1, <3>2
        <3> QED BY <3>1, <3>3 DEF Fits
    <2> QED BY <1>12, <2>1, <2>2
<1> QED BY <1>3, <1>7, <1>11, <1>13, <1>14, <1>15, StepLent

\* A step that starts no worker, with the log written up.
LEMMA SettledLent ==
    ASSUME LentInv, TrailInv', P!GInv', st' = st, lost' = lost,
           took' \in [S!Slots -> Nat],
           \A n \in Node : Begun(n) => Begun(n)',
           out = << >> \/ Logged(out) \subseteq Logged(out'),
           \A i \in Computing' : GoesOn(i),
           \A r \in Logged(out') : Fits(r)'
    PROVE  LentInv'
<1>1. Logged(out) \subseteq Logged(out')
    BY LoggedLines
<1> QED BY <1>1, StepLent

LEMMA EndLaunchLent ==
    ASSUME LentInv, TrailInv', P!GInv', EndLaunch
    PROVE  LentInv'
<1>0. TrailInv /\ P!IInv /\ P!IInv' /\ P!TypeOK
    BY DEF LentInv, TrailInv, P!IInv
<1>1. /\ UNCHANGED <<tasks, at, took, st, lost, phase, slot>>
      /\ status' = status \/ status' = S!Walked
      /\ out = << >>
    BY DEF EndLaunch, S!EndLaunch, S!workers, workers
<1>2. \A m \in Node : Begun(m) => Begun(m)'
    BY <1>0, <1>1, WalkFacts DEF Begun
<1>3. \A j \in Computing' : GoesOn(j)
    BY <1>0, <1>1, ComputingFacts DEF GoesOn, Computing
<1>4. PICK lines \in StoredLines : out' = lines \o HaltLines
    BY DEF EndLaunch
<1>5. Logged(out') = Logged(lines) \cup Logged(HaltLines)
    <2>1. Quiet(lines) /\ Quiet(HaltLines)
        BY <1>0, StoredLinesQuiet, HaltLinesQuiet
    <2> QED BY <1>4, <2>1, LoggedLines, Zenon
<1>6. ASSUME NEW r \in Logged(out') PROVE Fits(r)'
    <2>1. CASE r \in Logged(HaltLines)
        BY <2>1, LinesOfHalt, KindsOfLines DEF Fits
    <2>2. CASE r \in Logged(lines)
        <3>1. Drops(r) /\ status'[r.pid] = "done"
            BY <1>0, <2>2, LinesOfStored
        <3>2. \A j \in Computing' : status'[tasks'[j]] = "processing"
            BY <1>0, NewBooks
        <3>3. \A j \in Computing' : r.pid # tasks'[j]
            BY <3>1, <3>2
        <3> QED BY <3>1, <3>3 DEF Fits
    <2> QED BY <1>5, <2>1, <2>2
<1> QED BY <1>1, <1>2, <1>3, <1>6, SettledLent DEF LentInv

LEMMA DonateLent ==
    ASSUME LentInv, TrailInv', P!GInv', Donate
    PROVE  LentInv'
<1>0. P!IInv /\ P!IInv' /\ P!GInv /\ took \in [S!Slots -> Nat]
    BY DEF LentInv, TrailInv
<1>1. out = << >> /\ UNCHANGED <<tasks, at, took, st, lost, phase, status>>
    <2>1. out = << >> /\ UNCHANGED <<workers, clock, lost, st>>
        BY Zenon DEF Donate
    <2>2. S!DonateLoad \/ S!DonateRefused \/ S!DonateAccepted \/ S!DonateEnd
        BY Zenon DEF Donate
    <2>3. UNCHANGED <<tasks, phase, status>>
        BY <2>2 DEF S!DonateLoad, S!DonateRefused, S!DonateAccepted, S!DonateEnd, S!workers
    <2> QED BY <2>1, <2>3 DEF workers
<1>2. /\ Computing' = Computing
      /\ \A i \in Computing : i \in S!Slots /\ slot[i].threads \in Nat
      /\ \A n \in Node : Begun(n) => Begun(n)'
    BY <1>0, <1>1, ComputingFacts DEF Computing, Begun, S!Slots
<1>3. \A i \in Computing : GoesOn(i) <=> slot[i].threads <= slot'[i].threads
    BY <1>1 DEF GoesOn
<1>4. CASE UNCHANGED slot /\ \A r \in Logged(out') : Notes(r)
    <2>1. \A i \in Computing' : GoesOn(i)
        BY <1>2, <1>3, <1>4
    <2>2. \A r \in Logged(out') : Fits(r)'
        BY <1>4 DEF Fits
    <2> QED BY <1>0, <1>1, <1>2, <2>1, <2>2, SettledLent
<1>5. CASE (S!DonateLoad \/ S!DonateRefused) /\ UNCHANGED out
    <2>1. UNCHANGED slot
        BY <1>5 DEF S!DonateLoad, S!DonateRefused
    <2> QED BY <1>1, <1>4, <1>5, <2>1, LoggedLines
<1>6. CASE /\ S!DonateEnd
           /\ out' = <<SchedulerLine("active processes", Cardinality(S!Active)),
                       SchedulerLine("active threads", total_threads),
                       SchedulerLine("active memory", total_mem_cost)>>
    <2>1. UNCHANGED slot
        BY <1>6, Zenon DEF S!DonateEnd
    <2>2. \A x, y, z : Notes(x) /\ Notes(y) /\ Notes(z) =>
            \A r \in Logged(<<x, y, z>>) : Notes(r)
        BY LoggedLines
    <2>3. \A a, v : Notes(SchedulerLine(a, v))
        BY KindsOfLines, Zenon
    <2>4. \A r \in Logged(out') : Notes(r)
        BY <1>6, <2>2, <2>3, Zenon
    <2> QED BY <1>4, <2>1, <2>4
<1>7. CASE /\ S!DonateAccepted
           /\ out' = <<TaskLine("task_donate", tasks[di], plan'[tasks[di]])>>
    <2> DEFINE n == tasks[di]
               line == TaskLine("task_donate", n, plan'[n])
    <2>1. PICK t : t = S!OfferThreads(n)
        OBVIOUS
    <2>2. /\ pc = "offer" /\ t > plan[n].threads
          /\ slot' = [slot EXCEPT ![di].threads = t]
        BY <1>7, <2>1 DEF S!DonateAccepted, S!OfferHolds
    <2>3. di \in S!Active /\ di \in S!Slots /\ (S!Active)' = S!Active
        BY <1>0, <1>1, <2>2, SameBooks DEF P!IInv, P!TasksKnown, S!Active, S!Slots
    <2>4. slot \in [S!Slots -> [threads : 0 .. NProcess, closed : BOOLEAN]]
        BY <1>0, SameTree DEF P!IInv, P!TypeOK
    <2>5. slot[di].threads = plan[n].threads
        BY <1>0, <2>3, SameBooks DEF P!GInv, P!SlotIsPlan
    <2>6. slot'[di].threads = t /\ \A i \in S!Slots \ {di} : slot'[i] = slot[i]
        BY <2>2, <2>3, <2>4
    <2>7. /\ slot'[di].threads = plan'[n].threads
          /\ plan'[n].threads \in Nat \ {0}
        BY <1>0, <1>1, <2>3, NewBooks
    <2>8. ASSUME NEW i \in Computing' PROVE GoesOn(i)
        <3>1. CASE i = di
            <4>1. slot[i].threads <= slot'[i].threads
                BY <1>2, <2>2, <2>5, <2>6, <2>7, <3>1
            <4> QED BY <1>2, <1>3, <4>1
        <3>2. CASE i # di
            <4>1. slot[i].threads <= slot'[i].threads
                BY <1>2, <2>6, <3>2
            <4> QED BY <1>2, <1>3, <4>1
        <3> QED BY <3>1, <3>2
    <2>9. Donates(line) /\ line.pid = n /\ line.thr = plan'[n].threads /\ Logged(out') = {line}
        <3>1. Donates(line)
            BY KindsOfLines, Zenon
        <3>2. line.pid = n /\ line.thr = plan'[n].threads
            BY LineFields
        <3>3. Logged(out') = {line}
            BY <1>7, LoggedLines, Zenon
        <3> HIDE DEF line
        <3> QED BY <3>1, <3>2, <3>3
    <2> HIDE DEF line
    <2>10. ASSUME NEW i \in Computing, tasks[i] = n
           PROVE  i = di /\ (Whole => Started(st, n))
        <3>1. i = di
            BY <1>0, <2>3, <2>10, ComputingFacts
        <3>2. ~StartPending(tasks[i])
            BY <1>1, LoggedLines DEF StartPending
        <3> QED BY <2>10, <3>1, <3>2 DEF LentInv, LentTo
    <2>11. ASSUME NEW r \in Logged(out') PROVE Fits(r)'
        <3>1. Donates(r) /\ r.pid = n /\ r.thr = plan'[n].threads
            BY <2>9
        <3>2. r.thr \in Nat /\ \E i \in (S!Active)' : r.pid = tasks'[i]
            BY <1>1, <2>3, <2>7, <3>1
        <3>3. ASSUME NEW i \in Computing', r.pid = tasks'[i]
              PROVE  /\ r.thr \in 1 .. slot'[i].threads
                     /\ Whole' => Started(st', tasks'[i])
            <4>1. i = di /\ (Whole => Started(st, n))
                BY <1>1, <1>2, <2>10, <3>1, <3>3
            <4> QED BY <1>1, <2>7, <3>1, <3>3, <4>1 DEF Whole
        <3> QED BY <3>1, <3>2, <3>3 DEF Fits, Charged
    <2> QED BY <1>0, <1>1, <1>2, <2>8, <2>11, SettledLent
<1> QED BY <1>5, <1>6, <1>7, Zenon DEF Donate

LEMMA ReapLent ==
    ASSUME LentInv, TrailInv', P!GInv', NEW i \in S!Slots, Reap(i)
    PROVE  LentInv'
<1>0. TrailInv /\ P!IInv /\ P!IInv' /\ took \in [S!Slots -> Nat] /\ at \in [S!Slots -> Nat]
    BY DEF LentInv, TrailInv, ScriptsFollowed
<1>1. out = << >> /\ UNCHANGED <<st, lost>>
    BY DEF Reap
<1>2. /\ tasks \in [S!Slots -> Node \cup {NoNode}]
      /\ phase \in [S!Slots -> P!Phases]
      /\ status \in [Node -> {"unmade", "open", "processing", "done"}]
    BY <1>0, WorkerFacts
<1>3. i \notin Computing /\ i \in S!Active
    <2>1. phase[i] \in {"exited", "failed"}
        BY DEF Reap, S!TaskEnd, S!TaskCheckExit
    <2>2. phase[i] \notin S!Live /\ phase[i] # "none"
        BY <2>1 DEF S!Live
    <2>3. i \in S!Active
        BY <1>0, <2>2, SameTree, SameBooks DEF P!IInv, P!TasksKnown
    <2> QED BY <2>2, <2>3 DEF Computing
<1>4. \A j \in Computing : /\ j \in S!Slots /\ slot[j].threads \in Nat
                           /\ tasks[j] # tasks[i]
    BY <1>0, <1>3, ComputingFacts
<1>5. CASE S!TaskEnd(i) /\ out' = <<[fn |-> "task_end", pid |-> tasks[i]]>> \o
                                    (IF tasks[i] = S!Root THEN FinishLines ELSE << >>)
                        /\ at' = [at EXCEPT ![i] = 0]
                        /\ took' = [took EXCEPT ![i] = 0]
    <2>1. /\ tasks' = [tasks EXCEPT ![i] = NoNode]
          /\ phase' = [phase EXCEPT ![i] = "none"]
          /\ status' = [status EXCEPT ![tasks[i]] = "done"]
          /\ slot' = slot
        BY <1>5 DEF S!TaskEnd
    <2>2. \A n \in Node : Begun(n) => Begun(n)'
        BY <1>2, <2>1 DEF Begun
    <2>3. took' \in [S!Slots -> Nat]
        BY <1>0, <1>5
    <2>4. ASSUME NEW j \in Computing' PROVE GoesOn(j) /\ tasks'[j] # tasks[i]
        <3>1. j \in S!Slots /\ phase'[j] \in S!Live
            BY DEF Computing, S!Live
        <3>2. j # i
            BY <1>2, <2>1, <3>1 DEF S!Live
        <3>3. /\ tasks'[j] = tasks[j] /\ phase'[j] = phase[j]
              /\ at'[j] = at[j] /\ took'[j] = took[j]
            BY <1>0, <1>2, <1>5, <2>1, <3>1, <3>2
        <3>4. j \in Computing
            BY <3>1, <3>3 DEF Computing
        <3> QED BY <1>4, <2>1, <3>3, <3>4 DEF GoesOn
    <2> DEFINE one == <<[fn |-> "task_end", pid |-> tasks[i]]>>
               rest == IF tasks[i] = S!Root THEN FinishLines ELSE << >>
    <2>5. Logged(out') = Logged(one) \cup Logged(rest)
        <3>1. Quiet(one) /\ Quiet(rest)
            BY SchedulerLinesQuiet, RootLinesQuiet, QuietLines, Zenon
        <3> QED BY <1>5, <3>1, LoggedLines, Zenon
    <2>6. \A r \in Logged(one) : Drops(r) /\ r.pid = tasks[i]
        <3> DEFINE line == [fn |-> "task_end", pid |-> tasks[i]]
        <3>1. Drops(line)
            BY KindsOfLines, Zenon
        <3>2. line.pid = tasks[i]
            OBVIOUS
        <3>3. Logged(one) = {line}
            BY LoggedLines, Zenon
        <3> HIDE DEF line, one
        <3> QED BY <3>1, <3>2, <3>3
    <2>7. \A r \in Logged(rest) : Notes(r)
        BY LinesOfRoot, LoggedLines, KindsOfLines
    <2> HIDE DEF one, rest
    <2>8. ASSUME NEW r \in Logged(out') PROVE Fits(r)'
        <3>1. CASE r \in Logged(one)
            BY <2>4, <2>6, <3>1 DEF Fits
        <3>2. CASE r \in Logged(rest)
            BY <2>7, <3>2 DEF Fits
        <3> QED BY <2>5, <3>1, <3>2
    <2> QED BY <1>1, <2>2, <2>3, <2>4, <2>8, SettledLent
<1>6. CASE S!TaskCheckExit(i) /\ out' = <<[fn |-> "task_check_exit", pid |-> tasks[i]]>>
                              /\ UNCHANGED workers
    <2>1. UNCHANGED <<tasks, at, took, phase, status, slot>>
        BY <1>6 DEF S!TaskCheckExit, S!workers, workers
    <2>2. /\ \A n \in Node : Begun(n) => Begun(n)'
          /\ Computing' = Computing
          /\ \A j \in Computing : GoesOn(j)
        BY <1>4, <2>1 DEF Begun, Computing, GoesOn
    <2> DEFINE line == [fn |-> "task_check_exit", pid |-> tasks[i]]
    <2>3. Drops(line)
        BY KindsOfLines, Zenon
    <2>4. line.pid = tasks[i]
        OBVIOUS
    <2>5. Logged(out') = {line}
        BY <1>6, LoggedLines, Zenon
    <2> HIDE DEF line
    <2>6. ASSUME NEW r \in Logged(out') PROVE Fits(r)'
        BY <1>4, <2>1, <2>2, <2>3, <2>4, <2>5 DEF Fits
    <2> QED BY <1>0, <1>1, <2>1, <2>2, <2>6, SettledLent
<1> QED BY <1>5, <1>6 DEF Reap

LEMMA DiesLent ==
    ASSUME LentInv, TrailInv', P!GInv', Dies
    PROVE  LentInv'
<1>0. TrailInv /\ P!IInv /\ took \in [S!Slots -> Nat]
    BY DEF LentInv, TrailInv
<1>1. UNCHANGED <<tasks, at, took, st, lost, status, slot>>
    BY DEF Dies, S!WorkerDies, S!Crash, S!sched, workers
<1>2. phase \in [S!Slots -> P!Phases] /\ "failed" \notin S!Live
    BY <1>0, WorkerFacts DEF S!Live
<1>3. Computing' \subseteq Computing /\ (out' = out \/ (out' = << >> /\ Computing' = {}))
    <2>1. CASE \E j \in S!Slots : S!WorkerDies(j) /\ UNCHANGED out
        BY <1>2, <2>1 DEF S!WorkerDies, Computing, S!Live, S!Slots
    <2>2. CASE S!Crash /\ out' = << >>
        BY <1>2, <2>2 DEF S!Crash, Computing, S!Live, S!Slots
    <2> QED BY <2>1, <2>2 DEF Dies
<1>4. /\ \A n \in Node : Begun(n) => Begun(n)'
      /\ \A j \in Computing' : GoesOn(j)
    <2>1. \A j \in Computing : slot[j].threads \in Nat
        BY <1>0, ComputingFacts
    <2> QED BY <1>1, <1>3, <2>1 DEF Begun, GoesOn
<1>5. CASE out' = out
    <2>1. \A j \in Computing : took[j] \in Nat /\ slot[j].threads \in Nat
        BY InForceFacts
    <2>2. ASSUME NEW r \in Logged(out') PROVE Fits(r)'
        <3>1. Fits(r)
            BY <1>5 DEF LentInv
        <3>2. \A j \in Computing' :
                /\ took[j] <= took'[j] /\ slot[j].threads <= slot'[j].threads
                /\ took'[j] \in Nat /\ slot'[j].threads \in Nat
                /\ Whole' => Whole /\ (Started(st, tasks[j]) => Started(st', tasks[j]))
            BY <1>1, <1>3, <2>1 DEF Whole
        <3> QED BY <1>1, <1>3, <3>1, <3>2, FitsStill
    <2> QED BY <1>0, <1>1, <1>4, <1>5, <2>2, SettledLent
<1>6. CASE out' = << >> /\ Computing' = {}
    <2>1. \A r \in Logged(out') : Fits(r)'
        BY <1>6, LoggedLines
    <2>2. LendingOK(st') /\ Unlent(st)' /\ lost' \in [run : Nat, all : Nat]
        BY <1>1, <1>4 DEF LentInv, Unlent
    <2>3. \A r \in Logged(out)' : Fits(r)'
        BY <2>1 DEF Logged
    <2> QED BY <1>0, <1>1, <1>6, <2>2, <2>3 DEF LentInv
<1> QED BY <1>3, <1>5, <1>6

\* A screen that has just been cleared shows nothing lent.
LEMMA FreshLent ==
    ASSUME NEW config
    PROVE  LET s == FreshState(config)
           IN  LendingOK(s) /\ DOMAIN s.active = {} /\ DOMAIN s.tree = {}
<1> DEFINE s == FreshState(config)
<1>1. /\ {"tree", "active"} \subseteq DOMAIN s
      /\ s.active = << >> /\ s.tree = NoTree
    BY DEF FreshState
<1> HIDE DEF s
<1>2. DOMAIN s.active = {} /\ DOMAIN s.tree = {}
    BY <1>1 DEF NoTree
<1>3. LendingOK(s)
    BY <1>1, <1>2 DEF LendingOK
<1> QED BY <1>2, <1>3 DEF s

LEMMA RestartLent ==
    ASSUME LentInv, TrailInv', P!GInv', Restart
    PROVE  LentInv'
<1>1. /\ LendingOK(st') /\ DOMAIN st'.active = {} /\ DOMAIN st'.tree = {}
    BY FreshLent DEF Restart
<1>2. /\ tasks' = [i \in S!Slots |-> NoNode] /\ phase' = [i \in S!Slots |-> "none"]
      /\ took' = [i \in S!Slots |-> 0]
      /\ lost' = [lost EXCEPT !.run = 0]
    BY DEF Restart, S!Restart, NewWorkers
<1>3. Computing' = {} /\ (S!Active)' = {}
    BY <1>2 DEF Computing, S!Live, S!Active
<1>4. \A r \in Logged(out)' : Configures(r) \/ Notes(r) \/ Drops(r)
    BY LinesOfFirst, LinesOfConfig, KindsOfLines DEF Restart, Logged
<1>5. \A r \in Logged(out)' : Fits(r)'
    BY <1>1, <1>3, <1>4 DEF Fits
<1>6. Unlent(st)'
    BY <1>1 DEF Unlent
<1>7. took' \in [S!Slots -> Nat] /\ lost' \in [run : Nat, all : Nat]
    BY <1>2 DEF LentInv
<1> QED BY <1>1, <1>3, <1>5, <1>6, <1>7 DEF LentInv

LEMMA InitLent == Init => LentInv
<1> SUFFICES ASSUME Init PROVE LentInv
    OBVIOUS
<1>1. /\ LendingOK(st) /\ DOMAIN st.active = {} /\ DOMAIN st.tree = {}
    BY FreshLent DEF Init
<1>2. /\ tasks = [i \in S!Slots |-> NoNode] /\ phase = [i \in S!Slots |-> "none"]
      /\ took = [i \in S!Slots |-> 0]
      /\ lost = [run |-> 0, all |-> 0]
    BY DEF Init, S!Init, NewWorkers
<1>3. Computing = {} /\ S!Active = {}
    BY <1>2 DEF Computing, S!Live, S!Active
<1>4. \A r \in Logged(out) : Configures(r) \/ Notes(r) \/ Drops(r)
    BY LinesOfFirst, LinesOfConfig, KindsOfLines DEF Init
<1>5. \A r \in Logged(out) : Fits(r)
    BY <1>1, <1>3, <1>4 DEF Fits
<1>6. Unlent(st)
    BY <1>1 DEF Unlent
<1>7. took \in [S!Slots -> Nat] /\ lost \in [run : Nat, all : Nat]
    BY <1>2
<1>8. TrailInv /\ P!GInv
    <2>1. P!Init => P!GInv
        BY P!GrantInit, ProgramAssumption
           DEF S!Root, P!Root, S!IsFiniteSet, P!IsFiniteSet, S!NodeAssumption,
               S!BinaryAssumption, S!BudgetAssumption, S!CostAssumption, S!CacheAssumption
    <2> QED BY <2>1, InitTrail, ProgramInit
<1> QED BY <1>1, <1>3, <1>5, <1>6, <1>7, <1>8 DEF LentInv

LEMMA NextLent == LentInv /\ [Next]_vars => LentInv'
<1> SUFFICES ASSUME LentInv, [Next]_vars PROVE LentInv'
    OBVIOUS
<1>0. TrailInv' /\ P!GInv'
    <2>1. TrailInv'
        BY NextTrail DEF LentInv
    <2>2. P!IInv /\ P!GInv /\ [P!Next]_(P!vars)
        BY ProgramStep DEF LentInv, TrailInv
    <2>3. P!GInv'
        BY <2>2, P!GrantStep, ProgramAssumption
           DEF S!Root, P!Root, S!IsFiniteSet, P!IsFiniteSet, S!NodeAssumption,
               S!BinaryAssumption, S!BudgetAssumption, S!CostAssumption, S!CacheAssumption
    <2> QED BY <2>1, <2>3
<1>1. CASE SchedulerLogs
    BY <1>0, <1>1, SchedulerLogsLent
<1>2. CASE Launch
    BY <1>0, <1>2, LaunchLent
<1>3. CASE EndLaunch
    BY <1>0, <1>3, EndLaunchLent
<1>4. CASE Donate
    BY <1>0, <1>4, DonateLent
<1>5. ASSUME NEW i \in S!Slots, WorkerSteps(i) PROVE LentInv'
    BY <1>0, <1>5, WorkerStepsLent
<1>6. ASSUME NEW i \in S!Slots, Reap(i) PROVE LentInv'
    BY <1>0, <1>6, ReapLent
<1>7. CASE Dies
    BY <1>0, <1>7, DiesLent
<1>8. CASE Restart
    BY <1>0, <1>8, RestartLent
<1>9. CASE UNCHANGED <<program, out, workers, lost, st>>
    <2>1. UNCHANGED <<tasks, status, phase, slot, at, took, out, lost, st>>
        BY <1>9 DEF program, workers
    <2>2. Computing' = Computing /\ \A n \in Node : Begun(n) => Begun(n)'
        BY <2>1 DEF Computing, Begun
    <2>3. \A i \in Computing : took[i] \in Nat /\ slot[i].threads \in Nat
        BY InForceFacts
    <2>4. ASSUME NEW r \in Logged(out') PROVE Fits(r)'
        <3>1. Fits(r)
            BY <2>1 DEF LentInv
        <3>2. \A i \in Computing' :
                /\ took[i] <= took'[i] /\ slot[i].threads <= slot'[i].threads
                /\ took'[i] \in Nat /\ slot'[i].threads \in Nat
                /\ Whole' => Whole /\ (Started(st, tasks[i]) => Started(st', tasks[i]))
            BY <2>1, <2>2, <2>3 DEF Whole
        <3> QED BY <2>1, <2>2, <3>1, <3>2, FitsStill
    <2>5. \A i \in Computing' : GoesOn(i)
        BY <2>1, <2>2, <2>3 DEF GoesOn
    <2>6. took' \in [S!Slots -> Nat]
        BY <2>1 DEF LentInv
    <2> QED BY <1>0, <2>1, <2>2, <2>4, <2>5, <2>6, SettledLent
<1>10. CASE Tick \/ AllShown \/ UNCHANGED vars
    BY <1>9, <1>10 DEF Tick, AllShown, vars
<1> QED BY <1>1, <1>2, <1>3, <1>4, <1>5, <1>6, <1>7, <1>8, <1>10 DEF Next

\* A worker is never shown computing with threads it has not taken, nor expected to
\* keep more cores busy than it has: what the dashboard puts in force when "task
\* start" is read is what the worker was forked with, and what "multiplying" puts in
\* force, whatever has been donated by then, is what the worker takes next
\* (dashboard.py:983-991, 1042-1050, 1283-1295).
THEOREM LiveWithinGrants == Spec => []LiveNeverOverstated
<1>1. LentInv => LiveNeverOverstated
    <2> SUFFICES ASSUME LentInv, NEW i \in S!Slots,
                        tasks[i] \in DOMAIN st.active, Alive(i)
                 PROVE  LET e == st.active[tasks[i]]
                            f == InForce(i)
                        IN  /\ e.threads_live <= f
                            /\ Whole /\ e.node # NoKey =>
                                    ExpectedThreads(st.tree[e.node]) <= f
        BY DEF LiveNeverOverstated, InForce, Reading
    <2> DEFINE n == tasks[i]
               e == st.active[n]
               x == st.tree[KeyOf[n]]
               b == slot[i].threads
               f == InForce(i)
    <2>1. i \in Computing
        BY DEF Alive, Computing
    <2>2. f \in Nat /\ 1 <= f
        BY <2>1, InForceFacts
    <2>3. LendingOK(st) /\ ShownFits(st, n, b, f, Whole)
        BY <2>1 DEF LentInv, LentTo
    <2>4. e.threads_live <= f
        BY <2>3 DEF ShownFits, Backs
    <2>5. ASSUME Whole, e.node # NoKey PROVE ExpectedThreads(st.tree[e.node]) <= f
        <3>1. st.tree[e.node] = x /\ Lent(x) /\ Backs(b, f, TRUE, x)
            BY <2>3, <2>5 DEF LendingOK, ShownFits
        <3> HIDE DEF x
        <3>2. x.threads = 0 \/ EntryThreads(x) <= f
            BY <3>1 DEF EntryThreads, Backs, Lent
        <3>3. ExpectedThreads(x) \in {0, 1} \/
                (x.threads # 0 /\ ExpectedThreads(x) = EntryThreads(x))
            BY DEF ExpectedThreads
        <3>4. ExpectedThreads(x) <= f
            <4> HIDE DEF f
            <4> QED BY <2>2, <3>2, <3>3
        <3> QED BY <3>1, <3>4
    <2> QED BY <2>4, <2>5
<1> QED BY <1>1, InitLent, NextLent, PTL DEF Spec

-----------------------------------------------------------------------------
(* Sums over the entries.                                                  *)

Waiting(e) == IF e.micro = "locking" THEN EntryThreads(e) ELSE 0

Idle(e) == IF IsSingleThreadPhase(e.micro) /\ EntryThreads(e) # 0
           THEN EntryThreads(e) - 1 ELSE 0

LEMMA EntryThreadsSum ==
    ASSUME NEW s, IsFiniteSet(DOMAIN s.active)
    PROVE  LET D == DOMAIN s.active
           IN  \E h : /\ Sums(h, [p \in D |-> EntryThreads(s.active[p])], D)
                      /\ SumOfEntries(s, EntryThreads) = h[D]
<1> DEFINE D == DOMAIN s.active
           f == [p \in D |-> EntryThreads(s.active[p])]
           Turn(g) == [T \in SUBSET D |->
                        IF T = {} THEN 0
                        ELSE LET x == CHOOSE x \in T : TRUE
                             IN  EntryThreads(s.active[x]) + g[T \ {x}]]
           iter == CHOOSE g : g = Turn(g)
<1>1. ASSUME NEW g PROVE Sums(g, f, D) <=> g = Turn(g)
    <2>1. \A T \in SUBSET D : T # {} => Chosen(T) \in D
        BY DEF Chosen
    <2>2. \A T \in SUBSET D : T # {} => f[Chosen(T)] = EntryThreads(s.active[Chosen(T)])
        BY <2>1
    <2> DEFINE Summed(T) == IF T = {} THEN 0 ELSE f[Chosen(T)] + g[T \ {Chosen(T)}]
               Coded(T) == IF T = {} THEN 0
                           ELSE EntryThreads(s.active[Chosen(T)]) + g[T \ {Chosen(T)}]
    <2>3. \A T \in SUBSET D : Summed(T) = Coded(T)
        <3> HIDE DEF f, D
        <3> QED BY <2>2
    <2>4. Sums(g, f, D) <=> g = [T \in SUBSET D |-> Summed(T)]
        BY DEF Sums
    <2>5. g = Turn(g) <=> g = [T \in SUBSET D |-> Coded(T)]
        BY DEF Chosen
    <2> HIDE DEF Summed, Coded, Turn, D, f
    <2>6. [T \in SUBSET D |-> Summed(T)] = [T \in SUBSET D |-> Coded(T)]
        BY <2>3
    <2> QED BY <2>4, <2>5, <2>6
<1>2. \E h : Sums(h, f, D)
    <2> HIDE DEF f
    <2> QED BY SumsExist
<1>3. iter = Turn(iter)
    <2> HIDE DEF Turn, f, D
    <2> QED BY <1>1, <1>2
<1>4. SumOfEntries(s, EntryThreads) = iter[D]
    BY DEF SumOfEntries, MapThenSumSet, MapThenFoldSet
<1> HIDE DEF iter
<1>5. Sums(iter, f, D)
    <2> HIDE DEF Turn, f, D
    <2> QED BY <1>1, <1>3
<1> QED BY <1>4, <1>5

LEMMA ThreadsSum ==
    ASSUME NEW s, IsFiniteSet(DOMAIN s.active)
    PROVE  LET D == DOMAIN s.active
           IN  \E h : /\ Sums(h, [p \in D |-> s.active[p].threads], D)
                      /\ SumOfEntries(s, LAMBDA e : e.threads) = h[D]
<1> DEFINE D == DOMAIN s.active
           f == [p \in D |-> s.active[p].threads]
           Turn(g) == [T \in SUBSET D |->
                        IF T = {} THEN 0
                        ELSE LET x == CHOOSE x \in T : TRUE
                             IN  s.active[x].threads + g[T \ {x}]]
           iter == CHOOSE g : g = Turn(g)
<1>1. ASSUME NEW g PROVE Sums(g, f, D) <=> g = Turn(g)
    <2>1. \A T \in SUBSET D : T # {} => Chosen(T) \in D
        BY DEF Chosen
    <2>2. \A T \in SUBSET D : T # {} => f[Chosen(T)] = s.active[Chosen(T)].threads
        BY <2>1
    <2> DEFINE Summed(T) == IF T = {} THEN 0 ELSE f[Chosen(T)] + g[T \ {Chosen(T)}]
               Coded(T) == IF T = {} THEN 0
                           ELSE s.active[Chosen(T)].threads + g[T \ {Chosen(T)}]
    <2>3. \A T \in SUBSET D : Summed(T) = Coded(T)
        <3> HIDE DEF f, D
        <3> QED BY <2>2
    <2>4. Sums(g, f, D) <=> g = [T \in SUBSET D |-> Summed(T)]
        BY DEF Sums
    <2>5. g = Turn(g) <=> g = [T \in SUBSET D |-> Coded(T)]
        BY DEF Chosen
    <2> HIDE DEF Summed, Coded, Turn, D, f
    <2>6. [T \in SUBSET D |-> Summed(T)] = [T \in SUBSET D |-> Coded(T)]
        BY <2>3
    <2> QED BY <2>4, <2>5, <2>6
<1>2. \E h : Sums(h, f, D)
    <2> HIDE DEF f
    <2> QED BY SumsExist
<1>3. iter = Turn(iter)
    <2> HIDE DEF Turn, f, D
    <2> QED BY <1>1, <1>2
<1>4. SumOfEntries(s, LAMBDA e : e.threads) = iter[D]
    BY DEF SumOfEntries, MapThenSumSet, MapThenFoldSet
<1> HIDE DEF iter
<1>5. Sums(iter, f, D)
    <2> HIDE DEF Turn, f, D
    <2> QED BY <1>1, <1>3
<1> QED BY <1>4, <1>5

LEMMA WaitingSum ==
    ASSUME NEW s, IsFiniteSet(DOMAIN s.active)
    PROVE  LET D == DOMAIN s.active
           IN  \E h : /\ Sums(h, [p \in D |-> Waiting(s.active[p])], D)
                      /\ BlockedThreads(s)[1] = h[D]
<1> DEFINE D == DOMAIN s.active
           f == [p \in D |-> Waiting(s.active[p])]
           Turn(g) == [T \in SUBSET D |->
                        IF T = {} THEN 0
                        ELSE LET x == CHOOSE x \in T : TRUE
                             IN  Waiting(s.active[x]) + g[T \ {x}]]
           iter == CHOOSE g : g = Turn(g)
<1>1. ASSUME NEW g PROVE Sums(g, f, D) <=> g = Turn(g)
    <2>1. \A T \in SUBSET D : T # {} => Chosen(T) \in D
        BY DEF Chosen
    <2>2. \A T \in SUBSET D : T # {} => f[Chosen(T)] = Waiting(s.active[Chosen(T)])
        BY <2>1
    <2> DEFINE Summed(T) == IF T = {} THEN 0 ELSE f[Chosen(T)] + g[T \ {Chosen(T)}]
               Coded(T) == IF T = {} THEN 0
                           ELSE Waiting(s.active[Chosen(T)]) + g[T \ {Chosen(T)}]
    <2>3. \A T \in SUBSET D : Summed(T) = Coded(T)
        <3> HIDE DEF f, D
        <3> QED BY <2>2
    <2>4. Sums(g, f, D) <=> g = [T \in SUBSET D |-> Summed(T)]
        BY DEF Sums
    <2>5. g = Turn(g) <=> g = [T \in SUBSET D |-> Coded(T)]
        BY DEF Chosen
    <2> HIDE DEF Summed, Coded, Turn, D, f
    <2>6. [T \in SUBSET D |-> Summed(T)] = [T \in SUBSET D |-> Coded(T)]
        BY <2>3
    <2> QED BY <2>4, <2>5, <2>6
<1>2. \E h : Sums(h, f, D)
    <2> HIDE DEF f
    <2> QED BY SumsExist
<1>3. iter = Turn(iter)
    <2> HIDE DEF Turn, f, D
    <2> QED BY <1>1, <1>2
<1>4. BlockedThreads(s)[1] = iter[D]
    BY DEF BlockedThreads, Waiting, SumOfEntries, MapThenSumSet, MapThenFoldSet
<1> HIDE DEF iter
<1>5. Sums(iter, f, D)
    <2> HIDE DEF Turn, f, D
    <2> QED BY <1>1, <1>3
<1> QED BY <1>4, <1>5

LEMMA IdleSum ==
    ASSUME NEW s, IsFiniteSet(DOMAIN s.active)
    PROVE  LET D == DOMAIN s.active
           IN  \E h : /\ Sums(h, [p \in D |-> Idle(s.active[p])], D)
                      /\ BlockedThreads(s)[2] = h[D]
<1> DEFINE D == DOMAIN s.active
           f == [p \in D |-> Idle(s.active[p])]
           Turn(g) == [T \in SUBSET D |->
                        IF T = {} THEN 0
                        ELSE LET x == CHOOSE x \in T : TRUE
                             IN  Idle(s.active[x]) + g[T \ {x}]]
           iter == CHOOSE g : g = Turn(g)
<1>1. ASSUME NEW g PROVE Sums(g, f, D) <=> g = Turn(g)
    <2>1. \A T \in SUBSET D : T # {} => Chosen(T) \in D
        BY DEF Chosen
    <2>2. \A T \in SUBSET D : T # {} => f[Chosen(T)] = Idle(s.active[Chosen(T)])
        BY <2>1
    <2> DEFINE Summed(T) == IF T = {} THEN 0 ELSE f[Chosen(T)] + g[T \ {Chosen(T)}]
               Coded(T) == IF T = {} THEN 0
                           ELSE Idle(s.active[Chosen(T)]) + g[T \ {Chosen(T)}]
    <2>3. \A T \in SUBSET D : Summed(T) = Coded(T)
        <3> HIDE DEF f, D
        <3> QED BY <2>2
    <2>4. Sums(g, f, D) <=> g = [T \in SUBSET D |-> Summed(T)]
        BY DEF Sums
    <2>5. g = Turn(g) <=> g = [T \in SUBSET D |-> Coded(T)]
        BY DEF Chosen
    <2> HIDE DEF Summed, Coded, Turn, D, f
    <2>6. [T \in SUBSET D |-> Summed(T)] = [T \in SUBSET D |-> Coded(T)]
        BY <2>3
    <2> QED BY <2>4, <2>5, <2>6
<1>2. \E h : Sums(h, f, D)
    <2> HIDE DEF f
    <2> QED BY SumsExist
<1>3. iter = Turn(iter)
    <2> HIDE DEF Turn, f, D
    <2> QED BY <1>1, <1>2
<1>4. BlockedThreads(s)[2] = iter[D]
    BY DEF BlockedThreads, Idle, SumOfEntries, MapThenSumSet, MapThenFoldSet
<1> HIDE DEF iter
<1>5. Sums(iter, f, D)
    <2> HIDE DEF Turn, f, D
    <2> QED BY <1>1, <1>3
<1> QED BY <1>4, <1>5

-----------------------------------------------------------------------------
(* The fields of a State that a record changes.                            *)

StateFields == DOMAIN FreshState(<< >>)

\* The fields the averages are kept in.
ClockFields == {"threads_seen", "thread_time", "booked_time", "thread_span",
                "thread_last_ts", "n_process_logged", "threads_reported"}

LEMMA FieldsOfState ==
    /\ ClockFields \subseteq StateFields
    /\ {"halt", "active_max", "mem_booked", "mem_launch", "mem_max", "active", "tree",
        "phase", "done"} \subseteq StateFields
    /\ \A c : DOMAIN FreshState(c) = StateFields
BY DEF StateFields, FreshState, ClockFields

Only(s, u, fields) ==
    /\ DOMAIN u = DOMAIN s
    /\ \A f \in DOMAIN s \ fields : u[f] = s[f]

LEMMA OnlyThen ==
    ASSUME NEW s, NEW v, NEW u, NEW F, NEW G, Only(s, v, F), Only(v, u, G)
    PROVE  Only(s, u, F \cup G)
BY DEF Only

LEMMA OnlyMore ==
    ASSUME NEW s, NEW u, NEW F, NEW G, Only(s, u, F), F \subseteq G
    PROVE  Only(s, u, G)
BY DEF Only

LEMMA OnlyTree == ASSUME NEW s, NEW t PROVE Only(s, [s EXCEPT !.tree = t], {"tree"})
BY DEF Only

LEMMA OnlyEntries ==
    ASSUME NEW s, NEW pid, NEW entry
    PROVE  /\ Only(s, SetEntry(s, pid, entry), {"active"})
           /\ Only(s, DropEntry(s, pid), {"active"})
BY DEF Only, SetEntry, DropEntry

LEMMA OnlyAttached ==
    ASSUME NEW s, NEW pid, NEW key
    PROVE  Only(s, AttachTaskPlan(s, pid, key), {"tree"})
BY DEF Only, AttachTaskPlan

WorkFields == {"tree", "active", "pieces_done", "joins_done", "piece_events",
               "join_events"}

LEMMA OnlyWork ==
    ASSUME NEW s, NEW r, r.action \in NodeActions
    PROVE  Only(s, HandleNodeProcess(s, r), WorkFields)
<1>1. CASE r.action = "begin"
    <2> DEFINE key == NodeOf(s, r.key)
               s1  == SetEntry(s, r.pid, [EntryOf(s, r.pid) EXCEPT
                                            !.node = key, !.resumed = FALSE])
               s2  == [s1 EXCEPT !.tree[key].in_progress = TRUE, !.tree[key].pid = r.pid]
               s3  == AttachTaskPlan(s2, r.pid, key)
               s4  == [s3 EXCEPT !.tree = MarkActive(s3.tree, key, 1)]
    <2>1. HandleNodeProcess(s, r) = IF key = NoKey THEN s1 ELSE s4
        <3>1. HandleNodeProcess(s, r) = HandleBegin(s, r)
            BY <1>1, Zenon DEF HandleNodeProcess
        <3> QED BY <3>1 DEF HandleBegin
    <2>2. Only(s, s1, {"active"})
        BY OnlyEntries
    <2> HIDE DEF s1, key
    <2>3. Only(s1, s2, {"tree"})
        BY DEF Only
    <2> HIDE DEF s2
    <2>4. Only(s2, s3, {"tree"})
        BY OnlyAttached
    <2> HIDE DEF s3
    <2>5. Only(s3, s4, {"tree"})
        BY OnlyTree
    <2> HIDE DEF s4
    <2>6. Only(s, s1, WorkFields) /\ Only(s, s4, WorkFields)
        BY <2>2, <2>3, <2>4, <2>5 DEF Only, WorkFields
    <2> QED BY <2>1, <2>6
<1>2. CASE r.action = "already stored"
    <2> DEFINE key     == NodeOf(s, r.key)
               covered == LeavesCovered(r.key)
               s0      == DropEntry(s, r.pid)
               s1      == [s0 EXCEPT !.pieces_done = @ + covered,
                                     !.joins_done = @ + covered - 1]
               t       == MarkNodeDone(MarkUnitsDone(MarkLeavesDone(s1.tree, key, covered),
                                                     key, 2 * covered - 1), key)
               s2      == [s1 EXCEPT !.tree = t]
    <2>1. HandleNodeProcess(s, r) = IF key = NoKey THEN s1 ELSE s2
        <3>1. HandleNodeProcess(s, r) = HandleAlreadyStored(s, r)
            BY <1>2, Zenon DEF HandleNodeProcess
        <3> QED BY <3>1 DEF HandleAlreadyStored
    <2>2. Only(s, s0, {"active"})
        BY OnlyEntries
    <2> HIDE DEF s0, key, covered, t
    <2>3. Only(s0, s1, {"pieces_done", "joins_done"})
        BY DEF Only
    <2> HIDE DEF s1
    <2>4. Only(s1, s2, {"tree"})
        BY OnlyTree
    <2> HIDE DEF s2
    <2>5. Only(s, s1, WorkFields) /\ Only(s, s2, WorkFields)
        BY <2>2, <2>3, <2>4 DEF Only, WorkFields
    <2> QED BY <2>1, <2>5
<1>3. CASE r.action = "joining"
    <2>1. HandleNodeProcess(s, r) = HandleJoining(s, r)
        BY <1>3, Zenon DEF HandleNodeProcess
    <2>2. Only(s, HandleJoining(s, r), {"tree"})
        BY DEF HandleJoining, Only
    <2> QED BY <2>1, <2>2, OnlyMore DEF WorkFields
<1>4. CASE r.action = "joined"
    <2> DEFINE key == NodeOf(s, r.key)
               x   == EntryOf(s, r.pid).resumed
               s1  == [s EXCEPT !.joins_done = @ + 1,
                                !.join_events = IF x THEN @ ELSE @ + 1]
               t   == MarkNodeDone(MarkUnitsDone(s1.tree, key, 1), key)
               s2  == [s1 EXCEPT !.tree = t]
    <2>1. HandleNodeProcess(s, r) = IF key = NoKey THEN s1 ELSE s2
        <3>1. HandleNodeProcess(s, r) = HandleJoined(s, r)
            BY <1>4, Zenon DEF HandleNodeProcess
        <3> QED BY <3>1 DEF HandleJoined
    <2> HIDE DEF key, x, t
    <2>2. Only(s, s1, {"joins_done", "join_events"})
        BY DEF Only
    <2> HIDE DEF s1
    <2>3. Only(s1, s2, {"tree"})
        BY OnlyTree
    <2> HIDE DEF s2
    <2>4. Only(s, s1, WorkFields) /\ Only(s, s2, WorkFields)
        BY <2>2, <2>3 DEF Only, WorkFields
    <2> QED BY <2>1, <2>4
<1>5. CASE r.action = "piece"
    <2> DEFINE key == NodeOf(s, r.key)
               s1  == [s EXCEPT !.pieces_done = @ + 1, !.piece_events = @ + 1]
               t   == MarkNodeDone(MarkUnitsDone(MarkLeavesDone(s1.tree, key, 1), key, 1), key)
               s2  == [s1 EXCEPT !.tree = t]
    <2>1. HandleNodeProcess(s, r) = IF key = NoKey THEN s1 ELSE s2
        <3>1. HandleNodeProcess(s, r) = HandlePiece(s, r)
            BY <1>5, Zenon DEF HandleNodeProcess
        <3> QED BY <3>1 DEF HandlePiece
    <2> HIDE DEF key, t
    <2>2. Only(s, s1, {"pieces_done", "piece_events"})
        BY DEF Only
    <2> HIDE DEF s1
    <2>3. Only(s1, s2, {"tree"})
        BY OnlyTree
    <2> HIDE DEF s2
    <2>4. Only(s, s1, WorkFields) /\ Only(s, s2, WorkFields)
        BY <2>2, <2>3 DEF Only, WorkFields
    <2> QED BY <2>1, <2>4
<1> QED BY <1>1, <1>2, <1>3, <1>4, <1>5, Zenon DEF NodeActions

PhaseFields == {"active", "tree", "locking_pids", "lock_requests", "lock_misses"}

LEMMA OnlyPhase ==
    ASSUME NEW s, NEW r
    PROVE  Only(s, HandlePhaseLine(s, r), PhaseFields)
<1> DEFINE key == EntryOf(s, r.pid).node
           s1  == IF Known(s, r.pid)
                  THEN SetEntry(s, r.pid, PhaseEntry(s.active[r.pid], r)) ELSE s
           s2  == PhaseLock(s1, r)
           s3  == [s2 EXCEPT !.tree[key] = PhaseNode(@, r)]
           s4  == AttachTaskPlan(s3, r.pid, key)
<1>1. HandlePhaseLine(s, r) \in {s2, s3, s4}
    BY DEF HandlePhaseLine
<1>2. Only(s, s1, {"active"})
    BY OnlyEntries DEF Only
<1> HIDE DEF s1
<1>3. Only(s1, s2, {"locking_pids", "lock_requests", "lock_misses"})
    BY DEF PhaseLock, Only
<1> HIDE DEF s2, key
<1>4. Only(s2, s3, {"tree"})
    BY DEF Only
<1> HIDE DEF s3
<1>5. Only(s3, s4, {"tree"})
    BY OnlyAttached
<1> HIDE DEF s4
<1>6. Only(s, s2, PhaseFields) /\ Only(s, s3, PhaseFields) /\ Only(s, s4, PhaseFields)
    BY <1>2, <1>3, <1>4, <1>5 DEF Only, PhaseFields
<1> QED BY <1>1, <1>6

StartFields == {"halt", "threads_seen", "thread_last_ts", "active", "tree"}

\* The first grant to be logged starts the clock of the averages.
LEMMA OnlyStart ==
    ASSUME NEW s, DOMAIN s = StateFields, NEW r, NEW ts
    PROVE  LET u == HandleTaskStart(s, r, ts)
           IN  /\ Only(s, u, StartFields)
               /\ u.threads_seen = TRUE
               /\ s.threads_seen => u.thread_last_ts = s.thread_last_ts
               /\ ~s.threads_seen => u.thread_last_ts = ts
<1> DEFINE start == r.fn = "task_start"
           e  == [EntryOf(s, r.pid) EXCEPT
                    !.mem = r.mem, !.threads = r.thr,
                    !.threads_live = IF start THEN r.thr ELSE @]
           at_ == IF s.threads_seen THEN s.thread_last_ts ELSE ts
           s1 == [s EXCEPT !.halt = IF start THEN NoHalt ELSE @,
                           !.threads_seen = TRUE,
                           !.thread_last_ts = at_]
           s2 == SetEntry(s1, r.pid, e)
           u  == AttachTaskPlan(s2, r.pid, e.node)
<1>0. {"halt", "threads_seen", "thread_last_ts"} \subseteq DOMAIN s
    BY FieldsOfState DEF ClockFields
<1>1. HandleTaskStart(s, r, ts) = u
    BY DEF HandleTaskStart
<1> HIDE DEF at_, e
<1>2. /\ Only(s, s1, {"halt", "threads_seen", "thread_last_ts"})
      /\ s1.threads_seen = TRUE /\ s1.thread_last_ts = at_
    BY <1>0 DEF Only
<1> HIDE DEF s1
<1>3. Only(s1, s2, {"active"})
    BY OnlyEntries
<1> HIDE DEF s2
<1>4. Only(s2, u, {"tree"})
    BY OnlyAttached
<1> HIDE DEF u
<1>5. Only(s, u, StartFields)
    BY <1>2, <1>3, <1>4 DEF Only, StartFields
<1>6. u.threads_seen = TRUE /\ u.thread_last_ts = at_
    BY <1>0, <1>2, <1>3, <1>4 DEF Only
<1> QED BY <1>1, <1>5, <1>6 DEF at_

LEMMA OnlyEnd ==
    ASSUME NEW s, NEW r
    PROVE  /\ Only(s, HandleTaskEnd(s, r), {"active", "locking_pids"})
           /\ Only(s, HandleTaskExit(s, r), {"active", "locking_pids", "task_exit"})
           /\ Only(s, HandleHalt(s, r), {"halt", "halt_seen"})
<1> DEFINE d == DropEntry(s, r.pid)
<1>1. Only(s, d, {"active"})
    BY OnlyEntries
<1>2. Only(s, HandleHalt(s, r), {"halt", "halt_seen"})
    BY DEF HandleHalt, Only
<1> HIDE DEF d
<1>3. /\ HandleTaskEnd(s, r) = [d EXCEPT !.locking_pids = @ \ {r.pid}]
      /\ HandleTaskExit(s, r) = [d EXCEPT !.locking_pids = @ \ {r.pid}, !.task_exit = r.pid]
    BY DEF HandleTaskEnd, HandleTaskExit, d
<1>4. /\ Only(d, [d EXCEPT !.locking_pids = @ \ {r.pid}], {"locking_pids"})
      /\ Only(d, [d EXCEPT !.locking_pids = @ \ {r.pid}, !.task_exit = r.pid],
              {"locking_pids", "task_exit"})
    BY DEF Only
<1>5. /\ Only(s, HandleTaskEnd(s, r), {"active", "locking_pids"})
      /\ Only(s, HandleTaskExit(s, r), {"active", "locking_pids", "task_exit"})
    BY <1>1, <1>3, <1>4 DEF Only
<1> QED BY <1>2, <1>5

Totals == {"active processes", "active threads", "active memory"}

TotalField(action) ==
    CASE action = "active processes" -> "active_max"
      [] action = "active threads"   -> "threads_reported"
      [] action = "active memory"    -> "mem_booked"

\* A total that is logged is kept as it is.
LEMMA OnlyTotal ==
    ASSUME NEW s, DOMAIN s = StateFields, NEW r, r.action \in Totals
    PROVE  LET u == HandleScheduler(s, r)
           IN  /\ Only(s, u, {TotalField(r.action)})
               /\ r.action = "active threads" => u.threads_reported = r.val
               /\ r.action = "active memory" => u.mem_booked = r.val
<1>0. {"active_max", "threads_reported", "mem_booked"} \subseteq DOMAIN s
    BY FieldsOfState DEF ClockFields
<1>1. CASE r.action = "active processes"
    <2>1. TotalField(r.action) = "active_max"
        BY <1>1, Zenon DEF TotalField
    <2>2. HandleScheduler(s, r) = [s EXCEPT !.active_max = AtLeast(s.active_max, r.val)]
        BY <1>1 DEF HandleScheduler
    <2> QED BY <1>1, <1>0, <2>1, <2>2 DEF Only
<1>2. CASE r.action = "active threads"
    <2>1. TotalField(r.action) = "threads_reported"
        BY <1>2, Zenon DEF TotalField
    <2>2. HandleScheduler(s, r) = [s EXCEPT !.threads_reported = r.val]
        BY <1>2, Zenon DEF HandleScheduler
    <2> QED BY <1>2, <1>0, <2>1, <2>2 DEF Only
<1>3. CASE r.action = "active memory"
    <2>1. TotalField(r.action) = "mem_booked"
        BY <1>3, Zenon DEF TotalField
    <2>2. HandleScheduler(s, r) = [s EXCEPT !.mem_booked = r.val]
        BY <1>3, Zenon DEF HandleScheduler
    <2> QED BY <1>3, <1>0, <2>1, <2>2 DEF Only
<1> QED BY <1>1, <1>2, <1>3, Zenon DEF Totals

ShapeFields == {"total_pieces", "index_max", "tree_chunk_span", "tree"}

\* The field that a configuration line sets, but for those of the tree.
ConfigField(name) ==
    CASE name = "chunk span" -> "chunk_span"
      [] name = "n process"  -> "n_process_logged"
      [] name = "mem launch" -> "mem_launch"
      [] name = "mem max"    -> "mem_max"
      [] name = "disk lock"  -> "disk_lock_enabled"
      [] OTHER -> "config"

ConfigFields(name) == ShapeFields \cup {"config", "config_diff", ConfigField(name)}

LEMMA OnlyConfig ==
    ASSUME NEW s, NEW name, NEW val
    PROVE  Only(s, HandleConfig(s, name, val), ConfigFields(name))
<1> DEFINE prev == s.prev_config
           config == (name :> val) @@ s.config
           diff == IF name \in DOMAIN prev /\ prev[name] # val
                   THEN s.config_diff \cup {name} ELSE s.config_diff
           v == [s EXCEPT !.config = config, !.config_diff = diff]
           u == HandleConfigOf(v, name, val)
<1>1. HandleConfig(s, name, val) = u
    BY DEF HandleConfig
<1> HIDE DEF config, diff
<1>2. Only(s, v, {"config", "config_diff"}) /\ DOMAIN v = DOMAIN s
    BY DEF Only
<1> HIDE DEF v
<1>3. \A x, n : Only(x, ApplyIndexMax(x, n), ShapeFields)
    BY DEF ApplyIndexMax, Only, ShapeFields
<1>4. \A F : Only(v, v, F)
    BY DEF Only
<1> SUFFICES Only(v, u, ShapeFields \cup {ConfigField(name)})
    BY <1>1, <1>2 DEF Only, ConfigFields
<1>5. CASE name = "piece size"
    <2>1. u = v \/ u = ApplyIndexMax(v, GetIndexMax(ArgSize))
        BY <1>5, Zenon DEF HandleConfigOf
    <2> HIDE DEF u
    <2>2. Only(v, u, ShapeFields)
        BY <1>3, <1>4, <2>1
    <2> QED BY <1>5, <2>2 DEF Only
<1>6. CASE name = "run size"
    <2>1. u = v \/ u = ApplyIndexMax(v, val)
        BY <1>6, Zenon DEF HandleConfigOf
    <2> HIDE DEF u
    <2>2. Only(v, u, ShapeFields)
        BY <1>3, <1>4, <2>1
    <2> QED BY <1>6, <2>2 DEF Only
<1>7. CASE name = "chunk span"
    <2> DEFINE w == [v EXCEPT !.chunk_span = val]
    <2>1. u = w \/ u = ApplyIndexMax(w, v.index_max)
        BY <1>7, Zenon DEF HandleConfigOf
    <2>2. Only(v, w, {"chunk_span"})
        BY DEF Only
    <2>3. ConfigField(name) = "chunk_span"
        BY <1>7, Zenon DEF ConfigField
    <2> HIDE DEF u, w
    <2>4. Only(w, ApplyIndexMax(w, v.index_max), ShapeFields)
        BY <1>3
    <2>5. Only(v, u, ShapeFields \cup {"chunk_span"})
        BY <2>1, <2>2, <2>4 DEF Only
    <2> QED BY <1>7, <2>3, <2>5
<1>8. CASE name = "n process"
    <2>1. u = [v EXCEPT !.n_process_logged = val]
        BY <1>8, Zenon DEF HandleConfigOf
    <2>2. ConfigField(name) = "n_process_logged"
        BY <1>8, Zenon DEF ConfigField
    <2> HIDE DEF u
    <2> QED BY <1>2, <1>8, <2>1, <2>2 DEF Only
<1>9. CASE name = "mem launch"
    <2>1. u = [v EXCEPT !.mem_launch = val]
        BY <1>9, Zenon DEF HandleConfigOf
    <2>2. ConfigField(name) = "mem_launch"
        BY <1>9, Zenon DEF ConfigField
    <2> HIDE DEF u
    <2> QED BY <1>2, <1>9, <2>1, <2>2 DEF Only
<1>10. CASE name = "mem max"
    <2>1. u = [v EXCEPT !.mem_max = val]
        BY <1>10, Zenon DEF HandleConfigOf
    <2>2. ConfigField(name) = "mem_max"
        BY <1>10, Zenon DEF ConfigField
    <2> HIDE DEF u
    <2> QED BY <1>2, <1>10, <2>1, <2>2 DEF Only
<1>11. CASE name = "disk lock"
    <2>1. u = [v EXCEPT !.disk_lock_enabled = (val # 0)]
        BY <1>11, Zenon DEF HandleConfigOf
    <2>2. ConfigField(name) = "disk_lock_enabled"
        BY <1>11, Zenon DEF ConfigField
    <2> HIDE DEF u
    <2> QED BY <1>2, <1>11, <2>1, <2>2 DEF Only
<1>12. CASE name \notin {"piece size", "run size", "chunk span", "n process", "mem launch",
                         "mem max", "disk lock"}
    <2>1. u = v
        BY <1>12, Zenon DEF HandleConfigOf
    <2> HIDE DEF u
    <2> QED BY <1>4, <1>12, <2>1
<1> QED BY <1>5, <1>6, <1>7, <1>8, <1>9, <1>10, <1>11, <1>12, Zenon

\* A limit that is configured is the one that is logged.
LEMMA LimitsConfigured ==
    ASSUME NEW s, DOMAIN s = StateFields, NEW val
    PROVE  /\ HandleConfig(s, "n process", val).n_process_logged = val
           /\ HandleConfig(s, "mem launch", val).mem_launch = val
           /\ HandleConfig(s, "mem max", val).mem_max = val
<1>1. {"n_process_logged", "mem_launch", "mem_max"} \subseteq DOMAIN s
    BY FieldsOfState DEF ClockFields
<1>2. \A name : \E v : /\ DOMAIN v = DOMAIN s
                        /\ HandleConfig(s, name, val) = HandleConfigOf(v, name, val)
    <2> SUFFICES ASSUME NEW name
                 PROVE  \E v : /\ DOMAIN v = DOMAIN s
                               /\ HandleConfig(s, name, val) = HandleConfigOf(v, name, val)
        OBVIOUS
    <2> DEFINE prev == s.prev_config
               config == (name :> val) @@ s.config
               diff == IF name \in DOMAIN prev /\ prev[name] # val
                       THEN s.config_diff \cup {name} ELSE s.config_diff
               v == [s EXCEPT !.config = config, !.config_diff = diff]
    <2>1. HandleConfig(s, name, val) = HandleConfigOf(v, name, val)
        BY DEF HandleConfig
    <2> HIDE DEF config, diff
    <2>2. DOMAIN v = DOMAIN s
        OBVIOUS
    <2> HIDE DEF v
    <2> QED BY <2>1, <2>2
<1>3. \A v : DOMAIN v = DOMAIN s =>
        /\ HandleConfigOf(v, "n process", val).n_process_logged = val
        /\ HandleConfigOf(v, "mem launch", val).mem_launch = val
        /\ HandleConfigOf(v, "mem max", val).mem_max = val
    <2> SUFFICES ASSUME NEW v, DOMAIN v = DOMAIN s
                 PROVE  /\ HandleConfigOf(v, "n process", val).n_process_logged = val
                        /\ HandleConfigOf(v, "mem launch", val).mem_launch = val
                        /\ HandleConfigOf(v, "mem max", val).mem_max = val
        OBVIOUS
    <2>1. /\ HandleConfigOf(v, "n process", val) = [v EXCEPT !.n_process_logged = val]
          /\ HandleConfigOf(v, "mem launch", val) = [v EXCEPT !.mem_launch = val]
          /\ HandleConfigOf(v, "mem max", val) = [v EXCEPT !.mem_max = val]
        BY Zenon DEF HandleConfigOf
    <2> QED BY <1>1, <2>1
<1> QED BY <1>2, <1>3

RootFields == {"phase", "done", "tree", "pieces_done", "joins_done"}

LEMMA OnlyRoot ==
    ASSUME NEW s, NEW action \in PhaseActions
    PROVE  Only(s, HandlePhase(s, action), RootFields)
<1>1. \A name : Only(s, SetPhase(s, name), RootFields)
    BY DEF SetPhase, Only, RootFields
<1>2. CASE action \in {"dividing", "divided", "binary split solved"}
    <2>1. HandlePhase(s, action) = SetPhase(s, action)
        BY <1>2, Zenon DEF HandlePhase
    <2> QED BY <1>1, <2>1
<1>3. CASE action = "pi already stored"
    <2> DEFINE w == SetPhase(s, action)
               root == <<1, w.index_max>>
               v == IF w.total_pieces = 0 THEN w
                    ELSE [w EXCEPT !.pieces_done = w.total_pieces,
                                   !.joins_done = w.total_pieces - 1]
               L == w.tree[root].leaves_total
               t == MarkNodeDone(MarkUnitsDone(MarkLeavesDone(v.tree, root, L), root,
                                               2 * L - 1), root)
               x == [v EXCEPT !.tree = t]
    <2>1. HandlePhase(s, action) = AllDone(w)
        BY <1>3, Zenon DEF HandlePhase
    <2>2. AllDone(w) = IF w.tree = NoTree THEN v ELSE x
        BY DEF AllDone
    <2>3. Only(s, w, RootFields)
        BY <1>1
    <2> HIDE DEF w, t
    <2>4. Only(w, v, RootFields)
        BY DEF Only, RootFields
    <2> HIDE DEF v
    <2>5. Only(v, x, RootFields)
        BY OnlyTree, OnlyMore DEF RootFields
    <2> HIDE DEF x
    <2>6. Only(s, v, RootFields) /\ Only(s, x, RootFields)
        BY <2>3, <2>4, <2>5 DEF Only
    <2> QED BY <2>1, <2>2, <2>6
<1>4. CASE action = "display begin"
    <2>1. HandlePhase(s, action) = SetPhase(s, "displaying")
        BY <1>4, Zenon DEF HandlePhase
    <2> QED BY <1>1, <2>1
<1>5. CASE action = "display end"
    <2> DEFINE v == SetPhase(s, "displayed")
    <2>1. HandlePhase(s, action) = [v EXCEPT !.done = TRUE]
        BY <1>5, Zenon DEF HandlePhase
    <2>2. Only(s, v, RootFields)
        BY <1>1
    <2> HIDE DEF v
    <2>3. Only(v, [v EXCEPT !.done = TRUE], RootFields)
        BY DEF Only, RootFields
    <2>4. Only(s, [v EXCEPT !.done = TRUE], RootFields)
        BY <2>2, <2>3 DEF Only
    <2> QED BY <2>1, <2>4
<1> QED BY <1>2, <1>3, <1>4, <1>5, Zenon DEF PhaseActions

-----------------------------------------------------------------------------
(* The clock of the averages, and the readings it accumulates.             *)

\* What a record, the tick it brings aside, does to the clock.
Clocked(s, u, r, ts) ==
    /\ DOMAIN u = DOMAIN s
    /\ u.thread_time = s.thread_time
    /\ u.booked_time = s.booked_time
    /\ u.thread_span = s.thread_span
    /\ u.threads_seen = s.threads_seen \/ (u.threads_seen = TRUE /\ (Starts(r) \/ Donates(r)))
    /\ \/ u.thread_last_ts = s.thread_last_ts
       \/ u.thread_last_ts = ts /\ (Starts(r) \/ Donates(r)) /\ ~s.threads_seen
    /\ \/ u.n_process_logged = s.n_process_logged
       \/ Configures(r) /\ r.action = "n process" /\ u.n_process_logged = r.val
    /\ \/ u.threads_reported = s.threads_reported
       \/ r.fn = "scheduler" /\ u.threads_reported = r.val

LEMMA ClockedElsewhere ==
    ASSUME NEW s, ClockFields \subseteq DOMAIN s, NEW u, NEW F, Only(s, u, F),
           F \cap ClockFields = {}, NEW r, NEW ts
    PROVE  Clocked(s, u, r, ts)
BY DEF Only, Clocked, ClockFields

LEMMA HandleClocked ==
    ASSUME NEW s, DOMAIN s = StateFields, NEW r, Line(r), NEW ts
    PROVE  Clocked(s, Handle(s, r, ts), r, ts)
<1> DEFINE u == Handle(s, r, ts)
<1>0. /\ ClockFields \subseteq DOMAIN s
      /\ {"halt", "active_max", "mem_booked", "mem_launch", "mem_max"} \subseteq DOMAIN s
    BY FieldsOfState
<1>a. \A F : Only(s, u, F) /\ F \cap ClockFields = {} => Clocked(s, u, r, ts)
    BY <1>0, ClockedElsewhere
<1>b. ClockFields = {"threads_seen", "thread_time", "booked_time", "thread_span",
                     "thread_last_ts", "n_process_logged", "threads_reported"}
    BY DEF ClockFields
<1> SUFFICES Clocked(s, u, r, ts)
    OBVIOUS
<1>1. CASE r.fn = "node_process"
    <2>1. u = HandleNodeProcess(s, r)
        BY <1>1, Zenon DEF Handle
    <2>2. r.action \in NodeActions
        BY <1>1, Zenon DEF Line
    <2> HIDE DEF u
    <2>3. Only(s, u, WorkFields) /\ WorkFields \cap ClockFields = {}
        BY <2>1, <2>2, OnlyWork DEF WorkFields, ClockFields
    <2> QED BY <1>a, <2>3
<1>2. CASE r.fn = "split_piece"
    <2>1. u = HandlePhaseLine(s, r)
        BY <1>2, Zenon DEF Handle
    <2> HIDE DEF u
    <2>2. Only(s, u, PhaseFields) /\ PhaseFields \cap ClockFields = {}
        BY <2>1, OnlyPhase DEF PhaseFields, ClockFields
    <2> QED BY <1>a, <2>2
<1>3. CASE r.fn \in {"task_start", "task_donate"}
    <2>1. u = HandleTaskStart(s, r, ts)
        BY <1>3, Zenon DEF Handle
    <2>2. Starts(r) \/ Donates(r)
        BY <1>3 DEF Starts, Donates
    <2> HIDE DEF u
    <2>4. /\ Only(s, u, StartFields) /\ u.threads_seen = TRUE
          /\ s.threads_seen => u.thread_last_ts = s.thread_last_ts
          /\ ~s.threads_seen => u.thread_last_ts = ts
        BY <2>1, OnlyStart
    <2> QED BY <1>0, <1>b, <2>2, <2>4 DEF Clocked, Only, StartFields
<1>4. CASE r.fn = "task_end"
    <2>1. u = HandleTaskEnd(s, r)
        BY <1>4, Zenon DEF Handle
    <2> HIDE DEF u
    <2>2. Only(s, u, {"active", "locking_pids"})
        BY <2>1, OnlyEnd
    <2> QED BY <1>a, <1>b, <2>2
<1>5. CASE r.fn = "task_check_exit"
    <2>1. u = HandleTaskExit(s, r)
        BY <1>5, Zenon DEF Handle
    <2> HIDE DEF u
    <2>2. Only(s, u, {"active", "locking_pids", "task_exit"})
        BY <2>1, OnlyEnd
    <2> QED BY <1>a, <1>b, <2>2
<1>6. CASE r.fn = "node_can_launch"
    <2>1. u = HandleHalt(s, r)
        BY <1>6, Zenon DEF Handle
    <2> HIDE DEF u
    <2>2. Only(s, u, {"halt", "halt_seen"})
        BY <2>1, OnlyEnd
    <2> QED BY <1>a, <1>b, <2>2
<1>7. CASE r.fn = "scheduler"
    <2>1. u = HandleScheduler(s, r)
        BY <1>7, Zenon DEF Handle
    <2>2. r.action \in Totals
        BY <1>7, Zenon DEF Line, Totals
    <2> HIDE DEF u
    <2>4. /\ Only(s, u, {TotalField(r.action)})
          /\ r.action = "active threads" => u.threads_reported = r.val
        BY <2>1, <2>2, OnlyTotal
    <2>5. CASE r.action = "active threads"
        <3>1. TotalField(r.action) = "threads_reported"
            BY <2>5, Zenon DEF TotalField
        <3> QED BY <1>0, <1>7, <1>b, <2>4, <2>5, <3>1 DEF Clocked, Only
    <2>6. CASE r.action # "active threads"
        <3>1. TotalField(r.action) \in {"active_max", "mem_booked"}
            BY <2>2, <2>6, Zenon DEF TotalField, Totals
        <3>2. {TotalField(r.action)} \cap ClockFields = {}
            BY <1>b, <3>1
        <3> QED BY <1>a, <2>4, <3>2
    <2> QED BY <2>5, <2>6
<1>8. CASE r.fn = "pi_tree"
    <2>1. u = HandleConfig(s, r.action, r.val)
        BY <1>8, Zenon DEF Handle
    <2>3. Configures(r)
        BY <1>8 DEF Configures
    <2> HIDE DEF u
    <2>4. Only(s, u, ConfigFields(r.action))
        BY <2>1, OnlyConfig
    <2>5. CASE r.action = "n process"
        <3>1. ConfigField(r.action) = "n_process_logged"
            BY <2>5, Zenon DEF ConfigField
        <3>2. u.n_process_logged = r.val
            <4>1. u = HandleConfig(s, "n process", r.val)
                BY <2>1, <2>5
            <4>2. HandleConfig(s, "n process", r.val).n_process_logged = r.val
                BY LimitsConfigured
            <4> QED BY <4>1, <4>2
        <3> QED BY <1>0, <1>b, <2>3, <2>4, <2>5, <3>1, <3>2
                DEF Clocked, Only, ConfigFields, ShapeFields
    <2>6. CASE r.action # "n process"
        <3>1. ConfigField(r.action) \in {"chunk_span", "mem_launch", "mem_max",
                                         "disk_lock_enabled", "config"}
            BY <2>6, Zenon DEF ConfigField
        <3>2. ConfigFields(r.action) \cap ClockFields = {}
            BY <1>b, <3>1 DEF ConfigFields, ShapeFields
        <3> QED BY <1>a, <2>4, <3>2
    <2> QED BY <2>5, <2>6
<1>9. CASE r.fn = "pi"
    <2>1. u = HandlePhase(s, r.action)
        BY <1>9, Zenon DEF Handle
    <2>2. r.action \in PhaseActions
        BY <1>9, Zenon DEF Line
    <2> HIDE DEF u
    <2>3. Only(s, u, RootFields) /\ RootFields \cap ClockFields = {}
        BY <2>1, <2>2, OnlyRoot DEF RootFields, ClockFields
    <2> QED BY <1>a, <2>3
<1> QED BY <1>1, <1>2, <1>3, <1>4, <1>5, <1>6, <1>7, <1>8, <1>9, Zenon DEF Line

-----------------------------------------------------------------------------
(* No more threads work than are booked, nor are more booked than the run  *)
(* has: the cap sees to it, once the budget has been read from the log.    *)

\* Nothing has been read that is of threads, nor of the root's own steps.
Unread(s) == ~InRoot(s) /\ ~s.threads_seen /\ s.threads_reported = 0

\* The run's budget has been read, or nothing has to which it applies.
BudgetRead(s) ==
    \/ s.n_process_logged = NProcess
    \/ s.n_process_logged = 0 /\ Unread(s)

Ordered(s) == \A p \in DOMAIN s.active : s.active[p].threads_live <= s.active[p].threads

LEMMA EntriesFinite ==
    ASSUME NEW s, LendingOK(s)
    PROVE  IsFiniteSet(DOMAIN s.active)
<1>1. DOMAIN s.active \subseteq Node /\ IsFiniteSet(Node)
    BY ProgramAssumption DEF LendingOK, S!NodeAssumption, S!IsFiniteSet, IsFiniteSet
<1> QED BY <1>1, FS_Subset

LEMMA EntryThreadsBounded ==
    ASSUME NEW e, Lent(e), e.threads_live <= e.threads
    PROVE  /\ EntryThreads(e) \in Nat /\ EntryThreads(e) <= e.threads
           /\ Waiting(e) \in Nat /\ Idle(e) \in Nat
<1>1. EntryThreads(e) \in Nat /\ EntryThreads(e) <= e.threads
    BY DEF Lent, EntryThreads
<1> QED BY <1>1 DEF Waiting, Idle

LEMMA SumsOfEntries ==
    ASSUME NEW s, LendingOK(s), Ordered(s)
    PROVE  /\ SumOfEntries(s, EntryThreads) \in Nat
           /\ SumOfEntries(s, LAMBDA e : e.threads) \in Nat
           /\ SumOfEntries(s, EntryThreads) <= SumOfEntries(s, LAMBDA e : e.threads)
           /\ BlockedThreads(s)[1] \in Nat
           /\ BlockedThreads(s)[2] \in Nat
<1> DEFINE D == DOMAIN s.active
           a == [p \in D |-> EntryThreads(s.active[p])]
           b == [p \in D |-> s.active[p].threads]
           c == [p \in D |-> Waiting(s.active[p])]
           d == [p \in D |-> Idle(s.active[p])]
<1>1. IsFiniteSet(D)
    BY EntriesFinite
<1>2. \A p \in D : /\ a[p] \in Nat /\ b[p] \in Nat /\ a[p] <= b[p]
                   /\ c[p] \in Nat /\ d[p] \in Nat
    BY EntryThreadsBounded DEF LendingOK, Ordered, Lent
<1>3. PICK g : Sums(g, a, D) /\ SumOfEntries(s, EntryThreads) = g[D]
    BY <1>1, EntryThreadsSum
<1>4. PICK h : Sums(h, b, D) /\ SumOfEntries(s, LAMBDA e : e.threads) = h[D]
    BY <1>1, ThreadsSum
<1>5. PICK k : Sums(k, c, D) /\ BlockedThreads(s)[1] = k[D]
    BY <1>1, WaitingSum
<1>6. PICK m : Sums(m, d, D) /\ BlockedThreads(s)[2] = m[D]
    BY <1>1, IdleSum
<1> HIDE DEF D, a, b, c, d
<1>7. g[D] \in Nat /\ h[D] \in Nat /\ g[D] <= h[D]
    BY <1>1, <1>2, <1>3, <1>4, SumsOrdered
<1>8. \A f, x : (\A p \in D : f[p] \in Nat) /\ Sums(x, f, D) => x[D] \in Nat
    <2> SUFFICES ASSUME NEW f, NEW x, \A p \in D : f[p] \in Nat, Sums(x, f, D)
                 PROVE  x[D] \in Nat
        OBVIOUS
    <2>1. \A p \in D : f[p] <= f[p]
        OBVIOUS
    <2> QED BY <1>1, <2>1, SumsOrdered
<1>9. k[D] \in Nat /\ m[D] \in Nat
    BY <1>2, <1>5, <1>6, <1>8
<1> QED BY <1>3, <1>4, <1>5, <1>6, <1>7, <1>9

LEMMA ThreadsBounded ==
    ASSUME NEW s, LendingOK(s), Ordered(s), s.threads_reported \in Nat, BudgetRead(s)
    PROVE  /\ WorkingThreads(s) \in Nat /\ BookedCapped(s) \in Nat
           /\ WorkingThreads(s) <= BookedCapped(s)
           /\ BookedCapped(s) <= NProcess
<1> DEFINE budget == ThreadBudget(s)
           now == ActiveThreads(s)
           all == BookedThreads(s)
           wait == BlockedThreads(s)[1]
           idle == BlockedThreads(s)[2]
<1>1. NProcess \in Nat \ {0} /\ ArgNProcess \in Nat
    BY ProgramAssumption, ArgAssumption DEF S!BudgetAssumption
<1>2. wait \in Nat /\ idle \in Nat
    BY SumsOfEntries
<1>3. WorkingThreads(s) = CappedAtBudget(s, AtLeast(0, now - wait - idle))
    BY DEF WorkingThreads
<1>4. BookedCapped(s) = CappedAtBudget(s, all)
    BY DEF BookedCapped
<1>5. CASE s.n_process_logged = NProcess
    <2>1. budget = NProcess
        BY <1>1, <1>5 DEF ThreadBudget
    <2>2. now \in Nat /\ all \in Nat /\ now <= all
        <3>1. CASE InRoot(s)
            BY <1>1, <2>1, <3>1 DEF ActiveThreads, BookedThreads
        <3>2. CASE ~InRoot(s) /\ ~s.threads_seen
            BY <3>2 DEF ActiveThreads, BookedThreads
        <3>3. CASE ~InRoot(s) /\ s.threads_seen
            <4>1. /\ now = SumOfEntries(s, EntryThreads)
                  /\ all = SumOfEntries(s, LAMBDA e : e.threads)
                BY <3>3 DEF ActiveThreads, BookedThreads
            <4> QED BY <4>1, SumsOfEntries
        <3> QED BY <3>1, <3>2, <3>3
    <2>3. /\ WorkingThreads(s) = AtMost(AtLeast(0, now - wait - idle), NProcess)
          /\ BookedCapped(s) = AtMost(all, NProcess)
        BY <1>1, <1>3, <1>4, <2>1 DEF CappedAtBudget
    <2> HIDE DEF budget, now, all, wait, idle
    <2> QED BY <1>1, <1>2, <2>2, <2>3 DEF AtMost, AtLeast
<1>6. CASE s.n_process_logged = 0 /\ Unread(s)
    <2>1. budget = ArgNProcess
        BY <1>6 DEF ThreadBudget
    <2>2. now = 0 /\ all = 0
        BY <1>6 DEF ActiveThreads, BookedThreads, Unread
    <2> HIDE DEF now, all, wait, idle
    <2>3. AtLeast(0, now - wait - idle) = 0
        BY <1>2, <2>2 DEF AtLeast
    <2>4. CappedAtBudget(s, 0) = 0
        BY <1>1, <2>1 DEF CappedAtBudget, AtMost
    <2> QED BY <1>1, <1>3, <1>4, <2>2, <2>3, <2>4
<1> QED BY <1>5, <1>6 DEF BudgetRead

-----------------------------------------------------------------------------
(* The averages are averages.                                              *)

\* What is kept to read the averages from.
Metered(s) ==
    /\ DOMAIN s = StateFields
    /\ LendingOK(s) /\ Ordered(s)
    /\ BudgetRead(s)
    /\ s.threads_reported \in Nat

\* c: the time it is, at the latest.
Timed(s, c) ==
    /\ s.thread_time \in Nat /\ s.booked_time \in Nat
    /\ s.thread_span \in Nat /\ s.thread_last_ts \in Nat
    /\ s.thread_time <= s.booked_time
    /\ s.booked_time <= NProcess * s.thread_span
    /\ s.thread_span <= s.thread_last_ts
    /\ s.thread_last_ts <= c
    /\ s.threads_seen \/ s.thread_span = 0

\* A stretch of time at which no more is booked than there is adds no more than it
\* is long.
LEMMA Stretched ==
    ASSUME NEW n \in Nat, NEW t \in Nat, NEW b \in Nat, NEW span \in Nat,
           t <= b, b <= n * span,
           NEW w \in Nat, NEW k \in Nat, w <= k, k <= n, NEW dt \in Nat
    PROVE  /\ t + w * dt \in Nat /\ b + k * dt \in Nat
           /\ t + w * dt <= b + k * dt
           /\ b + k * dt <= n * (span + dt)
<1>1. w * dt \in Nat /\ k * dt \in Nat /\ n * dt \in Nat /\ n * span \in Nat
    OBVIOUS
<1>2. w * dt <= k * dt /\ k * dt <= n * dt
    OBVIOUS
<1>3. n * (span + dt) = n * span + n * dt
    OBVIOUS
<1> HIDE <1>2
<1> QED BY <1>1, <1>2, <1>3

LEMMA TickTimed ==
    ASSUME NEW s, Metered(s), NEW c \in Nat, Timed(s, c), NEW ts \in 0 .. c
    PROVE  LET u == ThreadTick(s, ts)
           IN  /\ Timed(u, c)
               /\ Only(s, u, {"thread_time", "booked_time", "thread_span",
                              "thread_last_ts"})
<1> DEFINE w == WorkingThreads(s)
           k == BookedCapped(s)
           dt == ts - s.thread_last_ts
           v == [s EXCEPT !.thread_time = s.thread_time + w * dt,
                          !.booked_time = s.booked_time + k * dt,
                          !.thread_span = s.thread_span + dt,
                          !.thread_last_ts = ts]
           u == ThreadTick(s, ts)
<1>1. u = IF ~s.threads_seen \/ dt <= 0 THEN s ELSE v
    BY DEF ThreadTick
<1>2. w \in Nat /\ k \in Nat /\ w <= k /\ k <= NProcess /\ NProcess \in Nat
    BY ThreadsBounded, ProgramAssumption DEF Metered, S!BudgetAssumption
<1> HIDE DEF u, w, k
<1>3. CASE ~s.threads_seen \/ dt <= 0
    BY <1>1, <1>3 DEF Only, u
<1>4. CASE ~(~s.threads_seen \/ dt <= 0)
    <2>1. dt \in Nat /\ s.thread_last_ts + dt = ts
        BY <1>4 DEF Timed
    <2>2. u = v
        BY <1>1, <1>4
    <2>3. {"thread_time", "booked_time", "thread_span", "thread_last_ts"} \subseteq DOMAIN s
        BY FieldsOfState DEF Metered, ClockFields
    <2> HIDE DEF dt
    <2>4. /\ v.thread_time = s.thread_time + w * dt
          /\ v.booked_time = s.booked_time + k * dt
          /\ v.thread_span = s.thread_span + dt
          /\ v.thread_last_ts = ts
          /\ Only(s, v, {"thread_time", "booked_time", "thread_span", "thread_last_ts"})
        BY <2>3 DEF Only
    <2> HIDE DEF v
    <2>5. /\ v.thread_time \in Nat /\ v.booked_time \in Nat
          /\ v.thread_time <= v.booked_time
          /\ v.booked_time <= NProcess * v.thread_span
        <3>1. /\ s.thread_time + w * dt \in Nat /\ s.booked_time + k * dt \in Nat
              /\ s.thread_time + w * dt <= s.booked_time + k * dt
              /\ s.booked_time + k * dt <= NProcess * (s.thread_span + dt)
            BY <1>2, <2>1, Stretched DEF Timed
        <3> QED BY <2>4, <3>1
    <2>6. /\ v.thread_span \in Nat /\ v.thread_last_ts \in Nat
          /\ v.thread_span <= v.thread_last_ts /\ v.thread_last_ts <= c
        BY <2>1, <2>4 DEF Timed
    <2>7. v.threads_seen = TRUE \/ (v.threads_seen = s.threads_seen /\ s.threads_seen)
        <3>1. "threads_seen" \in DOMAIN s
            BY FieldsOfState DEF Metered, ClockFields
        <3> QED BY <1>4, <2>4, <3>1 DEF Only
    <2> QED BY <2>2, <2>4, <2>5, <2>6, <2>7 DEF Timed, u
<1> QED BY <1>3, <1>4

LEMMA AveragesHold ==
    ASSUME Metered(st), clock \in Nat, Timed(st, clock)
    PROVE  UtilisationBounded
<1> SUFFICES ASSUME NEW tail \in {0, 1}
             PROVE  LET totals == ThreadTotals(st, tail)
                    IN  /\ totals[1] <= totals[2]
                        /\ totals[2] <= NProcess * totals[3]
    BY DEF UtilisationBounded, Timed
<1> DEFINE now == IF st.done THEN 0 ELSE tail
           w == WorkingThreads(st)
           k == BookedCapped(st)
<1>1. ThreadTotals(st, tail) = << st.thread_time + w * now, st.booked_time + k * now,
                                  st.thread_span + now >>
    BY DEF ThreadTotals
<1>2. w \in Nat /\ k \in Nat /\ w <= k /\ k <= NProcess /\ NProcess \in Nat
    BY ThreadsBounded, ProgramAssumption DEF Metered, S!BudgetAssumption
<1>3. now \in Nat
    OBVIOUS
<1> HIDE DEF now, w, k
<1>4. /\ st.thread_time + w * now <= st.booked_time + k * now
      /\ st.booked_time + k * now <= NProcess * (st.thread_span + now)
    BY <1>2, <1>3, Stretched DEF Timed
<1> QED BY <1>1, <1>4

LEMMA TickMetered ==
    ASSUME NEW s, Metered(s), NEW c \in Nat, Timed(s, c), NEW ts \in 0 .. c
    PROVE  LET u == ThreadTick(s, ts)
           IN  /\ Metered(u) /\ Timed(u, c) /\ u.active = s.active
               /\ u.n_process_logged = s.n_process_logged
<1> DEFINE u == ThreadTick(s, ts)
<1>1. /\ Timed(u, c)
      /\ Only(s, u, {"thread_time", "booked_time", "thread_span", "thread_last_ts"})
    BY TickTimed
<1> HIDE DEF u
<1>2. {"active", "tree", "n_process_logged", "threads_reported", "phase",
       "threads_seen"} \subseteq DOMAIN s
    BY FieldsOfState DEF Metered, ClockFields, StateFields, FreshState
<1>3. /\ DOMAIN u = DOMAIN s /\ u.active = s.active /\ u.tree = s.tree
      /\ u.phase = s.phase /\ u.threads_seen = s.threads_seen
      /\ u.n_process_logged = s.n_process_logged
      /\ u.threads_reported = s.threads_reported
    BY <1>1, <1>2 DEF Only
<1>4. LendingOK(u) /\ Ordered(u)
    BY <1>3 DEF Metered, LendingOK, Ordered
<1>5. BudgetRead(u)
    BY <1>3 DEF Metered, BudgetRead, Unread, InRoot
<1> QED BY <1>1, <1>3, <1>4, <1>5 DEF Metered, u

\* What the figures of a record are.
Figured(r) ==
    /\ r.fn = "scheduler" => r.val \in Nat
    /\ Configures(r) /\ r.action = "n process" => r.val = NProcess

LEMMA ConfigKeepsPhase ==
    ASSUME NEW s, DOMAIN s = StateFields, NEW r, Configures(r), NEW ts
    PROVE  Handle(s, r, ts).phase = s.phase
<1> DEFINE u == Handle(s, r, ts)
<1>1. u = HandleConfig(s, r.action, r.val)
    BY Zenon DEF Handle, Configures
<1> HIDE DEF u
<1>2. Only(s, u, ConfigFields(r.action))
    BY <1>1, OnlyConfig
<1>3. "phase" \notin ConfigFields(r.action)
    BY DEF ConfigFields, ConfigField, ShapeFields
<1>4. "phase" \in DOMAIN s
    BY DEF StateFields, FreshState
<1> QED BY <1>2, <1>3, <1>4 DEF Only, u

LEMMA HandleMetered ==
    ASSUME NEW s, Metered(s), NEW c \in Nat, Timed(s, c), NEW ts \in 0 .. c,
           NEW r, Line(r), Figured(r), s.n_process_logged = NProcess \/ Configures(r),
           NEW u, u = Handle(s, r, ts), LendingOK(u), Ordered(u)
    PROVE  Metered(u) /\ Timed(u, c)
<1>1. Clocked(s, u, r, ts)
    BY HandleClocked DEF Metered
<1>2. DOMAIN u = StateFields
    BY <1>1 DEF Clocked, Metered
<1>3. BudgetRead(u) /\ u.threads_reported \in Nat
    <2>1. u.threads_reported \in Nat
        BY <1>1 DEF Clocked, Metered, Figured
    <2>2. u.n_process_logged \in {s.n_process_logged, NProcess}
        BY <1>1 DEF Clocked, Figured
    <2>3. CASE s.n_process_logged # NProcess
        <3>1. Configures(r) /\ Unread(s)
            BY <2>3 DEF Metered, BudgetRead
        <3>2. u.phase = s.phase
            BY <3>1, ConfigKeepsPhase DEF Metered
        <3>3. ~Starts(r) /\ ~Donates(r) /\ r.fn # "scheduler"
            BY <3>1, Zenon DEF Configures, Starts, Donates
        <3>4. Unread(u)
            BY <1>1, <3>1, <3>2, <3>3 DEF Clocked, Unread, InRoot
        <3> QED BY <2>1, <2>2, <3>4 DEF Metered, BudgetRead
    <2> QED BY <2>1, <2>2, <2>3 DEF BudgetRead
<1>4. /\ u.thread_time \in Nat /\ u.booked_time \in Nat /\ u.thread_span \in Nat
      /\ u.thread_time <= u.booked_time
      /\ u.booked_time <= NProcess * u.thread_span
    BY <1>1 DEF Clocked, Timed
<1>5. /\ u.thread_last_ts \in Nat
      /\ u.thread_span <= u.thread_last_ts
      /\ u.thread_last_ts <= c
    <2>1. CASE u.thread_last_ts = s.thread_last_ts
        BY <1>1, <2>1 DEF Clocked, Timed
    <2>2. CASE u.thread_last_ts = ts /\ ~s.threads_seen
        <3>1. u.thread_span = 0
            BY <1>1, <2>2 DEF Clocked, Timed
        <3> QED BY <2>2, <3>1
    <2> QED BY <1>1, <2>1, <2>2 DEF Clocked
<1>6. u.threads_seen \/ u.thread_span = 0
    BY <1>1 DEF Clocked, Timed
<1> QED BY <1>2, <1>3, <1>4, <1>5, <1>6 DEF Metered, Timed

LEMMA FeedMetered ==
    ASSUME NEW s, Metered(s), NEW c \in Nat, Timed(s, c), NEW ts \in 0 .. c,
           NEW r, Line(r), Figured(r), s.n_process_logged = NProcess \/ Configures(r),
           NEW u, u = FeedLine(s, r, ts), LendingOK(u), Ordered(u)
    PROVE  Metered(u) /\ Timed(u, c)
<1> DEFINE v == IF r.fn \in Stamped THEN ThreadTick(s, ts) ELSE s
<1>1. u = Handle(v, r, ts)
    BY DEF FeedLine
<1>2. Metered(v) /\ Timed(v, c) /\ v.n_process_logged = s.n_process_logged
    BY TickMetered
<1> HIDE DEF v
<1> QED BY <1>1, <1>2, HandleMetered

-----------------------------------------------------------------------------
(* No record has a worker compute with more threads than it was granted.   *)

Books(r) == Starts(r) \/ Donates(r)

\* The threads an entry is shown to have been granted after r.
ShownGrant(s, r, p) ==
    IF Books(r) /\ p = r.pid THEN r.thr ELSE EntryOf(s, p).threads

LEMMA ToldOrdered ==
    ASSUME NEW s, LendingOK(s), Ordered(s), NEW u, NEW r, Told(s, u, r),
           Drops(r) \/ Books(r) \/ Configures(r) \/ Notes(r),
           Books(r) => /\ r.pid \in Node /\ r.thr \in Nat
                       /\ EntryOf(s, r.pid).threads <= r.thr,
           Configures(r) => DOMAIN s.active = {}
    PROVE  /\ LendingOK(u) /\ Ordered(u)
           /\ \A p \in DOMAIN u.active : u.active[p].threads = ShownGrant(s, r, p)
<1>1. CASE Books(r)
    <2>1. Booked(s, u, r)
        BY <1>1 DEF Told, Books
    <2> DEFINE e == EntryOf(s, r.pid)
    <2>2. Lent(e) /\ e.threads_live <= e.threads
        <3>1. CASE Known(s, r.pid)
            BY <3>1 DEF EntryOf, Known, Ordered, LendingOK
        <3>2. CASE ~Known(s, r.pid)
            BY <3>2 DEF EntryOf, NewEntry, Lent
        <3> QED BY <3>1, <3>2
    <2>3. LendingOK(u) /\ EntriesKept(s, u, {r.pid})
        BY <2>1 DEF Booked, Lends
    <2>4. ASSUME NEW p \in DOMAIN u.active
          PROVE  /\ u.active[p].threads_live <= u.active[p].threads
                 /\ u.active[p].threads = ShownGrant(s, r, p)
        <3>1. CASE p = r.pid
            <4>1. u.active[p].threads = r.thr
                BY <2>1, <3>1 DEF Booked
            <4>2. u.active[p].threads_live \in {r.thr, e.threads_live}
                BY <2>1, <3>1 DEF Booked
            <4> HIDE DEF e
            <4>3. u.active[p].threads_live <= r.thr
                BY <1>1, <2>2, <4>2 DEF Lent, e
            <4> QED BY <1>1, <3>1, <4>1, <4>3 DEF ShownGrant
        <3>2. CASE p # r.pid
            <4>1. p \in DOMAIN s.active /\ Loans(u.active[p]) = Loans(s.active[p])
                BY <2>3, <3>2 DEF EntriesKept
            <4> QED BY <3>2, <4>1 DEF Loans, Ordered, ShownGrant, EntryOf, Known
        <3> QED BY <3>1, <3>2
    <2> QED BY <2>3, <2>4 DEF Ordered
<1>2. ASSUME ~Books(r), NEW pids, Lends(s, u, pids),
             \A p \in pids : p \notin DOMAIN u.active
      PROVE  /\ LendingOK(u) /\ Ordered(u)
             /\ \A p \in DOMAIN u.active : u.active[p].threads = ShownGrant(s, r, p)
    <2>1. LendingOK(u) /\ EntriesKept(s, u, pids)
        BY <1>2 DEF Lends
    <2>2. \A p \in DOMAIN u.active :
            p \in DOMAIN s.active /\ Loans(u.active[p]) = Loans(s.active[p])
        BY <1>2, <2>1 DEF EntriesKept
    <2> QED BY <1>2, <2>1, <2>2 DEF Loans, Ordered, ShownGrant, EntryOf, Known
<1>3. CASE ~Books(r) /\ Drops(r)
    <2>1. Lends(s, u, {r.pid}) /\ r.pid \notin DOMAIN u.active
        BY <1>3 DEF Told
    <2> QED BY <1>2, <1>3, <2>1
<1>4. CASE ~Books(r) /\ (Configures(r) \/ Notes(r))
    <2>1. Lends(s, u, {})
        BY <1>4 DEF Told
    <2> QED BY <1>2, <1>4, <2>1
<1> QED BY <1>1, <1>3, <1>4

LEMMA WorkerOrdered ==
    ASSUME NEW s, LendingOK(s), Ordered(s), NEW u, NEW n, NEW raised,
           WorkerLends(s, u, n, raised)
    PROVE  /\ LendingOK(u) /\ Ordered(u)
           /\ \A p \in DOMAIN u.active : u.active[p].threads = EntryOf(s, p).threads
<1>1. LendingOK(u) /\ EntriesKept(s, u, {n})
    BY DEF WorkerLends, Lends
<1>2. ASSUME NEW p \in DOMAIN u.active
      PROVE  /\ u.active[p].threads_live <= u.active[p].threads
             /\ u.active[p].threads = EntryOf(s, p).threads
    <2> DEFINE e == EntryOf(s, p)
    <2>1. Lent(e) /\ e.threads_live <= e.threads
        <3>1. CASE Known(s, p)
            BY <3>1 DEF EntryOf, Known, Ordered, LendingOK
        <3>2. CASE ~Known(s, p)
            BY <3>2 DEF EntryOf, NewEntry, Lent
        <3> QED BY <3>1, <3>2
    <2>2. CASE p = n
        <3>1. /\ u.active[p].threads = e.threads
              /\ u.active[p].threads_live \in {e.threads_live, u.active[p].threads}
            BY <2>2 DEF WorkerLends
        <3> HIDE DEF e
        <3>2. u.active[p].threads_live <= u.active[p].threads
            BY <2>1, <3>1 DEF Lent
        <3> QED BY <3>1, <3>2 DEF e
    <2>3. CASE p # n
        <3>1. p \in DOMAIN s.active /\ Loans(u.active[p]) = Loans(s.active[p])
            BY <1>1, <2>3 DEF EntriesKept
        <3> QED BY <3>1 DEF Loans, Ordered, EntryOf, Known
    <2> QED BY <2>2, <2>3
<1> QED BY <1>1, <1>2 DEF Ordered

-----------------------------------------------------------------------------
(* The budget is read before anything it applies to.                       *)

BudgetLine(r) == Configures(r) /\ r.action = "n process" /\ r.val = NProcess

\* The budget is still to be logged, after other lines of the configuration.
Announced(q) ==
    \E j \in 1 .. Len(q) : BudgetLine(q[j]) /\ \A i \in 1 .. j : Configures(q[i])

\* It has been read, or is to come before any worker is there to lose it, or goes
\* down with the machine.
Reported ==
    \/ st.n_process_logged = NProcess
    \/ /\ \A i \in S!Slots : phase[i] \notin S!Live
       /\ Announced(out) \/ (pc = "down" /\ out = << >>)

LEMMA AnnouncedFacts ==
    /\ ~Announced(<< >>)
    /\ \A p, q : Quiet(p) /\ Quiet(q) /\ Announced(p) => Announced(p \o q)
    /\ \A q : Quiet(q) /\ Announced(q) =>
            /\ q # << >> /\ Configures(Head(q))
            /\ BudgetLine(Head(q)) \/ Announced(Tail(q))
<1>1. ~Announced(<< >>)
    BY DEF Announced
<1>2. ASSUME NEW p, NEW q, Quiet(p), Quiet(q), Announced(p) PROVE Announced(p \o q)
    <2>1. PICK j \in 1 .. Len(p) : BudgetLine(p[j]) /\ \A i \in 1 .. j : Configures(p[i])
        BY <1>2 DEF Announced
    <2>2. PICK Early, Late : p \in Seq(Early) /\ q \in Seq(Late)
        BY <1>2 DEF Quiet
    <2>3. /\ Len(p \o q) = Len(p) + Len(q) /\ Len(p) \in Nat /\ Len(q) \in Nat
          /\ \A i \in 1 .. Len(p) : (p \o q)[i] = p[i]
        <3>1. p \in Seq(Early \cup Late) /\ q \in Seq(Early \cup Late)
            BY <2>2
        <3> QED BY <3>1
    <2>4. j \in 1 .. Len(p \o q) /\ \A i \in 1 .. j : i \in 1 .. Len(p)
        BY <2>3
    <2> QED BY <2>1, <2>3, <2>4 DEF Announced
<1>3. ASSUME NEW q, Quiet(q), Announced(q)
      PROVE  /\ q # << >> /\ Configures(Head(q))
             /\ BudgetLine(Head(q)) \/ Announced(Tail(q))
    <2>1. PICK j \in 1 .. Len(q) : BudgetLine(q[j]) /\ \A i \in 1 .. j : Configures(q[i])
        BY <1>3 DEF Announced
    <2>2. PICK A : q \in Seq(A)
        BY <1>3 DEF Quiet
    <2>3. /\ q # << >> /\ Head(q) = q[1] /\ 1 \in 1 .. j
          /\ Len(Tail(q)) = Len(q) - 1
          /\ \A i \in 1 .. Len(q) - 1 : Tail(q)[i] = q[i + 1]
        BY <2>1, <2>2
    <2>4. CASE j = 1
        BY <2>1, <2>3, <2>4
    <2>5. CASE j # 1
        <3>1. /\ j - 1 \in 1 .. Len(q) - 1
              /\ \A i \in 1 .. j - 1 : i \in 1 .. Len(q) - 1 /\ i + 1 \in 1 .. j
              /\ (j - 1) + 1 = j
            BY <2>1, <2>2, <2>5
        <3>2. BudgetLine(Tail(q)[j - 1]) /\ \A i \in 1 .. j - 1 : Configures(Tail(q)[i])
            BY <2>1, <2>3, <3>1
        <3> QED BY <2>1, <2>3, <3>1, <3>2 DEF Announced
    <2> QED BY <2>4, <2>5
<1> QED BY <1>1, <1>2, <1>3

LEMMA FirstAnnounced == \A b : \A lines \in FirstLines(b) : Announced(lines)
<1>1. Announced(ConfigLines)
    <2>1. PICK j \in DOMAIN Config : Config[j][1] = "n process"
        BY ReportAssumption
    <2>2. Len(Config) \in Nat /\ DOMAIN Config = 1 .. Len(Config)
        BY ConfigAssumption
    <2>3. /\ DOMAIN ConfigLines = DOMAIN Config /\ Len(ConfigLines) = Len(Config)
        BY <2>2 DEF ConfigLines
    <2>4. ASSUME NEW i \in DOMAIN Config
          PROVE  /\ Configures(ConfigLines[i])
                 /\ ConfigLines[i].action = Config[i][1] /\ ConfigLines[i].val = Config[i][2]
        <3>1. ConfigLines[i] = [fn |-> "pi_tree", action |-> Config[i][1],
                                val |-> Config[i][2]]
            BY DEF ConfigLines
        <3>2. \A a, v : /\ Configures([fn |-> "pi_tree", action |-> a, val |-> v])
            BY KindsOfLines, Zenon
        <3>3. Configures(ConfigLines[i])
            BY <3>1, <3>2
        <3> QED BY <3>1, <3>3
    <2>5. BudgetLine(ConfigLines[j])
        BY <2>1, <2>4, ReportAssumption DEF BudgetLine
    <2>6. j \in 1 .. Len(ConfigLines) /\ \A i \in 1 .. j : i \in DOMAIN Config
        BY <2>2, <2>3
    <2> QED BY <2>4, <2>5, <2>6 DEF Announced
<1> DEFINE one == <<StoredLine(S!Root)>>
           two == <<RootLine("pi already stored")>>
<1>2. Quiet(ConfigLines) /\ Quiet(ShowLines) /\ Quiet(FinishLines) /\ Quiet(one) /\ Quiet(two)
    BY ConfigLinesQuiet, RootLinesQuiet, SchedulerLinesQuiet, RootLineQuiet, Zenon
       DEF PhaseActions
<1>3. \A b : \A lines \in FirstLines(b) :
        \/ lines = ConfigLines
        \/ lines = (ConfigLines \o one) \o FinishLines
        \/ lines = (ConfigLines \o two) \o ShowLines
    BY Zenon DEF FirstLines
<1> HIDE DEF one, two
<1>4. Quiet(ConfigLines \o one) /\ Quiet(ConfigLines \o two)
    BY <1>2, QuietLines, Zenon
<1>5. Announced(ConfigLines \o one) /\ Announced(ConfigLines \o two)
    BY <1>1, <1>2, AnnouncedFacts, Zenon
<1>6. /\ Announced((ConfigLines \o one) \o FinishLines)
      /\ Announced((ConfigLines \o two) \o ShowLines)
    BY <1>2, <1>4, <1>5, AnnouncedFacts, Zenon
<1> QED BY <1>1, <1>3, <1>6

\* Once read, the budget stays; its own line brings it.
LEMMA BudgetStays ==
    ASSUME NEW s, Metered(s), NEW c \in Nat, Timed(s, c), NEW ts \in 0 .. c,
           NEW r, Line(r), Figured(r), s.n_process_logged = NProcess \/ BudgetLine(r)
    PROVE  FeedLine(s, r, ts).n_process_logged = NProcess
<1> DEFINE v == IF r.fn \in Stamped THEN ThreadTick(s, ts) ELSE s
           u == Handle(v, r, ts)
<1>1. FeedLine(s, r, ts) = u
    BY DEF FeedLine
<1>2. DOMAIN v = StateFields /\ v.n_process_logged = s.n_process_logged
    BY TickMetered DEF Metered
<1> HIDE DEF v
<1>3. CASE BudgetLine(r)
    <2>1. u = HandleConfig(v, "n process", NProcess)
        BY <1>3, Zenon DEF Handle, BudgetLine, Configures
    <2>2. HandleConfig(v, "n process", NProcess).n_process_logged = NProcess
        BY <1>2, LimitsConfigured
    <2> QED BY <1>1, <2>1, <2>2
<1>4. CASE s.n_process_logged = NProcess
    <2>1. Clocked(v, u, r, ts)
        BY <1>2, HandleClocked
    <2> HIDE DEF u
    <2> QED BY <1>1, <1>2, <1>4, <2>1 DEF Clocked, Figured
<1> QED BY <1>3, <1>4

-----------------------------------------------------------------------------
(* The inductive invariant of the averages.                                *)

\* No task is shown with more than its slot grants.
Granted(s) ==
    \A i \in S!Active :
        tasks[i] \in DOMAIN s.active => s.active[tasks[i]].threads <= slot[i].threads

\* A grant that is still to be logged is the one in the slot.
Tells(r) ==
    /\ Figured(r)
    /\ Books(r) => \E i \in S!Active : r.pid = tasks[i] /\ r.thr = slot[i].threads

UtilInv ==
    /\ LentInv
    /\ clock \in Nat
    /\ Metered(st)
    /\ Timed(st, clock)
    /\ Reported
    /\ Granted(st)
    /\ \A r \in Logged(out) : Tells(r)

LEMMA ActiveFacts ==
    ASSUME P!IInv
    PROVE  /\ \A i \in S!Active : /\ i \in S!Slots /\ tasks[i] \in Node
                                  /\ slot[i].threads \in Nat
           /\ \A i, j \in S!Active : i # j => tasks[i] # tasks[j]
<1>1. \A i \in S!Active : i \in S!Slots /\ tasks[i] \in Node /\ slot[i].threads \in Nat
    BY ComputingFacts
<1>2. \A i, j \in S!Active : i # j => tasks[i] # tasks[j]
    BY SameBooks DEF P!IInv, P!TasksSeparate
<1> QED BY <1>1, <1>2

LEMMA TimedLater ==
    ASSUME NEW s, NEW c \in Nat, Timed(s, c), NEW d \in Nat, c <= d
    PROVE  Timed(s, d)
BY DEF Timed

LEMMA FitsKinds ==
    ASSUME NEW r, Fits(r)
    PROVE  /\ Drops(r) \/ Books(r) \/ Configures(r) \/ Notes(r)
           /\ Configures(r) => DOMAIN st.active = {}
<1>1. Drops(r) \/ Books(r) \/ Configures(r) \/ Notes(r)
    BY DEF Fits, Books
<1>2. ASSUME Configures(r) PROVE ~Drops(r) /\ ~Books(r) /\ ~Notes(r)
    BY <1>2, Zenon DEF Configures, Drops, Books, Starts, Donates, Notes
<1>3. Configures(r) => DOMAIN st.active = {}
    BY <1>2 DEF Fits, Books
<1> QED BY <1>1, <1>3

\* A step that does not reach the dashboard.
LEMMA SettledUtil ==
    ASSUME UtilInv, LentInv', Reported', st' = st, clock' \in Nat, clock <= clock',
           \A i \in (S!Active)' :
              \/ i \in S!Active /\ tasks'[i] = tasks[i] /\ slot[i].threads <= slot'[i].threads
              \/ tasks'[i] \notin DOMAIN st.active,
           \A r \in Logged(out') : Tells(r)'
    PROVE  UtilInv'
<1>1. Metered(st') /\ Timed(st', clock')
    BY TimedLater DEF UtilInv
<1>2. Granted(st)'
    <2> SUFFICES ASSUME NEW i \in (S!Active)', tasks'[i] \in DOMAIN st.active
                 PROVE  st.active[tasks'[i]].threads <= slot'[i].threads
        BY DEF Granted
    <2>1. i \in S!Active /\ tasks'[i] = tasks[i] /\ slot[i].threads <= slot'[i].threads
        OBVIOUS
    <2>2. st.active[tasks[i]].threads <= slot[i].threads
        BY <2>1 DEF UtilInv, Granted
    <2>3. st.active[tasks[i]].threads \in Nat
        BY <2>1 DEF UtilInv, Metered, LendingOK, Lent
    <2>4. slot[i].threads \in Nat
        BY <2>1, ActiveFacts DEF UtilInv, LentInv, TrailInv
    <2>5. slot'[i].threads \in Nat
        <3>1. P!IInv'
            BY DEF LentInv, TrailInv
        <3>2. P!GInv'
            BY DEF LentInv
        <3>3. i \in S!Slots
            BY <2>1, ActiveFacts DEF UtilInv, LentInv, TrailInv
        <3> QED BY <3>1, <3>2, <3>3, NewBooks
    <2> QED BY <2>1, <2>2, <2>3, <2>4, <2>5
<1>3. \A r \in Logged(out)' : Tells(r)'
    BY DEF Logged
<1> QED BY <1>1, <1>2, <1>3 DEF UtilInv

\* A line that is not of the books has only its figures to be right.
LEMMA TellsStill ==
    /\ \A r : Figured(r) /\ ~Books(r) => Tells(r)'
    /\ \A r : Tells(r) /\ (S!Active)' = S!Active /\ tasks' = tasks
                /\ (\A i \in S!Active : slot'[i].threads = slot[i].threads) => Tells(r)'
BY DEF Tells, Figured, Books, Starts, Donates, Configures

LEMMA SchedulerLogsUtil ==
    ASSUME UtilInv, LentInv', Reported', SchedulerLogs
    PROVE  UtilInv'
<1> DEFINE r == Head(out)
<1>1. /\ Line(r) /\ Fits(r) /\ Tells(r) /\ Logged(out) = {r} \cup Logged(out')
      /\ UNCHANGED <<program, workers, clock>>
    <2>1. Quiet(out) /\ out # << >>
        BY DEF UtilInv, LentInv, TrailInv, SchedulerLogs
    <2>2. Line(r) /\ Logged(out) = {r} \cup Logged(Tail(out))
        BY <2>1, QuietLines, LoggedLines
    <2> QED BY <2>2 DEF SchedulerLogs, LentInv, UtilInv
<1>2. UNCHANGED <<tasks, slot, clock>> /\ (S!Active)' = S!Active
    BY <1>1 DEF program, S!Active, S!Slots
<1>3. LendingOK(st) /\ Metered(st) /\ Ordered(st) /\ clock \in Nat /\ Timed(st, clock)
    BY DEF UtilInv, Metered
<1>7. out # << >> /\ (Announced(out) => Configures(r))
    BY AnnouncedFacts DEF UtilInv, LentInv, TrailInv, SchedulerLogs
<1>4. CASE st' = st
    <2>1. \A i \in (S!Active)' : i \in S!Active /\ slot[i].threads <= slot'[i].threads
        BY <1>2, ActiveFacts DEF UtilInv, LentInv, TrailInv
    <2>2. \A x \in Logged(out') : Tells(x)'
        BY <1>1, <1>2, TellsStill DEF UtilInv
    <2> QED BY <1>2, <1>3, <1>4, <2>1, <2>2, SettledUtil
<1>5. CASE \E ts \in 0 .. clock : st' = FeedLine(st, r, ts)
    <2>1. PICK ts \in 0 .. clock : st' = FeedLine(st, r, ts)
        BY <1>5
    <2> HIDE DEF r
    <2>2. Told(st, st', r)
        BY <1>1, <1>3, <2>1, FeedLineTells
    <2>3. /\ Drops(r) \/ Books(r) \/ Configures(r) \/ Notes(r)
          /\ Configures(r) => DOMAIN st.active = {}
        BY <1>1, FitsKinds
    <2>4. ASSUME Books(r)
          PROVE  \E i \in S!Active : /\ r.pid = tasks[i] /\ r.thr = slot[i].threads
                                     /\ tasks[i] \in Node /\ slot[i].threads \in Nat
        BY <1>1, <2>4, ActiveFacts DEF Tells, UtilInv, LentInv, TrailInv
    <2>5. Books(r) => /\ r.pid \in Node /\ r.thr \in Nat
                      /\ EntryOf(st, r.pid).threads <= r.thr
        <3> SUFFICES ASSUME Books(r)
                     PROVE  /\ r.pid \in Node /\ r.thr \in Nat
                            /\ EntryOf(st, r.pid).threads <= r.thr
            OBVIOUS
        <3>1. PICK i \in S!Active : /\ r.pid = tasks[i] /\ r.thr = slot[i].threads
                                    /\ tasks[i] \in Node /\ slot[i].threads \in Nat
            BY <2>4
        <3> QED BY <3>1 DEF EntryOf, Known, NewEntry, UtilInv, Granted
    <2>6. /\ LendingOK(st') /\ Ordered(st')
          /\ \A p \in DOMAIN st'.active : st'.active[p].threads = ShownGrant(st, r, p)
        BY <1>3, <2>2, <2>3, <2>5, ToldOrdered
    <2>7. Metered(st') /\ Timed(st', clock)
        <3>1. st.n_process_logged = NProcess \/ Configures(r)
            BY <1>7 DEF UtilInv, Reported
        <3> QED BY <1>1, <1>3, <2>1, <2>6, <3>1, FeedMetered DEF Tells
    <2>8. ASSUME NEW i \in S!Active, tasks[i] \in DOMAIN st'.active
          PROVE  st'.active[tasks[i]].threads <= slot[i].threads
        <3>0. slot[i].threads \in Nat
            BY ActiveFacts DEF UtilInv, LentInv, TrailInv
        <3>1. CASE Books(r) /\ tasks[i] = r.pid
            <4>1. PICK j \in S!Active : r.pid = tasks[j] /\ r.thr = slot[j].threads
                BY <2>4, <3>1
            <4>2. j = i
                BY <3>1, <4>1, ActiveFacts DEF UtilInv, LentInv, TrailInv
            <4> QED BY <2>6, <2>8, <3>0, <3>1, <4>1, <4>2 DEF ShownGrant
        <3>2. CASE ~(Books(r) /\ tasks[i] = r.pid)
            <4>1. st'.active[tasks[i]].threads = EntryOf(st, tasks[i]).threads
                BY <2>6, <2>8, <3>2 DEF ShownGrant
            <4> QED BY <3>0, <4>1 DEF EntryOf, Known, NewEntry, UtilInv, Granted
        <3> QED BY <3>1, <3>2
    <2>9. Granted(st)'
        BY <1>2, <2>8 DEF Granted
    <2>10. \A x \in Logged(out)' : Tells(x)'
        BY <1>1, <1>2, TellsStill DEF UtilInv, Logged
    <2> QED BY <1>2, <1>3, <2>7, <2>9, <2>10 DEF UtilInv
<1>6. st' = st \/ \E ts \in 0 .. clock : st' = FeedLine(st, r, ts)
    BY <1>3 DEF SchedulerLogs, Feed
<1> QED BY <1>4, <1>5, <1>6

LEMMA WorkerStepsUtil ==
    ASSUME UtilInv, LentInv', Reported', NEW i \in S!Slots, WorkerSteps(i)
    PROVE  UtilInv'
<1> DEFINE n == tasks[i]
           r == Record(i)
<1>1. TrailInv /\ P!IInv /\ LentInv
    BY DEF UtilInv, LentInv, TrailInv
<1>2. /\ tasks' = tasks /\ out' = out /\ clock' = clock /\ i \in Computing
      /\ (S!Active)' = S!Active
    BY <1>1, WorkerMoves DEF Computing, WorkerSteps, S!Active, S!Slots
<1>3. /\ \A j \in S!Active : slot'[j].threads = slot[j].threads
      /\ \A j \in S!Active : slot[j].threads \in Nat
    BY <1>1, WorkerGrants, ActiveFacts
<1>4. LendingOK(st) /\ Metered(st) /\ Ordered(st) /\ clock \in Nat /\ Timed(st, clock)
    BY DEF UtilInv, Metered
<1>5. \A x \in Logged(out') : Tells(x)'
    BY <1>2, <1>3, TellsStill DEF UtilInv
<1>6. CASE st' = st
    <2>1. \A j \in (S!Active)' : j \in S!Active /\ slot[j].threads <= slot'[j].threads
        BY <1>2, <1>3
    <2> QED BY <1>2, <1>4, <1>5, <1>6, <2>1, SettledUtil
<1>7. CASE Now(i).r # Silent /\ \E ts \in 0 .. clock : st' = FeedLine(st, r, ts)
    <2>1. PICK ts \in 0 .. clock : st' = FeedLine(st, r, ts)
        BY <1>7
    <2>2. Mine(n, r) /\ n \in Node
        BY <1>1, <1>2, <1>7, RecordMine, ComputingFacts
    <2> HIDE DEF r, n
    <2>3. Line(r)
        BY <2>2, Zenon DEF Mine, Line, NodeActions
    <2>4. WorkerLends(st, st', n, Raises(r))
        BY <1>4, <2>1, <2>2, FeedLineLends
    <2>5. /\ LendingOK(st') /\ Ordered(st')
          /\ \A p \in DOMAIN st'.active : st'.active[p].threads = EntryOf(st, p).threads
        BY <1>4, <2>4, WorkerOrdered
    <2>6. Figured(r)
        BY <2>2, Zenon DEF Mine, Figured, Configures
    <2>7. Metered(st') /\ Timed(st', clock)
        <3>1. st.n_process_logged = NProcess
            BY <1>2 DEF UtilInv, Reported, Computing
        <3> QED BY <1>4, <2>1, <2>3, <2>5, <2>6, <3>1, FeedMetered
    <2>8. Granted(st)'
        <3> SUFFICES ASSUME NEW j \in S!Active, tasks[j] \in DOMAIN st'.active
                     PROVE  st'.active[tasks[j]].threads <= slot[j].threads
            BY <1>2, <1>3 DEF Granted
        <3>1. st'.active[tasks[j]].threads = EntryOf(st, tasks[j]).threads
            BY <2>5
        <3> QED BY <1>3, <3>1 DEF EntryOf, Known, NewEntry, UtilInv, Granted
    <2>9. \A x \in Logged(out)' : Tells(x)'
        BY <1>5 DEF Logged
    <2> QED BY <1>2, <1>4, <2>7, <2>8, <2>9 DEF UtilInv
<1>8. \/ st' = st
      \/ Now(i).r # Silent /\ \E ts \in 0 .. clock : st' = FeedLine(st, r, ts)
    BY <1>4 DEF WorkerSteps, Feed
<1> QED BY <1>6, <1>7, <1>8

LEMMA FiguredKinds ==
    /\ \A r : Drops(r) \/ Remarks(r) => Figured(r) /\ ~Books(r)
    /\ \A r : Books(r) => Figured(r)
    /\ \A a, v : v \in Nat => Figured(SchedulerLine(a, v)) /\ ~Books(SchedulerLine(a, v))
    /\ \A r \in Logged(ConfigLines) : Figured(r) /\ ~Books(r)
<1>1. ASSUME NEW r
      PROVE  /\ Drops(r) \/ Remarks(r) => Figured(r) /\ ~Books(r)
             /\ Books(r) => Figured(r)
             /\ r.fn = "scheduler" /\ r.val \in Nat => Figured(r) /\ ~Books(r)
             /\ r.fn = "pi_tree" /\ (r.action = "n process" => r.val = NProcess)
                    => Figured(r) /\ ~Books(r)
    BY Zenon DEF Drops, Remarks, Books, Starts, Donates, Configures, Figured
<1>2. \A a, v : SchedulerLine(a, v).fn = "scheduler" /\ SchedulerLine(a, v).val = v
    BY DEF SchedulerLine
<1>3. ASSUME NEW r \in Logged(ConfigLines) PROVE Figured(r) /\ ~Books(r)
    <2>1. PICK j \in DOMAIN Config :
            r = [fn |-> "pi_tree", action |-> Config[j][1], val |-> Config[j][2]]
        BY DEF Logged, ConfigLines
    <2>2. r.fn = "pi_tree" /\ r.action = Config[j][1] /\ r.val = Config[j][2]
        BY <2>1
    <2>3. r.action = "n process" => r.val = NProcess
        BY <2>2, ReportAssumption
    <2> QED BY <1>1, <2>2, <2>3
<1> HIDE DEF SchedulerLine
<1> QED BY <1>1, <1>2, <1>3

LEMMA LaunchUtil ==
    ASSUME UtilInv, LentInv', Reported', Launch
    PROVE  UtilInv'
<1>0. LentInv /\ TrailInv' /\ P!GInv' /\ P!IInv /\ P!TypeOK /\ clock \in Nat
    BY DEF UtilInv, LentInv, TrailInv, P!IInv
<1>1. PICK i \in S!Slots, n \in Node, lines \in StoredLines : Launches(i, n, lines)
    BY <1>0, LaunchFacts
<1> DEFINE line == TaskLine("task_start", n, plan'[n])
<1>2. clock' = clock
    BY DEF Launch
<1>3. /\ st' = st /\ ~Begun(n) /\ i \in (S!Active)' /\ tasks'[i] = n
      /\ slot'[i].threads = took'[i]
      /\ \A j \in S!Slots \ {i} : tasks'[j] = tasks[j] /\ slot'[j] = slot[j]
      /\ Starts(line) /\ line.pid = n /\ line.thr = took'[i]
      /\ Logged(out') = Logged(lines) \cup {line}
    BY <1>1 DEF Launches
<1> HIDE DEF line
<1>4. ASSUME NEW j \in (S!Active)'
      PROVE  \/ j \in S!Active /\ tasks'[j] = tasks[j] /\ slot[j].threads <= slot'[j].threads
             \/ tasks'[j] \notin DOMAIN st.active
    <2>1. CASE j = i
        BY <1>0, <1>3, <2>1 DEF LentInv, Unlent
    <2>2. CASE j # i
        <3>1. j \in S!Active /\ tasks'[j] = tasks[j] /\ slot'[j] = slot[j]
            BY <1>3, <2>2 DEF S!Active, S!Slots
        <3> QED BY <1>0, <3>1, ActiveFacts
    <2> QED BY <2>1, <2>2
<1>5. ASSUME NEW r \in Logged(out') PROVE Tells(r)'
    <2>1. CASE r = line
        <3>1. Figured(r)
            BY <1>3, <2>1, FiguredKinds DEF Books
        <3> QED BY <1>3, <2>1, <3>1 DEF Tells, Figured, Configures, Books
    <2>2. CASE r \in Logged(lines)
        BY <1>0, <2>2, LinesOfStored, FiguredKinds, TellsStill
    <2> QED BY <1>3, <2>1, <2>2
<1> QED BY <1>0, <1>2, <1>3, <1>4, <1>5, SettledUtil

\* A step that leaves the tasks and their slots as they are, and logs no booking.
LEMMA QuietUtil ==
    ASSUME UtilInv, LentInv', Reported', st' = st, clock' \in Nat, clock <= clock',
           \A i \in (S!Active)' : i \in S!Active /\ tasks'[i] = tasks[i] /\ slot'[i] = slot[i],
           \A r \in Logged(out') : Figured(r) /\ ~Books(r)
    PROVE  UtilInv'
<1>1. \A i \in (S!Active)' :
        i \in S!Active /\ tasks'[i] = tasks[i] /\ slot[i].threads <= slot'[i].threads
    BY ActiveFacts DEF UtilInv, LentInv, TrailInv
<1>2. \A r \in Logged(out') : Tells(r)'
    BY TellsStill
<1> QED BY <1>1, <1>2, SettledUtil

LEMMA EndLaunchUtil ==
    ASSUME UtilInv, LentInv', Reported', EndLaunch
    PROVE  UtilInv'
<1>0. P!IInv /\ P!TypeOK /\ clock \in Nat
    BY DEF UtilInv, LentInv, TrailInv, P!IInv
<1>1. UNCHANGED <<tasks, slot, st, clock>>
    BY DEF EndLaunch, S!EndLaunch
<1>2. PICK lines \in StoredLines : out' = lines \o HaltLines
    BY DEF EndLaunch
<1>3. Logged(out') = Logged(lines) \cup Logged(HaltLines)
    <2>1. Quiet(lines) /\ Quiet(HaltLines)
        BY <1>0, StoredLinesQuiet, HaltLinesQuiet
    <2> QED BY <1>2, <2>1, LoggedLines, Zenon
<1>4. \A r \in Logged(out') : Figured(r) /\ ~Books(r)
    BY <1>0, <1>3, LinesOfHalt, LinesOfStored, FiguredKinds
<1>5. (S!Active)' = S!Active
    BY <1>1 DEF S!Active, S!Slots
<1> QED BY <1>0, <1>1, <1>4, <1>5, QuietUtil

LEMMA DonateUtil ==
    ASSUME UtilInv, LentInv', Reported', Donate
    PROVE  UtilInv'
<1>0. LentInv /\ P!IInv /\ P!IInv' /\ P!GInv /\ P!GInv' /\ clock \in Nat
    BY DEF UtilInv, LentInv, TrailInv
<1>1. /\ out = << >> /\ UNCHANGED <<workers, clock, lost, st>>
      /\ S!DonateLoad \/ S!DonateRefused \/ S!DonateAccepted \/ S!DonateEnd
    BY Zenon DEF Donate
<1>2. tasks' = tasks /\ (S!Active)' = S!Active
    BY <1>1 DEF S!DonateLoad, S!DonateRefused, S!DonateAccepted, S!DonateEnd, S!Active,
                S!Slots
<1>3. CASE UNCHANGED slot /\ \A r \in Logged(out') : Figured(r) /\ ~Books(r)
    BY <1>0, <1>1, <1>2, <1>3, QuietUtil
<1>4. CASE (S!DonateLoad \/ S!DonateRefused) /\ UNCHANGED out
    <2>1. UNCHANGED slot
        BY <1>4 DEF S!DonateLoad, S!DonateRefused
    <2> QED BY <1>1, <1>3, <1>4, <2>1, LoggedLines
<1>5. CASE /\ S!DonateEnd
           /\ out' = <<SchedulerLine("active processes", Cardinality(S!Active)),
                       SchedulerLine("active threads", total_threads),
                       SchedulerLine("active memory", total_mem_cost)>>
    <2>1. UNCHANGED slot
        BY <1>5, Zenon DEF S!DonateEnd
    <2>2. \A x, y, z :
            /\ Figured(x) /\ ~Books(x) /\ Figured(y) /\ ~Books(y) /\ Figured(z) /\ ~Books(z)
            => \A r \in Logged(<<x, y, z>>) : Figured(r) /\ ~Books(r)
        <3>1. \A x, y, z : Logged(<<x, y, z>>) = {x, y, z}
            BY LoggedLines
        <3> QED BY <3>1
    <2>3. /\ Cardinality(S!Active) \in Nat
          /\ total_threads \in Nat /\ total_mem_cost \in Nat
        <3>1. IsFiniteSet(S!Active)
            <4>1. S!Active \subseteq 0 .. NProcess - 1
                BY DEF S!Active, S!Slots
            <4>2. 0 \in Int /\ NProcess - 1 \in Int
                BY ProgramAssumption DEF S!BudgetAssumption
            <4>3. IsFiniteSet(0 .. NProcess - 1)
                BY <4>2, FS_Interval
            <4> QED BY <4>1, <4>3, FS_Subset
        <3>2. Cardinality(S!Active) \in Nat
            BY <3>1, FS_CardinalityType
        <3> QED BY <1>0, <3>2 DEF P!IInv, P!TypeOK
    <2>4. \A r \in Logged(out') : Figured(r) /\ ~Books(r)
        BY <1>5, <2>2, <2>3, FiguredKinds, Zenon
    <2> QED BY <1>3, <2>1, <2>4
<1>6. CASE /\ S!DonateAccepted
           /\ out' = <<TaskLine("task_donate", tasks[di], plan'[tasks[di]])>>
    <2> DEFINE n == tasks[di]
               line == TaskLine("task_donate", n, plan'[n])
    <2>1. PICK t : t = S!OfferThreads(n)
        OBVIOUS
    <2>2. /\ pc = "offer" /\ t > plan[n].threads
          /\ slot' = [slot EXCEPT ![di].threads = t]
        BY <1>6, <2>1 DEF S!DonateAccepted, S!OfferHolds
    <2>3. di \in S!Active /\ di \in S!Slots
        BY <1>0, <2>2, SameBooks DEF P!IInv, P!TasksKnown, S!Active, S!Slots
    <2>4. slot \in [S!Slots -> [threads : 0 .. NProcess, closed : BOOLEAN]]
        BY <1>0, SameTree DEF P!IInv, P!TypeOK
    <2>5. slot[di].threads = plan[n].threads /\ slot[di].threads \in Nat
        BY <1>0, <2>3, SameBooks, ActiveFacts DEF P!GInv, P!SlotIsPlan
    <2>6. slot'[di].threads = t /\ \A i \in S!Slots \ {di} : slot'[i] = slot[i]
        BY <2>2, <2>3, <2>4
    <2>7. slot'[di].threads = plan'[n].threads /\ slot'[di].threads \in Nat
        BY <1>0, <1>2, <2>3, NewBooks
    <2>8. \A i \in (S!Active)' :
            i \in S!Active /\ tasks'[i] = tasks[i] /\ slot[i].threads <= slot'[i].threads
        <3> SUFFICES ASSUME NEW i \in S!Active PROVE slot[i].threads <= slot'[i].threads
            BY <1>2
        <3>1. slot[i].threads \in Nat /\ i \in S!Slots
            BY <1>0, ActiveFacts
        <3>2. CASE i = di
            BY <2>2, <2>5, <2>6, <2>7, <3>2
        <3>3. CASE i # di
            BY <2>6, <3>1, <3>3
        <3> QED BY <3>2, <3>3
    <2>9. Donates(line) /\ line.pid = n /\ line.thr = plan'[n].threads /\ Logged(out') = {line}
        <3>1. Donates(line)
            BY KindsOfLines, Zenon
        <3>2. line.pid = n /\ line.thr = plan'[n].threads
            BY LineFields
        <3>3. Logged(out') = {line}
            BY <1>6, LoggedLines, Zenon
        <3> HIDE DEF line
        <3> QED BY <3>1, <3>2, <3>3
    <2> HIDE DEF line
    <2>10. Figured(line)
        BY <2>9, FiguredKinds DEF Books
    <2>11. ASSUME NEW r \in Logged(out') PROVE Tells(r)'
        BY <1>2, <2>3, <2>7, <2>9, <2>10 DEF Tells, Figured, Configures, Books
    <2> QED BY <1>0, <1>1, <2>8, <2>11, SettledUtil
<1> QED BY <1>4, <1>5, <1>6, Zenon DEF Donate

LEMMA ReapUtil ==
    ASSUME UtilInv, LentInv', Reported', NEW i \in S!Slots, Reap(i)
    PROVE  UtilInv'
<1>0. P!IInv /\ P!TypeOK /\ clock \in Nat
    BY DEF UtilInv, LentInv, TrailInv, P!IInv
<1>1. UNCHANGED <<st, clock>>
    BY DEF Reap
<1> DEFINE ended == [fn |-> "task_end", pid |-> tasks[i]]
           checked == [fn |-> "task_check_exit", pid |-> tasks[i]]
<1>2. Drops(ended) /\ Drops(checked)
    BY KindsOfLines, Zenon
<1>3. CASE S!TaskEnd(i) /\ out' = <<ended>> \o
                                    (IF tasks[i] = S!Root THEN FinishLines ELSE << >>)
    <2>1. tasks' = [tasks EXCEPT ![i] = NoNode] /\ slot' = slot
        BY <1>3 DEF S!TaskEnd
    <2>2. tasks \in [S!Slots -> Node \cup {NoNode}]
        BY <1>0, WorkerFacts
    <2>3. \A j \in (S!Active)' : j \in S!Active /\ tasks'[j] = tasks[j] /\ slot'[j] = slot[j]
        BY <2>1, <2>2 DEF S!Active, S!Slots
    <2> DEFINE one == <<ended>>
               rest == IF tasks[i] = S!Root THEN FinishLines ELSE << >>
    <2>4. Logged(out') = Logged(one) \cup Logged(rest)
        <3>1. Quiet(one) /\ Quiet(rest)
            BY SchedulerLinesQuiet, RootLinesQuiet, QuietLines, Zenon
        <3> QED BY <1>3, <3>1, LoggedLines, Zenon
    <2>5. Logged(one) = {ended}
        BY LoggedLines, Zenon
    <2>6. \A r \in Logged(rest) : Remarks(r)
        BY LinesOfRoot, LoggedLines
    <2> HIDE DEF ended, one, rest
    <2>7. \A r \in Logged(out') : Figured(r) /\ ~Books(r)
        BY <1>2, <2>4, <2>5, <2>6, FiguredKinds
    <2> QED BY <1>0, <1>1, <2>3, <2>7, QuietUtil
<1>4. CASE S!TaskCheckExit(i) /\ out' = <<checked>>
    <2>1. UNCHANGED <<tasks, slot>>
        BY <1>4 DEF S!TaskCheckExit, S!workers
    <2>2. (S!Active)' = S!Active
        BY <2>1 DEF S!Active, S!Slots
    <2>3. Logged(out') = {checked}
        BY <1>4, LoggedLines, Zenon
    <2> HIDE DEF checked
    <2>4. \A r \in Logged(out') : Figured(r) /\ ~Books(r)
        BY <1>2, <2>3, FiguredKinds
    <2> QED BY <1>0, <1>1, <2>1, <2>2, <2>4, QuietUtil
<1> QED BY <1>3, <1>4 DEF Reap

\* Nothing but the records to come may change, and none comes that was not to.
LEMMA SameUtil ==
    ASSUME UtilInv, LentInv', Reported', UNCHANGED <<tasks, slot, st>>, clock' \in Nat,
           clock <= clock', Logged(out') \subseteq Logged(out)
    PROVE  UtilInv'
<1>1. (S!Active)' = S!Active
    BY DEF S!Active, S!Slots
<1>2. \A i \in S!Active : slot[i].threads \in Nat
    BY ActiveFacts DEF UtilInv, LentInv, TrailInv
<1>3. \A r \in Logged(out') : Tells(r)'
    BY <1>1, TellsStill DEF UtilInv
<1> QED BY <1>1, <1>2, <1>3, SettledUtil

LEMMA DiesUtil ==
    ASSUME UtilInv, LentInv', Reported', Dies
    PROVE  UtilInv'
<1>1. UNCHANGED <<tasks, slot, st, clock>> /\ clock \in Nat
    BY DEF Dies, S!WorkerDies, S!Crash, S!sched, workers, UtilInv
<1>2. Logged(out') \subseteq Logged(out)
    BY LoggedLines DEF Dies
<1> QED BY <1>1, <1>2, SameUtil

\* A screen that has just been cleared has measured nothing.
LEMMA FreshUtil ==
    ASSUME NEW config, NEW c \in Nat
    PROVE  LET s == FreshState(config)
           IN  Metered(s) /\ Timed(s, c) /\ DOMAIN s.active = {}
<1> DEFINE s == FreshState(config)
<1>1. /\ DOMAIN s = StateFields
      /\ s.active = << >> /\ s.tree = NoTree
      /\ s.n_process_logged = 0 /\ s.threads_reported = 0
      /\ s.thread_time = 0 /\ s.booked_time = 0 /\ s.thread_span = 0
      /\ s.thread_last_ts = 0
      /\ s.phase = "splitting" /\ s.threads_seen = FALSE
    BY FieldsOfState DEF FreshState
<1> HIDE DEF s
<1>2. DOMAIN s.active = {} /\ LendingOK(s)
    BY FreshLent DEF s
<1>3. NProcess \in Nat
    BY ProgramAssumption DEF S!BudgetAssumption
<1>4. Metered(s)
    <2>1. BudgetRead(s)
        BY <1>1 DEF BudgetRead, Unread, InRoot
    <2> QED BY <1>1, <1>2, <2>1 DEF Metered, Ordered
<1>5. Timed(s, c)
    BY <1>1, <1>3 DEF Timed
<1> QED BY <1>2, <1>4, <1>5 DEF s

LEMMA RestartUtil ==
    ASSUME UtilInv, LentInv', Reported', Restart
    PROVE  UtilInv'
<1>1. clock \in Nat /\ clock' = clock
    BY DEF UtilInv, Restart
<1>2. Metered(st') /\ Timed(st', clock')
    BY <1>1, FreshUtil DEF Restart
<1>3. (S!Active)' = {}
    BY DEF Restart, S!Restart, S!Active
<1>4. Granted(st)'
    BY <1>3 DEF Granted
<1>5. \A r \in Logged(out') : Figured(r) /\ ~Books(r)
    BY LinesOfFirst, FiguredKinds DEF Restart
<1>6. \A r \in Logged(out)' : Tells(r)'
    BY <1>5, TellsStill DEF Logged
<1> QED BY <1>1, <1>2, <1>4, <1>6 DEF UtilInv

LEMMA ReportedInit == Init => Reported
<1> SUFFICES ASSUME Init PROVE Reported
    OBVIOUS
<1>1. \A i \in S!Slots : phase[i] \notin S!Live
    BY DEF Init, S!Init, S!Live
<1>2. Announced(out)
    BY FirstAnnounced DEF Init
<1> QED BY <1>1, <1>2 DEF Reported

LEMMA ReportedNext == UtilInv /\ [Next]_vars => Reported'
<1> SUFFICES ASSUME UtilInv, [Next]_vars PROVE Reported'
    OBVIOUS
<1>0. /\ TrailInv /\ LentInv /\ Quiet(out) /\ Reported
      /\ Metered(st) /\ Timed(st, clock) /\ clock \in Nat
    BY DEF UtilInv, LentInv, TrailInv
<1>1. CASE Restart
    <2>1. \A i \in S!Slots : phase'[i] \notin S!Live
        BY <1>1 DEF Restart, S!Restart, S!Live
    <2>2. Announced(out')
        BY <1>1, FirstAnnounced DEF Restart
    <2>3. Announced(out)'
        BY <2>2 DEF Announced
    <2> QED BY <2>1, <2>3 DEF Reported
<1>2. ASSUME NEW r, Line(r), Figured(r), NEW ts \in 0 .. clock, st' = FeedLine(st, r, ts),
             st.n_process_logged = NProcess \/ BudgetLine(r)
      PROVE  Reported'
    BY <1>0, <1>2, BudgetStays DEF Reported
<1>3. CASE st.n_process_logged = NProcess
    <2>1. CASE st' = st
        BY <1>3, <2>1 DEF Reported
    <2>2. CASE SchedulerLogs
        <3>1. Line(Head(out)) /\ Logged(out) = {Head(out)} \cup Logged(Tail(out))
            BY <1>0, <2>2, QuietLines, LoggedLines DEF SchedulerLogs
        <3>2. Figured(Head(out))
            BY <3>1 DEF UtilInv, Tells
        <3>3. st' = st \/ \E ts \in 0 .. clock : st' = FeedLine(st, Head(out), ts)
            BY <1>0, <2>2 DEF SchedulerLogs, Feed
        <3> QED BY <1>2, <1>3, <2>1, <3>1, <3>2, <3>3
    <2>3. ASSUME NEW i \in S!Slots, WorkerSteps(i) PROVE Reported'
        <3> DEFINE r == Record(i)
                   n == tasks[i]
        <3>1. \/ st' = st
              \/ Now(i).r # Silent /\ \E ts \in 0 .. clock : st' = FeedLine(st, r, ts)
            BY <1>0, <2>3 DEF WorkerSteps, Feed
        <3>2. i \in Computing
            BY <1>0, <2>3 DEF Computing, WorkerSteps, Alive
        <3>3. CASE Now(i).r # Silent
            <4>1. Mine(n, r)
                BY <1>0, <3>2, <3>3, RecordMine
            <4> HIDE DEF r, n
            <4>2. Line(r) /\ Figured(r)
                BY <4>1, Zenon DEF Mine, Line, NodeActions, Figured, Configures
            <4> QED BY <1>2, <1>3, <2>1, <3>1, <4>2
        <3> QED BY <2>1, <3>1, <3>3
    <2>4. st' = st \/ SchedulerLogs \/ Restart \/ \E i \in S!Slots : WorkerSteps(i)
        BY Zenon DEF Next, Launch, EndLaunch, Donate, Reap, Dies, Tick, AllShown, vars
    <2> QED BY <1>1, <2>1, <2>2, <2>3, <2>4
<1>4. CASE /\ \A i \in S!Slots : phase[i] \notin S!Live
           /\ Announced(out)
    <2>1. /\ out # << >> /\ Configures(Head(out))
          /\ BudgetLine(Head(out)) \/ Announced(Tail(out))
        BY <1>0, <1>4, AnnouncedFacts
    <2>2. CASE SchedulerLogs
        <3>1. Line(Head(out)) /\ Logged(out) = {Head(out)} \cup Logged(Tail(out))
            BY <1>0, <2>1, QuietLines, LoggedLines
        <3>2. Figured(Head(out))
            BY <3>1 DEF UtilInv, Tells
        <3>3. \E ts \in 0 .. clock : st' = FeedLine(st, Head(out), ts)
            BY <1>0, <1>4, <2>2 DEF SchedulerLogs, Feed, Writing, Alive
        <3>4. CASE BudgetLine(Head(out))
            BY <1>2, <3>1, <3>2, <3>3, <3>4
        <3>5. CASE Announced(Tail(out))
            <4>1. phase' = phase /\ out' = Tail(out)
                BY <2>2 DEF SchedulerLogs, program
            <4>2. Announced(out)'
                BY <3>5, <4>1 DEF Announced
            <4> QED BY <1>4, <4>1, <4>2 DEF Reported, S!Slots
        <3> QED BY <2>1, <3>4, <3>5
    <2>3. CASE UNCHANGED <<out, phase>>
        <3>1. Announced(out)'
            BY <1>4, <2>3 DEF Announced
        <3> QED BY <1>4, <2>3, <3>1 DEF Reported, S!Slots
    <2>4. CASE Dies
        <3>1. CASE S!Crash /\ out' = << >>
            <4>1. \A i \in S!Slots : phase'[i] \notin S!Live
                BY <3>1 DEF S!Crash, S!Live
            <4>2. pc' = "down"
                BY <3>1 DEF S!Crash
            <4> QED BY <3>1, <4>1, <4>2 DEF Reported, S!Slots
        <3>2. ~\E i \in S!Slots : S!WorkerDies(i)
            BY <1>4 DEF S!WorkerDies
        <3> QED BY <2>4, <3>1, <3>2 DEF Dies
    <2>5. ~\E i \in S!Slots : WorkerSteps(i)
        BY <1>4 DEF WorkerSteps, Alive
    <2>6. SchedulerLogs \/ UNCHANGED <<out, phase>> \/ Dies
        BY <2>1, <2>5, Zenon DEF Next, Launch, EndLaunch, Donate, Reap, Restart, Tick, AllShown,
           vars, program
    <2> QED BY <2>2, <2>3, <2>4, <2>6
<1>5. CASE /\ \A i \in S!Slots : phase[i] \notin S!Live
           /\ pc = "down" /\ out = << >>
    <2>1. CASE UNCHANGED <<out, phase, pc>>
        BY <1>5, <2>1 DEF Reported, S!Slots
    <2>2. CASE Dies
        <3>1. CASE S!Crash /\ out' = << >>
            <4>1. \A i \in S!Slots : phase'[i] \notin S!Live
                BY <3>1 DEF S!Crash, S!Live
            <4>2. pc' = "down"
                BY <3>1 DEF S!Crash
            <4> QED BY <3>1, <4>1, <4>2 DEF Reported, S!Slots
        <3>2. ~\E i \in S!Slots : S!WorkerDies(i)
            BY <1>5 DEF S!WorkerDies
        <3> QED BY <2>2, <3>1, <3>2 DEF Dies
    <2>3. /\ ~SchedulerLogs /\ ~Launch /\ ~EndLaunch /\ ~Donate
          /\ \A i \in S!Slots : ~WorkerSteps(i) /\ ~Reap(i)
        BY <1>5 DEF SchedulerLogs, Launch, EndLaunch, Donate, Reap, WorkerSteps, Alive,
           S!Launch, S!EndLaunch, S!DonateLoad, S!DonateRefused, S!DonateAccepted,
           S!DonateEnd, S!TaskEnd, S!TaskCheckExit
    <2>4. Restart \/ Dies \/ UNCHANGED <<out, phase, pc>>
        BY <2>3, Zenon DEF Next, Tick, AllShown, vars, program
    <2> QED BY <1>1, <2>1, <2>2, <2>4
<1> QED BY <1>0, <1>3, <1>4, <1>5 DEF Reported

LEMMA InitUtil == Init => UtilInv
<1> SUFFICES ASSUME Init PROVE UtilInv
    OBVIOUS
<1>1. Metered(st) /\ Timed(st, clock) /\ clock \in Nat
    BY FreshUtil DEF Init
<1>2. S!Active = {}
    BY DEF Init, S!Init, S!Active
<1>3. Granted(st)
    BY <1>2 DEF Granted
<1>4. \A r \in Logged(out) : Figured(r) /\ ~Books(r)
    BY LinesOfFirst, FiguredKinds DEF Init
<1>5. \A r \in Logged(out) : Tells(r)
    BY <1>4 DEF Tells
<1> QED BY <1>1, <1>3, <1>5, InitLent, ReportedInit DEF UtilInv

LEMMA NextUtil == UtilInv /\ [Next]_vars => UtilInv'
<1> SUFFICES ASSUME UtilInv, [Next]_vars PROVE UtilInv'
    OBVIOUS
<1>0. LentInv' /\ Reported' /\ clock \in Nat
    BY NextLent, ReportedNext DEF UtilInv
<1>1. CASE SchedulerLogs
    BY <1>0, <1>1, SchedulerLogsUtil
<1>2. CASE Launch
    BY <1>0, <1>2, LaunchUtil
<1>3. CASE EndLaunch
    BY <1>0, <1>3, EndLaunchUtil
<1>4. CASE Donate
    BY <1>0, <1>4, DonateUtil
<1>5. ASSUME NEW i \in S!Slots, WorkerSteps(i) PROVE UtilInv'
    BY <1>0, <1>5, WorkerStepsUtil
<1>6. ASSUME NEW i \in S!Slots, Reap(i) PROVE UtilInv'
    BY <1>0, <1>6, ReapUtil
<1>7. CASE Dies
    BY <1>0, <1>7, DiesUtil
<1>8. CASE Restart
    BY <1>0, <1>8, RestartUtil
<1>9. ASSUME UNCHANGED <<program, out, st>>, clock' \in Nat, clock <= clock'
      PROVE  UtilInv'
    <2>1. UNCHANGED <<tasks, slot, st>> /\ Logged(out') \subseteq Logged(out)
        BY <1>9 DEF program, Logged
    <2> QED BY <1>0, <1>9, <2>1, SameUtil
<1>10. CASE Tick \/ AllShown \/ UNCHANGED vars
    BY <1>0, <1>9, <1>10 DEF Tick, AllShown, vars
<1> QED BY <1>1, <1>2, <1>3, <1>4, <1>5, <1>6, <1>7, <1>8, <1>10 DEF Next

\* The utilisation the header shows never exceeds the whole: over any stretch of the
\* log no more thread time is counted busy than was booked, and no more was booked
\* than the machine has, however many records were lost, whichever processes died
\* and however late a record is read (thread_tick and thread_avgs,
\* dashboard.py:820-838, 1325-1340). It is so because a task is shown with at most
\* the threads its slot grants, and the slots together with at most n_process.
THEOREM UtilisationWithinBudget == Spec => []UtilisationBounded
<1>1. UtilInv => UtilisationBounded
    BY AveragesHold DEF UtilInv
<1>2. Init => UtilInv
    BY InitUtil
<1>3. UtilInv /\ [Next]_vars => UtilInv'
    BY NextUtil
<1> QED BY <1>1, <1>2, <1>3, PTL DEF Spec

=============================================================================
