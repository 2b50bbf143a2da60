-------------------------- MODULE SchedulerProofs --------------------------
(***************************************************************************)
(* Proofs about Scheduler for every tree, every number of processes, every *)
(* budget and every cost of a join.  The induction carries, beside the     *)
(* types, that no two active tasks are for one node (so a task's plan is   *)
(* its own) and that each total is the last line of a ledger over the      *)
(* slots: a running sum of the plans of the active tasks.  A task's share  *)
(* is then never more than the total, which is what keeps the totals from  *)
(* passing below zero and a lent grant within the budget.                  *)
(***************************************************************************)
EXTENDS Scheduler, FiniteSetTheorems, WellFoundedInduction, TLAPS

-----------------------------------------------------------------------------
(* Numbers.                                                                *)

\* A non-empty set of naturals has a least member, the slot get_free_index
\* returns.
LEMMA LeastExists ==
    ASSUME NEW S, S \subseteq Nat, S # {}
    PROVE  \E x \in S : \A y \in S : x <= y
<1>1. PICK x \in S : \A y \in S : <<y, x>> \notin OpToRel(<, Nat)
    BY NatLessThanWellFounded, WFMin
<1>2. \A y \in S : ~(y < x)
    BY <1>1 DEF OpToRel
<1>3. \A y \in S : x <= y
    BY <1>2
<1> QED BY <1>3

\* A non-empty set of naturals up to k has a greatest member.
LEMMA GreatestExists ==
    ASSUME NEW k \in Nat, NEW S, S \subseteq 1 .. k, S # {}
    PROVE  \E x \in S : \A y \in S : y <= x
<1> DEFINE Gap == {d \in Nat : k - d \in S}
<1>1. Gap # {}
    <2>1. PICK y \in S : TRUE
        OBVIOUS
    <2>2. k - y \in Nat /\ k - (k - y) = y
        BY <2>1
    <2> QED BY <2>1, <2>2
<1>2. PICK d \in Gap : \A e \in Gap : d <= e
    <2>1. Gap \subseteq Nat
        OBVIOUS
    <2> QED BY <1>1, <2>1, LeastExists
<1>3. ASSUME NEW y \in S PROVE y <= k - d
    <2>1. y \in Nat /\ k - y \in Nat /\ k - (k - y) = y
        OBVIOUS
    <2>2. k - y \in Gap
        BY <2>1
    <2>3. d <= k - y
        BY <2>2, <1>2
    <2> QED BY <2>1, <2>3, <1>2
<1> QED BY <1>2, <1>3

\* Rounding a thread count down to a power of two leaves at least one thread
\* and never more than there were (node_threads).
LEMMA FloorPowerOfTwoType ==
    ASSUME NEW k \in Nat \ {0}
    PROVE  FloorPowerOfTwo(k) \in 1 .. k
<1>1. PowersOfTwo(k) \subseteq 1 .. k
    BY DEF PowersOfTwo
<1>2. 1 \in PowersOfTwo(k)
    BY DEF PowersOfTwo
<1>3. \E p \in PowersOfTwo(k) : \A q \in PowersOfTwo(k) : q <= p
    BY <1>1, <1>2, GreatestExists
<1> QED BY <1>1, <1>3 DEF FloorPowerOfTwo

-----------------------------------------------------------------------------
(* Ledgers.                                                                *)

\* g is a running sum of f over the slots that starts at 0 and comes to total.
RunningSum(g, f, total) ==
    /\ g \in [0 .. NProcess -> Nat]
    /\ g[0] = 0
    /\ \A i \in Slots : g[i + 1] = g[i] + f[i]
    /\ \A j, k \in 0 .. NProcess : j <= k => g[j] <= g[k]
    /\ g[NProcess] = total

Ledger(f, total) == \E g : RunningSum(g, f, total)

\* With nothing booked the total is 0.
LEMMA LedgerEmpty ==
    ASSUME NEW f \in [Slots -> Nat], \A i \in Slots : f[i] = 0
    PROVE  Ledger(f, 0)
<1> DEFINE g == [k \in 0 .. NProcess |-> 0]
<1>1. NProcess \in Nat
    BY BudgetAssumption
<1>2. RunningSum(g, f, 0)
    BY <1>1 DEF RunningSum, Slots
<1> QED BY <1>2 DEF Ledger

\* No slot is booked at more than the total.
LEMMA LedgerBound ==
    ASSUME NEW f \in [Slots -> Nat], NEW total \in Nat, Ledger(f, total),
           NEW i \in Slots
    PROVE  f[i] <= total
<1>0. NProcess \in Nat
    BY BudgetAssumption
<1>1. PICK g : RunningSum(g, f, total)
    BY DEF Ledger
<1>2. i \in 0 .. NProcess /\ i + 1 \in 0 .. NProcess /\ NProcess \in 0 .. NProcess
    BY <1>0 DEF Slots
<1>3. g[i] \in Nat /\ g[i + 1] = g[i] + f[i] /\ g[i + 1] <= g[NProcess]
    BY <1>0, <1>1, <1>2 DEF RunningSum
<1>4. f[i] \in Nat
    OBVIOUS
<1> QED BY <1>1, <1>3, <1>4 DEF RunningSum

\* Booking one slot anew moves the total by the difference.
LEMMA LedgerUpdate ==
    ASSUME NEW f \in [Slots -> Nat], NEW total \in Nat, Ledger(f, total),
           NEW i \in Slots, NEW v \in Nat
    PROVE  /\ total - f[i] + v \in Nat
           /\ Ledger([f EXCEPT ![i] = v], total - f[i] + v)
<1>0. NProcess \in Nat
    BY BudgetAssumption
<1>1. PICK g : RunningSum(g, f, total)
    BY DEF Ledger
<1> DEFINE h == [k \in 0 .. NProcess |-> IF k <= i THEN g[k] ELSE g[k] - f[i] + v]
           f2 == [f EXCEPT ![i] = v]
<1>2. /\ i \in 0 .. NProcess /\ i + 1 \in 0 .. NProcess
      /\ i < NProcess /\ f[i] \in Nat
      /\ g[i] \in Nat /\ g[i + 1] = g[i] + f[i]
    BY <1>0, <1>1 DEF Slots, RunningSum
<1>3. ASSUME NEW k \in 0 .. NProcess, k > i
      PROVE  g[k] \in Nat /\ g[k] >= g[i] + f[i]
    <2>1. i + 1 <= k
        BY <1>2, <1>3
    <2> QED BY <2>1, <1>1, <1>2 DEF RunningSum
<1>4. h \in [0 .. NProcess -> Nat]
    <2>1. ASSUME NEW k \in 0 .. NProcess PROVE h[k] \in Nat
        <3>1. CASE k <= i
            BY <3>1, <1>1 DEF RunningSum
        <3>2. CASE k > i
            BY <3>2, <1>2, <1>3
        <3> QED BY <3>1, <3>2, <1>2
    <2> QED BY <2>1
<1>5. h[0] = 0
    BY <1>0, <1>1, <1>2 DEF RunningSum
<1>6. ASSUME NEW j \in Slots PROVE h[j + 1] = h[j] + f2[j]
    <2>1. j \in 0 .. NProcess /\ j + 1 \in 0 .. NProcess /\ j \in Nat
        BY <1>0 DEF Slots
    <2>2. g[j + 1] = g[j] + f[j] /\ g[j] \in Nat /\ f[j] \in Nat
        BY <1>1, <2>1 DEF RunningSum
    <2>3. CASE j < i
        BY <2>1, <2>2, <2>3, <1>2
    <2>4. CASE j = i
        BY <2>1, <2>2, <2>4, <1>2
    <2>5. CASE j > i
        BY <2>1, <2>2, <2>5, <1>2
    <2> QED BY <2>1, <2>3, <2>4, <2>5, <1>2
<1>7. ASSUME NEW j \in 0 .. NProcess, NEW k \in 0 .. NProcess, j <= k
      PROVE  h[j] <= h[k]
    <2>1. g[j] <= g[k] /\ g[j] \in Nat /\ g[k] \in Nat
        BY <1>1, <1>7 DEF RunningSum
    <2>2. CASE k <= i
        BY <2>1, <2>2, <1>2, <1>7
    <2>3. CASE j > i
        BY <2>1, <2>3, <1>2, <1>7
    <2>4. CASE j <= i /\ k > i
        <3>1. g[j] <= g[i]
            BY <1>1, <1>2, <2>4 DEF RunningSum
        <3>2. g[k] >= g[i] + f[i]
            BY <1>3, <2>4
        <3> QED BY <3>1, <3>2, <2>1, <2>4, <1>2
    <2> QED BY <2>2, <2>3, <2>4, <1>2
<1>8. h[NProcess] = total - f[i] + v
    BY <1>0, <1>1, <1>2 DEF RunningSum
<1>9. total - f[i] + v \in Nat
    BY <1>0, <1>4, <1>8
<1>10. RunningSum(h, f2, total - f[i] + v)
    BY <1>4, <1>5, <1>6, <1>7, <1>8 DEF RunningSum
<1> QED BY <1>9, <1>10 DEF Ledger

-----------------------------------------------------------------------------
(* The inductive invariant.                                                *)

\* A donation is only offered to an active task, and a worker's slot has one.
TasksKnown ==
    /\ pc = "offer" => di \in Active
    /\ \A i \in Slots : phase[i] # "none" => i \in Active

PlansPositive == \A i \in Active : plan[tasks[i]].threads >= 1

Ledgers == Ledger(ThreadsOf, total_threads) /\ Ledger(MemoryOf, total_mem_cost)

IInv == /\ TypeOK
        /\ TasksSeparate
        /\ TasksKnown
        /\ PlansPositive
        /\ Ledgers
        /\ ThreadBudget
        /\ MemoryCeiling

\* What the launch gates and the pricing hand out is a plan within bounds.
LEMMA NodeThreadsType ==
    ASSUME NEW n \in Node, NEW free \in Nat \ {0}
    PROVE  NodeThreads(n, free) \in 1 .. free
<1> DEFINE k == IF NodeThreadsCeiling(n) < free THEN NodeThreadsCeiling(n) ELSE free
<1>1. NodeThreadsCeiling(n) \in Nat \ {0}
    BY CostAssumption DEF NodeThreadsCeiling
<1>2. k \in Nat \ {0} /\ k <= free
    BY <1>1
<1>3. FloorPowerOfTwo(k) \in 1 .. k
    BY <1>2, FloorPowerOfTwoType
<1>4. NodeThreads(n, free) = FloorPowerOfTwo(k)
    BY DEF NodeThreads
<1> HIDE DEF k
<1> QED BY <1>2, <1>3, <1>4

LEMMA NodeEstimateMemoryType ==
    ASSUME NEW n \in Node, NEW t \in 1 .. NProcess
    PROVE  NodeEstimateMemory(n, t) \in Nat
<1>1. CASE NodeIsLeaf(n)
    BY <1>1, CostAssumption DEF NodeEstimateMemory
<1>2. CASE ~NodeIsLeaf(n)
    <2>1. JoinCost[n][t] \in Nat
        BY CostAssumption
    <2> QED BY <1>2, <2>1 DEF NodeEstimateMemory
<1> QED BY <1>1, <1>2

\* While a slot is free get_free_index finds one (it would revert otherwise).
LEMMA FreeIndexType ==
    ASSUME HasSlot
    PROVE  FreeIndex \in Slots \ Active
<1>1. NProcess \in Nat /\ Slots \subseteq Nat
    BY BudgetAssumption DEF Slots
<1>2. Cardinality(Slots) = NProcess
    BY <1>1, BudgetAssumption, FS_Interval DEF Slots
<1>3. Active \subseteq Slots
    BY DEF Active
<1>4. Slots \ Active # {}
    <2>1. SUFFICES ASSUME Slots \ Active = {} PROVE FALSE
        OBVIOUS
    <2>2. Active = Slots
        BY <2>1, <1>3
    <2> QED BY <2>2, <1>1, <1>2 DEF HasSlot
<1>5. \E i \in Slots \ Active : \A j \in Slots \ Active : i <= j
    BY <1>1, <1>4, LeastExists
<1> QED BY <1>5 DEF FreeIndex

\* The walk gives every node a status and leaves those of running nodes alone.
LEMMA WalkedType ==
    ASSUME TypeOK
    PROVE  /\ Walked \in [Node -> {"unmade", "open", "processing", "done"}]
           /\ \A n \in Node : status[n] = "processing" => Walked[n] = "processing"
<1>1. \A n \in Node : Grown(n) \in {"unmade", "open", "processing", "done"}
    BY DEF TypeOK, Grown
<1> QED BY <1>1 DEF TypeOK, Walked, Grown

\* A node the walk takes is not running yet, and passed every gate.
LEMMA TakenFacts ==
    ASSUME TypeOK, ThreadBudget, NEW n \in Taken
    PROVE  /\ n \in Node
           /\ status[n] # "processing"
           /\ FreeThreads \in 1 .. NProcess
           /\ total_threads + FreeThreads = NProcess
           /\ HasMemory(LaunchCost(n)) \/ Active = {}
<1>1. n \in Node /\ Reached(n) /\ NodeCanLaunch(n) = "take"
    BY DEF Taken, Visited
<1>2. n \in Path(n)
    <2>1. n \in Seq({0, 1})
        BY <1>1, NodeAssumption
    <2>2. Len(n) \in 0 .. Len(n) /\ SubSeq(n, 1, Len(n)) = n
        BY <2>1
    <2> QED BY <2>2 DEF Path
<1>3. status[n] # "processing"
    BY <1>1, <1>2 DEF Reached, Grown
<1>4. GatesOpen /\ (HasMemory(LaunchCost(n)) \/ Active = {})
    BY <1>1 DEF NodeCanLaunch
<1>5. FreeThreads \in 1 .. NProcess /\ total_threads + FreeThreads = NProcess
    BY <1>4, BudgetAssumption DEF GatesOpen, FreeThreads, TypeOK, ThreadBudget
<1> QED BY <1>1, <1>3, <1>4, <1>5

\* A step that books nothing keeps the books.
LEMMA BooksUnchanged ==
    ASSUME Ledgers, ThreadBudget, MemoryCeiling, PlansPositive,
           UNCHANGED <<plan, tasks, total_threads, total_mem_cost>>
    PROVE  Ledgers' /\ ThreadBudget' /\ MemoryCeiling' /\ PlansPositive'
<1>1. ThreadsOf' = ThreadsOf /\ MemoryOf' = MemoryOf /\ Active' = Active
    BY DEF ThreadsOf, MemoryOf, Active
<1>2. Ledgers'
    BY <1>1 DEF Ledgers, Ledger, RunningSum
<1> QED BY <1>1, <1>2 DEF ThreadBudget, MemoryCeiling, PlansPositive

-----------------------------------------------------------------------------
(* One lemma per step that books something.                                *)

\* The maps of the books are numbers over the slots.
LEMMA BooksType ==
    ASSUME TypeOK
    PROVE  ThreadsOf \in [Slots -> Nat] /\ MemoryOf \in [Slots -> Nat]
<1>1. ASSUME NEW i \in Slots, tasks[i] # NoNode
      PROVE  plan[tasks[i]].threads \in Nat /\ plan[tasks[i]].mem_cost \in Nat
    <2>1. tasks[i] \in Node
        BY <1>1 DEF TypeOK
    <2> QED BY <2>1, BudgetAssumption DEF TypeOK
<1> QED BY <1>1 DEF ThreadsOf, MemoryOf

\* A step that books slot i anew, and moves the totals by the difference, keeps
\* both ledgers.
LEMMA LedgersStep ==
    ASSUME TypeOK, Ledgers, NEW i \in Slots, NEW t \in Nat, NEW m \in Nat,
           \A j \in Slots \ {i} :
               /\ tasks'[j] = tasks[j]
               /\ tasks[j] # NoNode => plan'[tasks[j]] = plan[tasks[j]],
           t = IF tasks'[i] = NoNode THEN 0 ELSE plan'[tasks'[i]].threads,
           m = IF tasks'[i] = NoNode THEN 0 ELSE plan'[tasks'[i]].mem_cost,
           total_threads' = total_threads - ThreadsOf[i] + t,
           total_mem_cost' = total_mem_cost - MemoryOf[i] + m
    PROVE  Ledgers' /\ total_threads' \in Nat /\ total_mem_cost' \in Nat
<1>1. ThreadsOf' = [ThreadsOf EXCEPT ![i] = t]
    <2>1. ASSUME NEW j \in Slots
          PROVE  ThreadsOf'[j] = IF j = i THEN t ELSE ThreadsOf[j]
        BY DEF ThreadsOf
    <2>2. ThreadsOf' = [j \in Slots |-> ThreadsOf'[j]]
        BY DEF ThreadsOf
    <2>3. ThreadsOf = [j \in Slots |-> ThreadsOf[j]]
        BY DEF ThreadsOf
    <2> QED BY <2>1, <2>2, <2>3
<1>2. MemoryOf' = [MemoryOf EXCEPT ![i] = m]
    <2>1. ASSUME NEW j \in Slots
          PROVE  MemoryOf'[j] = IF j = i THEN m ELSE MemoryOf[j]
        BY DEF MemoryOf
    <2>2. MemoryOf' = [j \in Slots |-> MemoryOf'[j]]
        BY DEF MemoryOf
    <2>3. MemoryOf = [j \in Slots |-> MemoryOf[j]]
        BY DEF MemoryOf
    <2> QED BY <2>1, <2>2, <2>3
<1>3. /\ total_threads' \in Nat
      /\ Ledger([ThreadsOf EXCEPT ![i] = t], total_threads')
    BY BooksType, LedgerUpdate DEF TypeOK, Ledgers
<1>4. /\ total_mem_cost' \in Nat
      /\ Ledger([MemoryOf EXCEPT ![i] = m], total_mem_cost')
    BY BooksType, LedgerUpdate DEF TypeOK, Ledgers
<1> QED BY <1>1, <1>2, <1>3, <1>4 DEF Ledgers, Ledger, RunningSum

\* task_start keeps the invariant.
LEMMA LaunchStep ==
    ASSUME IInv, Launch
    PROVE  IInv'
<1> USE DEF IInv
<1>1. PICK n \in Taken : TaskStart(n, FreeIndex)
    BY DEF Launch
<1>2. /\ n \in Node /\ status[n] # "processing"
      /\ FreeThreads \in 1 .. NProcess
      /\ total_threads + FreeThreads = NProcess
      /\ HasMemory(LaunchCost(n)) \/ Active = {}
    BY <1>1, TakenFacts
<1>3. PICK i : i = FreeIndex
    OBVIOUS
<1>4. i \in Slots /\ i \notin Active /\ tasks[i] = NoNode
    BY <1>3, FreeIndexType DEF Launch, Active
<1>5. PICK t : t = LaunchThreads(n)
    OBVIOUS
<1>6. PICK m : m = LaunchCost(n)
    OBVIOUS
<1>7. NProcess \in Nat
    BY BudgetAssumption
<1>8. t \in 1 .. FreeThreads /\ t \in 1 .. NProcess
    BY <1>2, <1>5, <1>7, NodeThreadsType DEF LaunchThreads
<1>9. m \in Nat
    BY <1>2, <1>5, <1>6, <1>8, NodeEstimateMemoryType DEF LaunchCost
<1> DEFINE p == [threads |-> t, mem_cost |-> m]
<1>10. /\ status' = [Walked EXCEPT ![n] = "processing"]
       /\ plan' = [plan EXCEPT ![n] = p]
       /\ tasks' = [tasks EXCEPT ![i] = n]
       /\ slot' = [slot EXCEPT ![i] = [threads |-> t, closed |-> FALSE]]
       /\ total_threads' = total_threads + t
       /\ total_mem_cost' = total_mem_cost + m
       /\ phase' = [phase EXCEPT ![i] = "run"]
       /\ used' = [used EXCEPT ![i] = 0]
       /\ UNCHANGED <<pc, di, stored, failures>>
       /\ pc = "launch"
    BY <1>1, <1>3, <1>5, <1>6 DEF TaskStart, Launch
<1>11. ops' \subseteq Node
    BY DEF Launch, NodeOpSizes, Priced, TypeOK
<1>12. n # NoNode /\ Active' = Active \cup {i}
    BY <1>2, <1>4, <1>10, NodeAssumption DEF Active, TypeOK
<1>13. \A j \in Active : /\ j # i /\ tasks'[j] = tasks[j] /\ tasks[j] # n
                         /\ tasks[j] \in Node /\ plan'[tasks[j]] = plan[tasks[j]]
    BY <1>2, <1>4, <1>10 DEF TasksSeparate, TypeOK, Active
<1>14. tasks'[i] = n /\ plan'[n] = p
    BY <1>2, <1>4, <1>10 DEF TypeOK
<1>15. Ledgers' /\ total_threads' \in Nat /\ total_mem_cost' \in Nat
    <2>1. \A j \in Slots \ {i} :
             /\ tasks'[j] = tasks[j]
             /\ tasks[j] # NoNode => plan'[tasks[j]] = plan[tasks[j]]
        BY <1>10, <1>13 DEF Active, TypeOK
    <2>2. /\ t = IF tasks'[i] = NoNode THEN 0 ELSE plan'[tasks'[i]].threads
          /\ m = IF tasks'[i] = NoNode THEN 0 ELSE plan'[tasks'[i]].mem_cost
        BY <1>12, <1>14
    <2>3. ThreadsOf[i] = 0 /\ MemoryOf[i] = 0
        BY <1>4 DEF ThreadsOf, MemoryOf
    <2>4. t \in Nat
        BY <1>7, <1>8
    <2>5. /\ total_threads' = total_threads - ThreadsOf[i] + t
          /\ total_mem_cost' = total_mem_cost - MemoryOf[i] + m
        BY <2>3, <2>4, <1>9, <1>10 DEF TypeOK
    <2> QED BY <2>1, <2>2, <2>4, <2>5, <1>4, <1>9, LedgersStep
<1>16. TypeOK'
    BY <1>2, <1>4, <1>7, <1>8, <1>9, <1>10, <1>11, <1>15, WalkedType
    DEF TypeOK, Phases
<1>17. TasksSeparate'
    <2>1. \A j \in Active : status'[tasks[j]] = "processing"
        BY <1>2, <1>10, <1>13, WalkedType DEF TasksSeparate
    <2>2. status'[n] = "processing"
        BY <1>2, <1>10, WalkedType
    <2> QED BY <2>1, <2>2, <1>12, <1>13, <1>14 DEF TasksSeparate
<1>18. TasksKnown'
    BY <1>4, <1>10, <1>12 DEF TasksKnown, TypeOK
<1>19. PlansPositive'
    <2>1. \A j \in Active : plan'[tasks'[j]].threads >= 1
        BY <1>13 DEF PlansPositive
    <2>2. plan'[tasks'[i]].threads >= 1
        BY <1>7, <1>8, <1>14
    <2> QED BY <2>1, <2>2, <1>12 DEF PlansPositive
<1>20. ThreadBudget'
    BY <1>2, <1>7, <1>8, <1>10 DEF ThreadBudget, TypeOK
<1>21. MemoryCeiling'
    <2>1. CASE Active = {}
        BY <2>1, <1>12 DEF MemoryCeiling
    <2>2. CASE HasMemory(m)
        BY <2>2, <1>10 DEF MemoryCeiling, HasMemory
    <2> QED BY <2>1, <2>2, <1>2, <1>6
<1> QED BY <1>15, <1>16, <1>17, <1>18, <1>19, <1>20, <1>21


\* Booking a donation keeps the invariant.
LEMMA DonateAcceptedStep ==
    ASSUME IInv, DonateAccepted
    PROVE  IInv'
<1> USE DEF IInv
<1>1. PICK i : i = di
    OBVIOUS
<1>2. PICK n : n = tasks[i]
    OBVIOUS
<1>3. i \in Slots /\ i \in Active /\ n \in Node /\ n # NoNode
    BY <1>1, <1>2 DEF DonateAccepted, TasksKnown, Active, TypeOK
<1>4. NProcess \in Nat
    BY BudgetAssumption
<1>5. /\ plan[n].threads \in 0 .. NProcess /\ plan[n].mem_cost \in Nat
      /\ plan[n].threads >= 1
    BY <1>2, <1>3 DEF TypeOK, PlansPositive
<1>6. ThreadsOf[i] = plan[n].threads /\ MemoryOf[i] = plan[n].mem_cost
    BY <1>2, <1>3 DEF ThreadsOf, MemoryOf
<1>7. plan[n].threads <= total_threads /\ plan[n].mem_cost <= total_mem_cost
    <2>1. ThreadsOf[i] <= total_threads
        BY <1>3, BooksType, LedgerBound DEF Ledgers, TypeOK
    <2>2. MemoryOf[i] <= total_mem_cost
        BY <1>3, BooksType, LedgerBound DEF Ledgers, TypeOK
    <2> QED BY <2>1, <2>2, <1>6
<1>8. /\ FreeThreads + plan[n].threads \in Nat \ {0}
      /\ FreeThreads + plan[n].threads <= NProcess
      /\ FreeThreads = NProcess - total_threads
    BY <1>4, <1>5, <1>7 DEF FreeThreads, ThreadBudget, TypeOK
<1>9. PICK t : t = OfferThreads(n)
    OBVIOUS
<1>10. PICK m : m = OfferCost(n)
    OBVIOUS
<1>11. t \in 1 .. (FreeThreads + plan[n].threads) /\ t \in 1 .. NProcess
    BY <1>3, <1>4, <1>8, <1>9, NodeThreadsType DEF OfferThreads
<1>12. m \in Nat
    BY <1>3, <1>9, <1>10, <1>11, NodeEstimateMemoryType DEF OfferCost
<1> DEFINE p == [threads |-> t, mem_cost |-> m]
<1>13. /\ slot' = [slot EXCEPT ![i].threads = t]
       /\ total_threads' = total_threads + (t - plan[n].threads)
       /\ total_mem_cost' = total_mem_cost - plan[n].mem_cost + m
       /\ total_mem_cost' < MemMax
       /\ plan' = [plan EXCEPT ![n] = p]
       /\ pc' = "donate"
       /\ di' = i + 1
       /\ UNCHANGED <<status, tasks, phase, used, stored, failures>>
    BY <1>1, <1>2, <1>9, <1>10
    DEF DonateAccepted, OfferHolds, OfferTotal, workers
<1>14. ops' \subseteq Node
    BY <1>1, <1>2, <1>3 DEF DonateAccepted, NodeOpSizes, TypeOK
<1>15. Active' = Active /\ tasks'[i] = n /\ plan'[n] = p
    BY <1>2, <1>3, <1>13 DEF Active, TypeOK
<1>16. \A j \in Active : j # i => /\ tasks[j] # n /\ tasks'[j] = tasks[j]
                                  /\ plan'[tasks[j]] = plan[tasks[j]]
    BY <1>2, <1>3, <1>13 DEF TasksSeparate, TypeOK, Active
<1>17. Ledgers' /\ total_threads' \in Nat /\ total_mem_cost' \in Nat
    <2>1. \A j \in Slots \ {i} :
             /\ tasks'[j] = tasks[j]
             /\ tasks[j] # NoNode => plan'[tasks[j]] = plan[tasks[j]]
        BY <1>13, <1>16 DEF Active
    <2>2. /\ t = IF tasks'[i] = NoNode THEN 0 ELSE plan'[tasks'[i]].threads
          /\ m = IF tasks'[i] = NoNode THEN 0 ELSE plan'[tasks'[i]].mem_cost
        BY <1>3, <1>15
    <2>3. t \in Nat
        BY <1>4, <1>11
    <2>4. /\ total_threads' = total_threads - ThreadsOf[i] + t
          /\ total_mem_cost' = total_mem_cost - MemoryOf[i] + m
        BY <2>3, <1>5, <1>6, <1>12, <1>13 DEF TypeOK
    <2> QED BY <2>1, <2>2, <2>3, <2>4, <1>3, <1>12, LedgersStep
<1>18. TypeOK'
    <2>1. slot' \in [Slots -> [threads: 0 .. NProcess, closed: BOOLEAN]]
        BY <1>3, <1>4, <1>11, <1>13 DEF TypeOK
    <2>2. plan' \in [Node -> [threads: 0 .. NProcess, mem_cost: Nat]]
        BY <1>3, <1>4, <1>11, <1>12, <1>13 DEF TypeOK
    <2>3. di' \in 0 .. NProcess
        BY <1>3, <1>4, <1>13 DEF Slots
    <2> QED BY <2>1, <2>2, <2>3, <1>13, <1>14, <1>17 DEF TypeOK
<1>19. TasksSeparate'
    BY <1>13, <1>15 DEF TasksSeparate
<1>20. TasksKnown'
    BY <1>13, <1>15 DEF TasksKnown
<1>21. PlansPositive'
    <2>1. plan'[tasks'[i]].threads >= 1
        BY <1>4, <1>11, <1>15
    <2>2. \A j \in Active : j # i => plan'[tasks'[j]].threads >= 1
        BY <1>16 DEF PlansPositive
    <2> QED BY <2>1, <2>2, <1>15 DEF PlansPositive
<1>22. ThreadBudget'
    BY <1>4, <1>5, <1>8, <1>11, <1>13 DEF ThreadBudget, TypeOK
<1>23. MemoryCeiling'
    BY <1>13 DEF MemoryCeiling
<1> QED BY <1>17, <1>18, <1>19, <1>20, <1>21, <1>22, <1>23

\* task_end gives back exactly what the task was booked at.
LEMMA TaskEndStep ==
    ASSUME IInv, NEW i \in Slots, TaskEnd(i)
    PROVE  IInv'
<1> USE DEF IInv
<1>1. PICK n : n = tasks[i]
    OBVIOUS
<1>2. i \in Active /\ n \in Node /\ n # NoNode /\ NoNode \notin Node
    BY <1>1, NodeAssumption DEF TaskEnd, TasksKnown, Active, TypeOK
<1>3. NProcess \in Nat
    BY BudgetAssumption
<1>4. /\ tasks' = [tasks EXCEPT ![i] = NoNode]
      /\ total_threads' = total_threads - plan[n].threads
      /\ total_mem_cost' = total_mem_cost - plan[n].mem_cost
      /\ plan' = [plan EXCEPT ![n] = NoPlan]
      /\ status' = [status EXCEPT ![n] = "done"]
      /\ phase' = [phase EXCEPT ![i] = "none"]
      /\ used' = [used EXCEPT ![i] = 0]
      /\ pc' \in {"done", "launch"}
      /\ UNCHANGED <<di, ops, slot, stored, failures>>
    BY <1>1 DEF TaskEnd
<1>5. plan[n].threads \in 0 .. NProcess /\ plan[n].mem_cost \in Nat
    BY <1>2 DEF TypeOK
<1>6. Active' = Active \ {i} /\ tasks'[i] = NoNode
    BY <1>2, <1>4 DEF Active, TypeOK
<1>7. \A j \in Active : j # i => /\ tasks[j] # n /\ tasks'[j] = tasks[j]
                                 /\ tasks[j] \in Node
                                 /\ plan'[tasks[j]] = plan[tasks[j]]
                                 /\ status'[tasks[j]] = status[tasks[j]]
    BY <1>1, <1>2, <1>4 DEF TasksSeparate, TypeOK, Active
<1>8. Ledgers' /\ total_threads' \in Nat /\ total_mem_cost' \in Nat
    <2>1. \A j \in Slots \ {i} :
             /\ tasks'[j] = tasks[j]
             /\ tasks[j] # NoNode => plan'[tasks[j]] = plan[tasks[j]]
        BY <1>4, <1>7 DEF Active, TypeOK
    <2>2. ThreadsOf[i] = plan[n].threads /\ MemoryOf[i] = plan[n].mem_cost
        BY <1>1, <1>2 DEF ThreadsOf, MemoryOf
    <2>3. /\ total_threads' = total_threads - ThreadsOf[i] + 0
          /\ total_mem_cost' = total_mem_cost - MemoryOf[i] + 0
        BY <2>2, <1>3, <1>4, <1>5 DEF TypeOK
    <2> QED BY <2>1, <2>3, <1>6, LedgersStep
<1>9. TypeOK'
    <2>1. NoPlan \in [threads: 0 .. NProcess, mem_cost: Nat]
        BY <1>3 DEF NoPlan
    <2> QED BY <2>1, <1>2, <1>3, <1>4, <1>8 DEF TypeOK, Phases
<1>10. TasksSeparate'
    BY <1>6, <1>7 DEF TasksSeparate
<1>11. TasksKnown'
    BY <1>4, <1>6 DEF TasksKnown, TypeOK
<1>12. PlansPositive'
    BY <1>6, <1>7 DEF PlansPositive
<1>13. ThreadBudget'
    BY <1>3, <1>4, <1>5 DEF ThreadBudget, TypeOK
<1>14. MemoryCeiling'
    BY <1>4, <1>5, <1>6, BudgetAssumption DEF MemoryCeiling, TypeOK
<1> QED BY <1>8, <1>9, <1>10, <1>11, <1>12, <1>13, <1>14

-----------------------------------------------------------------------------
(* The steps that book nothing, a new start, and the theorems.             *)

\* With nothing running and nothing booked the invariant holds.
LEMMA FreshStart ==
    ASSUME stored \subseteq Node, failures \in 0 .. MaxFailures,
           pc \in {"launch", "done"}, di = 0, status = FreshStatus, ops = {},
           plan = [n \in Node |-> NoPlan], tasks = [i \in Slots |-> NoNode],
           total_threads = 0, total_mem_cost = 0,
           slot = [i \in Slots |-> [threads |-> 0, closed |-> FALSE]],
           phase = [i \in Slots |-> "none"], used = [i \in Slots |-> 0]
    PROVE  IInv
<1>1. NProcess \in Nat
    BY BudgetAssumption
<1>2. Active = {}
    BY DEF Active
<1>3. TypeOK
    <2>1. status \in [Node -> {"unmade", "open", "processing", "done"}]
        BY DEF FreshStatus
    <2>2. plan \in [Node -> [threads: 0 .. NProcess, mem_cost: Nat]]
        BY <1>1 DEF NoPlan
    <2>3. slot \in [Slots -> [threads: 0 .. NProcess, closed: BOOLEAN]]
        BY <1>1
    <2> QED BY <1>1, <2>1, <2>2, <2>3 DEF TypeOK, Phases
<1>4. Ledgers
    <2>1. \A i \in Slots : ThreadsOf[i] = 0 /\ MemoryOf[i] = 0
        BY DEF ThreadsOf, MemoryOf
    <2> QED BY <2>1, <1>3, BooksType, LedgerEmpty DEF Ledgers
<1> QED BY <1>1, <1>2, <1>3, <1>4
        DEF IInv, TasksSeparate, TasksKnown, PlansPositive, ThreadBudget, MemoryCeiling

LEMMA InitInvariant == Init => IInv
<1> SUFFICES ASSUME Init PROVE IInv
    OBVIOUS
<1>1. stored \subseteq Node /\ failures \in 0 .. MaxFailures
    BY CacheAssumption, BudgetAssumption DEF Init
<1>2. pc \in {"launch", "done"}
    BY DEF Init
<1> QED BY <1>1, <1>2, FreshStart DEF Init

LEMMA RestartStep ==
    ASSUME IInv, Restart
    PROVE  IInv'
<1>1. NProcess \in Nat
    BY BudgetAssumption
<1>2. Active' = {}
    BY DEF Restart, Active
<1>3. total_threads' = 0 /\ total_mem_cost' = 0
    BY DEF Restart
<1>4. TypeOK'
    <2>1. status' \in [Node -> {"unmade", "open", "processing", "done"}]
        BY DEF Restart, FreshStatus
    <2>2. plan' \in [Node -> [threads: 0 .. NProcess, mem_cost: Nat]]
        BY <1>1 DEF Restart, NoPlan
    <2>3. slot' \in [Slots -> [threads: 0 .. NProcess, closed: BOOLEAN]]
        BY <1>1 DEF Restart
    <2>4. /\ pc' \in {"launch", "done"} /\ di' \in 0 .. NProcess
          /\ ops' = {} /\ tasks' \in [Slots -> Node \cup {NoNode}]
          /\ phase' \in [Slots -> Phases] /\ used' \in [Slots -> 0 .. NProcess]
        BY <1>1 DEF Restart, Phases
    <2>5. stored' \subseteq Node /\ failures' \in 0 .. MaxFailures
        BY DEF Restart, IInv, TypeOK
    <2> QED BY <1>3, <2>1, <2>2, <2>3, <2>4, <2>5 DEF TypeOK
<1>5. Ledgers'
    <2> DEFINE zero == [i \in Slots |-> 0]
    <2>1. ThreadsOf' = zero /\ MemoryOf' = zero
        BY DEF Restart, ThreadsOf, MemoryOf
    <2>2. Ledger(zero, 0)
        BY LedgerEmpty
    <2> QED BY <2>1, <2>2, <1>3 DEF Ledgers, Ledger, RunningSum
<1>6. TasksKnown'
    BY DEF Restart, TasksKnown
<1> QED BY <1>1, <1>2, <1>3, <1>4, <1>5, <1>6
        DEF IInv, TasksSeparate, PlansPositive, ThreadBudget, MemoryCeiling

\* The pass that launches nothing and the donation loop's own steps.
LEMMA QuietSchedulerStep ==
    ASSUME IInv, EndLaunch \/ DonateLoad \/ DonateRefused \/ DonateEnd
    PROVE  IInv'
<1> USE DEF IInv
<1>1. UNCHANGED <<plan, tasks, total_threads, total_mem_cost, slot, phase, used,
                  stored, failures>>
    BY DEF EndLaunch, DonateLoad, DonateRefused, DonateEnd, workers
<1>2. Ledgers' /\ ThreadBudget' /\ MemoryCeiling' /\ PlansPositive'
    BY <1>1, BooksUnchanged
<1>3. Active' = Active
    BY <1>1 DEF Active
<1>4. /\ status' \in [Node -> {"unmade", "open", "processing", "done"}]
      /\ \A n \in Node : status[n] = "processing" => status'[n] = "processing"
    BY WalkedType DEF EndLaunch, DonateLoad, DonateRefused, DonateEnd, TypeOK
<1>5. ops' \subseteq Node
    <2>1. DonateRefused => tasks[di] \in Node
        BY DEF DonateRefused, TasksKnown, Active, TypeOK
    <2> QED BY <2>1 DEF EndLaunch, DonateLoad, DonateRefused, DonateEnd,
                        NodeOpSizes, Priced, TypeOK
<1>6. /\ pc' \in {"donate", "offer", "wait"}
      /\ di' \in 0 .. NProcess
      /\ pc' = "offer" => di' \in Active
    <2>1. NProcess \in Nat
        BY BudgetAssumption
    <2>2. CASE EndLaunch \/ DonateEnd
        BY <2>1, <2>2 DEF EndLaunch, DonateEnd
    <2>3. CASE DonateRefused
        BY <2>1, <2>3 DEF DonateRefused, TasksKnown, Active, Slots
    <2>4. CASE DonateLoad
        <3>1. Candidates \subseteq Nat /\ Candidates # {} /\ Candidates \subseteq Active
            BY <2>1, <2>4 DEF DonateLoad, Candidates, Active, Slots
        <3>2. \E i \in Candidates : \A j \in Candidates : i <= j
            BY <3>1, LeastExists
        <3>3. di' \in Candidates
            BY <2>4, <3>2 DEF DonateLoad
        <3>4. di' \in Active /\ Active \subseteq 0 .. NProcess
            BY <2>1, <3>1, <3>3 DEF Active, Slots
        <3>5. pc' = "offer"
            BY <2>4 DEF DonateLoad
        <3> QED BY <3>4, <3>5
    <2>5. \/ EndLaunch \/ DonateEnd
          \/ DonateRefused
          \/ DonateLoad
        OBVIOUS
    <2> QED BY <2>2, <2>3, <2>4, <2>5
<1>7. TypeOK'
    BY <1>1, <1>4, <1>5, <1>6 DEF TypeOK
<1>8. TasksSeparate'
    BY <1>1, <1>3, <1>4 DEF TasksSeparate, TypeOK, Active
<1>9. TasksKnown'
    BY <1>1, <1>3, <1>6 DEF TasksKnown
<1> QED BY <1>2, <1>7, <1>8, <1>9

\* What a worker does, and its death, never touch the books.
LEMMA WorkerSteps ==
    ASSUME IInv, NEW i \in Slots, WorkerStep(i) \/ WorkerDies(i)
    PROVE  IInv'
<1> USE DEF IInv
<1>1. UNCHANGED sched
    BY DEF WorkerStep, CloseSlot, Commit, DeleteLeft, Exit, WorkerDies
<1>2. Ledgers' /\ ThreadBudget' /\ MemoryCeiling' /\ PlansPositive'
    BY <1>1, BooksUnchanged DEF sched
<1>3. Active' = Active
    BY <1>1 DEF Active, sched
<1>4. /\ phase' \in [Slots -> Phases]
      /\ \A j \in Slots : phase'[j] # "none" => phase[j] # "none"
    BY DEF WorkerStep, CloseSlot, Commit, DeleteLeft, Exit, WorkerDies, TypeOK,
           Phases, Live
<1>5. stored' \subseteq Node
    <2>1. CASE Commit(i)
        <3>1. tasks[i] \in Node
            BY <2>1 DEF Commit, TasksKnown, Active, TypeOK
        <3> QED BY <2>1, <3>1 DEF Commit, TypeOK
    <2>2. CASE ~Commit(i)
        BY <2>2 DEF WorkerStep, CloseSlot, DeleteLeft, Exit, WorkerDies, TypeOK
    <2> QED BY <2>1, <2>2
<1>6. /\ slot' \in [Slots -> [threads: 0 .. NProcess, closed: BOOLEAN]]
      /\ used' \in [Slots -> 0 .. NProcess]
    <2>1. CASE CloseSlot(i)
        <3>1. slot[i].threads \in 0 .. NProcess
            BY DEF TypeOK
        <3> QED BY <2>1, <3>1 DEF CloseSlot, TypeOK
    <2>2. CASE ~CloseSlot(i)
        BY <2>2 DEF WorkerStep, Commit, DeleteLeft, Exit, WorkerDies, TypeOK
    <2> QED BY <2>1, <2>2
<1>7. failures' \in 0 .. MaxFailures
    BY BudgetAssumption
    DEF WorkerStep, CloseSlot, Commit, DeleteLeft, Exit, WorkerDies, TypeOK
<1>8. TypeOK'
    BY <1>1, <1>4, <1>5, <1>6, <1>7 DEF TypeOK, sched
<1>9. TasksSeparate' /\ TasksKnown'
    BY <1>1, <1>3, <1>4 DEF TasksSeparate, TasksKnown, sched
<1> QED BY <1>2, <1>8, <1>9

\* A trap leaves everything but the program counter as it was, a crash kills
\* workers too.
LEMMA DownSteps ==
    ASSUME IInv, (\E i \in Slots : TaskCheckExit(i)) \/ Crash
    PROVE  IInv'
<1> USE DEF IInv
<1>1. /\ pc' = "down"
      /\ UNCHANGED <<di, status, ops, plan, tasks, total_threads, total_mem_cost,
                     slot, used, stored>>
    BY DEF TaskCheckExit, Crash, workers
<1>2. Ledgers' /\ ThreadBudget' /\ MemoryCeiling' /\ PlansPositive'
    BY <1>1, BooksUnchanged
<1>3. Active' = Active
    BY <1>1 DEF Active
<1>4. /\ phase' \in [Slots -> Phases]
      /\ \A j \in Slots : phase'[j] # "none" => phase[j] # "none"
      /\ failures' \in 0 .. MaxFailures
    BY BudgetAssumption DEF TaskCheckExit, Crash, workers, TypeOK, Phases, Live
<1>5. TypeOK'
    BY <1>1, <1>4 DEF TypeOK
<1>6. TasksSeparate' /\ TasksKnown'
    BY <1>1, <1>3, <1>4 DEF TasksSeparate, TasksKnown
<1> QED BY <1>2, <1>5, <1>6

LEMMA NextInvariant == IInv /\ [Next]_vars => IInv'
<1> SUFFICES ASSUME IInv, [Next]_vars PROVE IInv'
    OBVIOUS
<1>1. CASE Launch
    BY <1>1, LaunchStep
<1>2. CASE EndLaunch \/ DonateLoad \/ DonateRefused \/ DonateEnd
    BY <1>2, QuietSchedulerStep
<1>3. CASE DonateAccepted
    BY <1>3, DonateAcceptedStep
<1>4. ASSUME NEW i \in Slots, TaskEnd(i) PROVE IInv'
    BY <1>4, TaskEndStep
<1>5. ASSUME NEW i \in Slots, WorkerStep(i) \/ WorkerDies(i) PROVE IInv'
    BY <1>5, WorkerSteps
<1>6. CASE (\E i \in Slots : TaskCheckExit(i)) \/ Crash
    BY <1>6, DownSteps
<1>7. CASE Restart
    BY <1>7, RestartStep
<1>8. CASE UNCHANGED vars
    <2>1. UNCHANGED <<plan, tasks, total_threads, total_mem_cost>>
        BY <1>8 DEF vars, sched
    <2>2. Ledgers' /\ ThreadBudget' /\ MemoryCeiling' /\ PlansPositive'
        BY <2>1, BooksUnchanged DEF IInv
    <2> QED BY <1>8, <2>2 DEF vars, sched, workers, IInv, TypeOK, TasksSeparate,
                              TasksKnown, Active
<1> QED BY <1>1, <1>2, <1>3, <1>4, <1>5, <1>6, <1>7, <1>8
        DEF Next, SchedulerStep, Done

THEOREM Invariance == Spec => []IInv
BY InitInvariant, NextInvariant, PTL DEF Spec

\* Every variable keeps its type; in particular the unsigned totals are never
\* taken below zero, and no grant is ever beyond n_process.
THEOREM TypeCorrect == Spec => []TypeOK
<1>1. IInv => TypeOK
    BY DEF IInv
<1> QED BY <1>1, Invariance, PTL

\* The threads granted never exceed n_process (lib/tree/code.c:579-620, 985).
THEOREM ThreadsWithinBudget == Spec => []ThreadBudget
<1>1. IInv => ThreadBudget
    BY DEF IInv
<1> QED BY <1>1, Invariance, PTL

\* Tasks run side by side only below mem_max (lib/tree/code.c:574, 662-670).
THEOREM MemoryBelowCeiling == Spec => []MemoryCeiling
<1>1. IInv => MemoryCeiling
    BY DEF IInv
<1> QED BY <1>1, Invariance, PTL

\* No two workers are ever computing the same node (lib/tree/code.c:622, 862).
THEOREM WorkersSeparate == Spec => []TasksSeparate
<1>1. IInv => TasksSeparate
    BY DEF IInv
<1> QED BY <1>1, Invariance, PTL

-----------------------------------------------------------------------------
(* The slot a scheduler and a worker share.  The scheduler raises the      *)
(* grant in it while the worker may be closing it; what is to be shown is  *)
(* that the two never disagree on what was granted.  With the scheduler's  *)
(* own invariant it takes two more facts: an active task's slot holds the  *)
(* threads its plan is charged for, and the plan is priced at them.        *)

SlotIsPlan == \A i \in Active : slot[i].threads = plan[tasks[i]].threads

PlansPriced ==
    \A i \in Active : LET n == tasks[i]
                     IN  plan[n].mem_cost = NodeEstimateMemory(n, plan[n].threads)

GInv == SlotIsPlan /\ PlansPriced /\ GrantRead

-----------------------------------------------------------------------------

\* A step that leaves the tasks, their plans, the slots and the grants taken as
\* they are keeps the agreement.
LEMMA GrantUnchanged ==
    ASSUME GInv, UNCHANGED <<tasks, plan, slot, used>>
    PROVE  GInv'
BY DEF GInv, SlotIsPlan, PlansPriced, GrantRead, Active, NodeEstimateMemory,
       NodeIsLeaf, Kids

\* task_start hands a new worker its plan's threads in a slot that is open.
LEMMA GrantLaunch ==
    ASSUME IInv, GInv, Launch
    PROVE  GInv'
<1> USE DEF IInv
<1>1. PICK n \in Taken : TaskStart(n, FreeIndex)
    BY DEF Launch
<1>2. n \in Node /\ status[n] # "processing"
    BY <1>1, TakenFacts
<1>3. PICK i : i = FreeIndex
    OBVIOUS
<1>4. i \in Slots \ Active
    BY <1>3, FreeIndexType DEF Launch
<1>5. PICK t : t = LaunchThreads(n)
    OBVIOUS
<1>6. PICK m : m = LaunchCost(n)
    OBVIOUS
<1>7. /\ plan' = [plan EXCEPT ![n] = [threads |-> t, mem_cost |-> m]]
      /\ tasks' = [tasks EXCEPT ![i] = n]
      /\ slot' = [slot EXCEPT ![i] = [threads |-> t, closed |-> FALSE]]
      /\ used' = [used EXCEPT ![i] = 0]
    BY <1>1, <1>3, <1>5, <1>6 DEF TaskStart
<1>8. ASSUME NEW j \in Active'
      PROVE  /\ slot'[j].threads = plan'[tasks'[j]].threads
             /\ slot'[j].closed => used'[j] = plan'[tasks'[j]].threads
             /\ plan'[tasks'[j]].mem_cost
                    = NodeEstimateMemory(tasks'[j], plan'[tasks'[j]].threads)
    <2>1. j \in Slots /\ tasks'[j] # NoNode
        BY <1>8 DEF Active
    <2>2. CASE j = i
        <3>1. tasks'[j] = n /\ plan'[n].threads = t /\ plan'[n].mem_cost = m
            BY <1>2, <1>7, <2>1, <2>2 DEF TypeOK
        <3>2. slot'[j].threads = t /\ slot'[j].closed = FALSE
            BY <1>7, <2>1, <2>2 DEF TypeOK
        <3>3. m = NodeEstimateMemory(n, t)
            BY <1>5, <1>6 DEF LaunchCost
        <3> QED BY <3>1, <3>2, <3>3
    <2>3. CASE j # i
        <3>1. /\ tasks'[j] = tasks[j] /\ slot'[j] = slot[j] /\ used'[j] = used[j]
              /\ j \in Active
            BY <1>7, <2>1, <2>3 DEF Active, TypeOK
        <3>2. tasks[j] # n
            BY <1>2, <3>1 DEF TasksSeparate
        <3>3. plan'[tasks[j]] = plan[tasks[j]]
            BY <1>7, <3>1, <3>2 DEF Active, TypeOK
        <3> QED BY <3>1, <3>3 DEF GInv, SlotIsPlan, PlansPriced, GrantRead
    <2> QED BY <2>2, <2>3
<1> QED BY <1>8 DEF GInv, SlotIsPlan, PlansPriced, GrantRead, NodeEstimateMemory,
                    NodeIsLeaf, Kids

\* A donation raises the slot and the plan together, and only in an open slot.
LEMMA GrantDonation ==
    ASSUME IInv, GInv, DonateAccepted
    PROVE  GInv'
<1> USE DEF IInv
<1>1. PICK n : n = tasks[di]
    OBVIOUS
<1>2. di \in Active /\ di \in Slots /\ n \in Node
    BY <1>1 DEF DonateAccepted, TasksKnown, Active, TypeOK
<1>3. PICK t : t = OfferThreads(n)
    OBVIOUS
<1>4. PICK m : m = OfferCost(n)
    OBVIOUS
<1>5. /\ ~slot[di].closed
      /\ slot' = [slot EXCEPT ![di].threads = t]
      /\ plan' = [plan EXCEPT ![n] = [threads |-> t, mem_cost |-> m]]
      /\ UNCHANGED <<tasks, used>>
    BY <1>1, <1>3, <1>4 DEF DonateAccepted, OfferHolds, workers
<1>6. ASSUME NEW j \in Active
      PROVE  /\ slot'[j].threads = plan'[tasks[j]].threads
             /\ slot'[j].closed => used[j] = plan'[tasks[j]].threads
             /\ plan'[tasks[j]].mem_cost
                    = NodeEstimateMemory(tasks[j], plan'[tasks[j]].threads)
    <2>1. j \in Slots /\ tasks[j] \in Node
        BY DEF Active, TypeOK
    <2>2. CASE j = di
        <3>1. plan'[tasks[j]].threads = t /\ plan'[tasks[j]].mem_cost = m
            BY <1>1, <1>2, <1>5, <2>2 DEF TypeOK
        <3>2. slot'[j].threads = t /\ ~slot'[j].closed
            BY <1>5, <2>1, <2>2 DEF TypeOK
        <3>3. m = NodeEstimateMemory(tasks[j], t)
            BY <1>1, <1>3, <1>4, <2>2 DEF OfferCost
        <3> QED BY <3>1, <3>2, <3>3
    <2>3. CASE j # di
        <3>1. slot'[j] = slot[j] /\ tasks[j] # n
            BY <1>1, <1>2, <1>5, <2>1, <2>3 DEF TasksSeparate, TypeOK
        <3>2. plan'[tasks[j]] = plan[tasks[j]]
            BY <1>5, <2>1, <3>1 DEF TypeOK
        <3> QED BY <3>1, <3>2 DEF GInv, SlotIsPlan, PlansPriced, GrantRead
    <2> QED BY <2>2, <2>3
<1>7. Active' = Active
    BY <1>5 DEF Active
<1> QED BY <1>5, <1>6, <1>7
        DEF GInv, SlotIsPlan, PlansPriced, GrantRead, NodeEstimateMemory, NodeIsLeaf,
            Kids

\* A task that ends takes back its own plan and nobody else's.
LEMMA GrantTaskEnd ==
    ASSUME IInv, GInv, NEW i \in Slots, TaskEnd(i)
    PROVE  GInv'
<1> USE DEF IInv
<1>1. /\ tasks' = [tasks EXCEPT ![i] = NoNode]
      /\ plan' = [plan EXCEPT ![tasks[i]] = NoPlan]
      /\ used' = [used EXCEPT ![i] = 0]
      /\ slot' = slot
      /\ i \in Active
    BY DEF TaskEnd, TasksKnown
<1>2. ASSUME NEW j \in Active'
      PROVE  /\ j \in Active /\ tasks'[j] = tasks[j] /\ used'[j] = used[j]
             /\ plan'[tasks[j]] = plan[tasks[j]]
    <2>1. j \in Slots /\ tasks'[j] # NoNode
        BY <1>2 DEF Active
    <2>2. j # i
        BY <1>1, <2>1 DEF TypeOK
    <2>3. tasks'[j] = tasks[j] /\ used'[j] = used[j] /\ j \in Active
        BY <1>1, <2>1, <2>2 DEF Active, TypeOK
    <2>4. tasks[j] # tasks[i] /\ tasks[j] \in Node
        BY <1>1, <2>2, <2>3 DEF TasksSeparate, Active, TypeOK
    <2> QED BY <1>1, <2>3, <2>4 DEF TypeOK
<1> QED BY <1>1, <1>2
        DEF GInv, SlotIsPlan, PlansPriced, GrantRead, NodeEstimateMemory, NodeIsLeaf,
            Kids

\* A worker that closes its slot computes with the threads it finds there.
LEMMA GrantClose ==
    ASSUME IInv, GInv, NEW i \in Slots, CloseSlot(i)
    PROVE  GInv'
<1> USE DEF IInv
<1>1. /\ slot' = [slot EXCEPT ![i].closed = TRUE]
      /\ used' = [used EXCEPT ![i] = slot[i].threads]
      /\ UNCHANGED <<tasks, plan>>
    BY DEF CloseSlot, sched
<1>2. Active' = Active /\ Active \subseteq Slots
    BY <1>1 DEF Active
<1>3. ASSUME NEW j \in Active
      PROVE  /\ slot'[j].threads = slot[j].threads
             /\ j # i => slot'[j] = slot[j] /\ used'[j] = used[j]
             /\ j = i => used'[j] = slot[j].threads
    BY <1>1, <1>2 DEF TypeOK
<1> QED BY <1>1, <1>2, <1>3
        DEF GInv, SlotIsPlan, PlansPriced, GrantRead, NodeEstimateMemory, NodeIsLeaf,
            Kids

LEMMA GrantInit == Init => GInv
<1>1. Init => Active = {}
    BY DEF Init, Active
<1> QED BY <1>1 DEF GInv, SlotIsPlan, PlansPriced, GrantRead

\* Every step keeps plan, slot and the grant taken in agreement.
LEMMA GrantStep == IInv /\ GInv /\ [Next]_vars => GInv'
<1> SUFFICES ASSUME IInv, GInv, [Next]_vars PROVE GInv'
    OBVIOUS
<1>1. CASE Launch
    BY <1>1, GrantLaunch
<1>2. CASE DonateAccepted
    BY <1>2, GrantDonation
<1>3. ASSUME NEW i \in Slots, TaskEnd(i) PROVE GInv'
    BY <1>3, GrantTaskEnd
<1>4. ASSUME NEW i \in Slots, WorkerStep(i) \/ WorkerDies(i) PROVE GInv'
    <2>1. CASE CloseSlot(i)
        BY <2>1, GrantClose
    <2>2. CASE Commit(i) \/ DeleteLeft(i) \/ Exit(i) \/ WorkerDies(i)
        BY <2>2, GrantUnchanged DEF Commit, DeleteLeft, Exit, WorkerDies, sched
    <2> QED BY <1>4, <2>1, <2>2 DEF WorkerStep
<1>5. CASE \/ EndLaunch \/ DonateLoad \/ DonateRefused \/ DonateEnd \/ Crash
           \/ \E i \in Slots : TaskCheckExit(i)
    BY <1>5, GrantUnchanged DEF EndLaunch, DonateLoad, DonateRefused, DonateEnd,
                                TaskCheckExit, Crash, workers
<1>6. CASE Restart
    <2>1. Active' = {}
        BY <1>6 DEF Restart, Active
    <2> QED BY <2>1 DEF GInv, SlotIsPlan, PlansPriced, GrantRead
<1>7. CASE UNCHANGED vars
    BY <1>7, GrantUnchanged DEF vars, sched, workers
<1> QED BY <1>1, <1>2, <1>3, <1>4, <1>5, <1>6, <1>7 DEF Next, SchedulerStep, Done

\* From the moment a join has closed its slot, the grant it computes with is
\* the one its plan is charged for, whatever was being donated while it did
\* (lib/tree/code.c:958-963, 1006-1007).
THEOREM DonationsAreRead == Spec => []GrantRead
<1>1. GInv => GrantRead
    BY DEF GInv
<1> QED BY <1>1, GrantInit, GrantStep, Invariance, PTL DEF Spec

-----------------------------------------------------------------------------
(* What a step may do to a slot.                                           *)

SlotRaised(i) == /\ slot'[i].threads >= slot[i].threads
                 /\ slot[i].closed => slot'[i] = slot[i]

Lending == \A i \in Active : tasks'[i] = tasks[i] => SlotRaised(i)

LEMMA LendingStep == IInv /\ GInv /\ [Next]_vars => [Lending]_vars
<1> SUFFICES ASSUME IInv, GInv, [Next]_vars, NEW i \in Active,
                    tasks'[i] = tasks[i]
             PROVE  SlotRaised(i)
    BY DEF Lending
<1> USE DEF IInv
<1>1. /\ i \in Slots /\ tasks[i] \in Node /\ NoNode \notin Node
      /\ NProcess \in Nat
      /\ slot[i].threads \in 0 .. NProcess /\ slot[i].closed \in BOOLEAN
    BY NodeAssumption, BudgetAssumption DEF Active, TypeOK
<1>2. CASE slot'[i] = slot[i]
    BY <1>1, <1>2 DEF SlotRaised
<1>3. CASE Launch
    <2>1. PICK n \in Taken : TaskStart(n, FreeIndex)
        BY <1>3 DEF Launch
    <2>2. FreeIndex \in Slots \ Active
        BY <1>3, FreeIndexType DEF Launch
    <2>3. slot'[i] = slot[i]
        BY <1>1, <2>1, <2>2 DEF TaskStart, TypeOK
    <2> QED BY <2>3, <1>2
<1>4. CASE DonateAccepted
    <2>1. PICK t : t = OfferThreads(tasks[di])
        OBVIOUS
    <2>2. /\ ~slot[di].closed /\ t > plan[tasks[di]].threads
          /\ slot' = [slot EXCEPT ![di].threads = t]
        BY <1>4, <2>1 DEF DonateAccepted, OfferHolds
    <2>3. CASE i = di
        <3>1. slot[i].threads = plan[tasks[i]].threads
            BY DEF GInv, SlotIsPlan
        <3>2. t >= slot[i].threads
            <4>1. t \in Nat
                <5>1. FreeThreads \in Nat
                    BY BudgetAssumption DEF FreeThreads, TypeOK
                <5>2. plan[tasks[i]].threads >= 1
                    BY DEF PlansPositive
                <5>3. FreeThreads + plan[tasks[i]].threads \in Nat \ {0}
                    BY <1>1, <3>1, <5>1, <5>2
                <5>4. t = NodeThreads(tasks[i], FreeThreads + plan[tasks[i]].threads)
                    BY <2>1, <2>3 DEF OfferThreads
                <5>5. t \in 1 .. (FreeThreads + plan[tasks[i]].threads)
                    BY <1>1, <5>3, <5>4, NodeThreadsType
                <5> QED BY <5>3, <5>5
            <4> QED BY <1>1, <2>2, <2>3, <3>1, <4>1
        <3>3. slot'[i].threads = t
            BY <1>1, <2>2, <2>3 DEF TypeOK
        <3> QED BY <2>2, <2>3, <3>2, <3>3 DEF SlotRaised
    <2>4. CASE i # di
        <3>1. slot'[i] = slot[i]
            BY <1>1, <2>2, <2>4 DEF TypeOK
        <3> QED BY <3>1, <1>2
    <2> QED BY <2>3, <2>4
<1>5. ASSUME NEW j \in Slots, CloseSlot(j) PROVE SlotRaised(i)
    <2>1. slot' = [slot EXCEPT ![j].closed = TRUE]
        BY <1>5 DEF CloseSlot
    <2>2. slot'[i].threads = slot[i].threads
        BY <1>1, <2>1 DEF TypeOK
    <2>3. slot[i].closed => slot'[i] = slot[i]
        BY <1>1, <2>1 DEF TypeOK
    <2> QED BY <1>1, <2>2, <2>3 DEF SlotRaised
<1>6. CASE Restart
    BY <1>1, <1>6 DEF Restart
<1>7. CASE slot' = slot
    BY <1>2, <1>7
<1>8. \/ Launch \/ DonateAccepted \/ Restart \/ slot' = slot
      \/ \E j \in Slots : CloseSlot(j)
    BY DEF Next, SchedulerStep, WorkerStep, EndLaunch, DonateLoad, DonateRefused,
           DonateEnd, TaskEnd, TaskCheckExit, Commit, DeleteLeft, Exit, WorkerDies,
           Crash, Done, vars
<1> QED BY <1>3, <1>4, <1>5, <1>6, <1>7, <1>8

\* Lending only ever raises a running task's grant, and only before it has
\* closed its slot (lib/tree/code.c:958-963).
THEOREM LendingRaises == Spec => LendingOnlyRaises
<1>1. [Lending]_vars <=> [\A i \in Active : tasks'[i] = tasks[i] =>
                            /\ slot'[i].threads >= slot[i].threads
                            /\ slot[i].closed => slot'[i] = slot[i]]_vars
    BY DEF Lending, SlotRaised
<1> QED BY <1>1, GrantInit, GrantStep, LendingStep, Invariance, PTL
        DEF Spec, LendingOnlyRaises

-----------------------------------------------------------------------------
(* The books.                                                              *)

\* A ledger's last line is the sum over the slots.
LEMMA LedgerIsSum ==
    ASSUME NEW f \in [Slots -> Nat], NEW total, Ledger(f, total)
    PROVE  total = SlotSum(f)
<1>0. NProcess \in Nat
    BY BudgetAssumption
<1>1. PICK g : RunningSum(g, f, total)
    BY DEF Ledger
<1> DEFINE Next1(s) == [k \in 0 .. NProcess |->
                          IF k = 0 THEN 0 ELSE s[k - 1] + f[k - 1]]
           sum == CHOOSE s : s = Next1(s)
<1>2. g = Next1(g)
    <2>1. ASSUME NEW k \in 0 .. NProcess
          PROVE  g[k] = IF k = 0 THEN 0 ELSE g[k - 1] + f[k - 1]
        <3>1. CASE k = 0
            BY <3>1, <1>1 DEF RunningSum
        <3>2. CASE k # 0
            <4>1. k - 1 \in Slots /\ (k - 1) + 1 = k
                BY <3>2, <1>0 DEF Slots
            <4> QED BY <4>1, <3>2, <1>1 DEF RunningSum
        <3> QED BY <3>1, <3>2
    <2>2. g \in [0 .. NProcess -> Nat]
        BY <1>1 DEF RunningSum
    <2> QED BY <2>1, <2>2
<1>3. sum = Next1(sum)
    <2> HIDE DEF Next1
    <2> QED BY <1>2
<1>4. SlotSum(f) = sum[NProcess]
    BY DEF SlotSum
<1> HIDE DEF sum
<1>5. /\ sum[0] = 0
      /\ \A k \in 1 .. NProcess : sum[k] = sum[k - 1] + f[k - 1]
    BY <1>0, <1>3
<1> DEFINE Differ == {k \in 0 .. NProcess : sum[k] # g[k]}
<1>6. Differ = {}
    <2> SUFFICES ASSUME Differ # {} PROVE FALSE
        OBVIOUS
    <2>1. PICK k \in Differ : \A j \in Differ : k <= j
        <3>1. Differ \subseteq Nat
            OBVIOUS
        <3> HIDE DEF Differ
        <3> QED BY <3>1, LeastExists
    <2>2. k \in 1 .. NProcess
        BY <1>0, <1>1, <1>5, <2>1 DEF RunningSum
    <2>3. k - 1 \in Slots /\ k - 1 \in 0 .. NProcess /\ (k - 1) + 1 = k
        BY <1>0, <2>2 DEF Slots
    <2>4. sum[k - 1] = g[k - 1]
        <3>1. k - 1 \notin Differ
            BY <2>1, <2>2
        <3> QED BY <2>3, <3>1
    <2>5. g[k] = g[k - 1] + f[k - 1]
        BY <1>1, <2>3 DEF RunningSum
    <2> QED BY <1>5, <2>1, <2>2, <2>4, <2>5
<1>7. NProcess \in 0 .. NProcess
    BY <1>0
<1> QED BY <1>1, <1>4, <1>6, <1>7 DEF RunningSum

\* The totals are the sums of the plans of the active tasks, each plan is the
\* grant in its slot, and its cost the price at that many threads: what a task
\* gives back at its end is what it was booked at (lib/tree/code.c:880-881,
\* 914-915, 1021-1024).
THEOREM BooksBalance == Spec => []Books
<1>1. ASSUME IInv, GInv PROVE Books
    <2>1. /\ total_threads = SlotSum(ThreadsOf)
          /\ total_mem_cost = SlotSum(MemoryOf)
        BY <1>1, BooksType, LedgerIsSum DEF IInv, Ledgers
    <2>2. ASSUME NEW i \in Active
          PROVE  /\ slot[i].threads = plan[tasks[i]].threads
                 /\ plan[tasks[i]].threads \in 1 .. NProcess
                 /\ plan[tasks[i]].mem_cost
                        = NodeEstimateMemory(tasks[i], plan[tasks[i]].threads)
        <3>1. tasks[i] \in Node /\ NProcess \in Nat
            BY <1>1, BudgetAssumption DEF IInv, TypeOK, Active
        <3>2. /\ plan[tasks[i]].threads \in 0 .. NProcess
              /\ plan[tasks[i]].threads >= 1
            BY <3>1, <1>1 DEF IInv, TypeOK, PlansPositive
        <3> QED BY <3>1, <3>2, <1>1 DEF GInv, SlotIsPlan, PlansPriced
    <2> QED BY <2>1, <2>2 DEF Books
<1> QED BY <1>1, GrantInit, GrantStep, Invariance, PTL DEF Spec

=============================================================================
