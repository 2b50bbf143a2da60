----------------------------- MODULE CacheProofs -----------------------------
(***************************************************************************)
(* Proofs about what a run of the scheduler does to the cache: what a      *)
(* worker needs is there while it needs it, nothing is computed twice, the *)
(* launch pass never leaves the scheduler with nothing to wait for, and    *)
(* results come and go as ResultCache allows.  What it takes beside the    *)
(* invariant of the books is how the nodes in memory, which remember what  *)
(* the cache held when a walk made them, stay true of the cache although   *)
(* workers add and delete results behind the scheduler's back.             *)
(***************************************************************************)
EXTENDS SchedulerProofs, CommonLemmas

-----------------------------------------------------------------------------
(* The tree.                                                               *)

LEMMA NodeIsPosition ==
    ASSUME NEW n \in Node
    PROVE  n \in Seq({0, 1}) /\ Len(n) \in Nat
BY NodeAssumption

LEMMA PathEnds ==
    ASSUME NEW n \in Node
    PROVE  n \in Path(n) /\ Root \in Path(n) /\ Path(Root) = {Root}
<1>1. n \in Seq({0, 1}) /\ Len(n) \in Nat
    BY NodeIsPosition
<1>2. Len(n) \in 0 .. Len(n) /\ 0 \in 0 .. Len(n)
    BY <1>1
<1>3. SubSeq(n, 1, Len(n)) = n /\ SubSeq(n, 1, 0) = << >>
    BY <1>1, WholePrefix
<1>4. Path(Root) = {Root}
    <2>1. Root \in Seq({0, 1}) /\ Len(Root) = 0
        BY NodeAssumption DEF Root
    <2>2. SubSeq(Root, 1, 0) = Root
        BY <2>1, WholePrefix DEF Root
    <2>3. \A k \in 0 .. Len(Root) : SubSeq(Root, 1, k) = Root
        BY <2>1, <2>2
    <2>4. 0 \in 0 .. Len(Root)
        BY <2>1
    <2> QED BY <2>3, <2>4, Zenon DEF Path
<1> QED BY <1>2, <1>3, <1>4 DEF Path, Root

\* A prefix's prefixes are prefixes, and a proper one is shorter.
LEMMA PathTransitive ==
    ASSUME NEW n \in Node, NEW p \in Path(n)
    PROVE  /\ p \in Seq({0, 1}) /\ Len(p) \in Nat
           /\ p # n => Len(p) < Len(n)
           /\ Path(p) \subseteq Path(n)
           /\ \A m \in Path(p) : m # p => m # n
<1>1. n \in Seq({0, 1}) /\ Len(n) \in Nat
    BY NodeIsPosition
<1>2. PICK k \in 0 .. Len(n) : p = SubSeq(n, 1, k)
    BY DEF Path
<1>3. p \in Seq({0, 1}) /\ Len(p) = k
    BY <1>1, <1>2, PrefixElements
<1>4. p # n => k < Len(n)
    <2>1. SubSeq(n, 1, Len(n)) = n
        BY <1>1, WholePrefix
    <2>2. p # n => k # Len(n)
        BY <1>2, <2>1, Zenon
    <2> QED BY <1>1, <2>2
<1>5. ASSUME NEW m \in Path(p)
      PROVE  m \in Path(n) /\ (m # p => m # n)
    <2>1. PICK i \in 0 .. k : m = SubSeq(p, 1, i)
        BY <1>3 DEF Path
    <2>2. m = SubSeq(n, 1, i)
        BY <1>1, <1>2, <2>1, PrefixOfPrefix
    <2>3. i \in 0 .. Len(n)
        BY <1>1, <1>2, <2>1
    <2>4. Len(m) = i
        BY <1>1, <2>2, <2>3, PrefixElements
    <2>5. m # p => i < k
        <3>1. SubSeq(p, 1, k) = p
            BY <1>3, WholePrefix
        <3> QED BY <1>1, <2>1, <3>1
    <2>6. m # p => m # n
        BY <1>1, <2>4, <2>5
    <2> QED BY <2>2, <2>3, <2>6 DEF Path
<1> QED BY <1>1, <1>3, <1>4, <1>5

LEMMA KidFacts ==
    ASSUME NEW n \in Node, NEW k \in Kids(n)
    PROVE  /\ k \in Node /\ k # Root
           /\ Parent(k) = n
           /\ Path(k) = Path(n) \cup {k}
           /\ k \notin Path(n)
<1>1. n \in Seq({0, 1}) /\ Len(n) \in Nat
    BY NodeIsPosition
<1>2. PICK e \in {0, 1} : k = Append(n, e)
    BY DEF Kids
<1>3. k \in Seq({0, 1}) /\ Len(k) = Len(n) + 1
    BY <1>1, <1>2, AppendElements
<1>4. \A i \in 0 .. Len(n) : SubSeq(k, 1, i) = SubSeq(n, 1, i)
    BY <1>1, <1>2, PrefixOfAppend
<1>5. SubSeq(k, 1, Len(n)) = n
    <2>1. Len(n) \in 0 .. Len(n)
        BY <1>1
    <2> QED BY <1>1, <1>4, <2>1, WholePrefix
<1>6. Parent(k) = n
    <2>1. Len(k) - 1 = Len(n)
        BY <1>1, <1>3
    <2> QED BY <1>5, <2>1 DEF Parent
<1>7. k # Root
    <2>1. Len(Root) = 0
        BY DEF Root
    <2> QED BY <1>1, <1>3, <2>1
<1>8. SubSeq(k, 1, Len(n) + 1) = k
    BY <1>3, WholePrefix
<1>9. Path(k) = Path(n) \cup {k}
    <2>1. 0 .. Len(k) = (0 .. Len(n)) \cup {Len(n) + 1}
        BY <1>1, <1>3
    <2> QED BY <2>1, <1>4, <1>8 DEF Path
<1>10. k \notin Path(n)
    <2> SUFFICES ASSUME k \in Path(n) PROVE FALSE
        OBVIOUS
    <2>1. k = n \/ Len(k) < Len(n)
        BY PathTransitive
    <2> QED BY <2>1, <1>1, <1>3
<1> QED BY <1>6, <1>7, <1>9, <1>10 DEF Kids

LEMMA ParentFacts ==
    ASSUME NEW n \in Node, n # Root
    PROVE  Parent(n) \in Node /\ n \in Kids(Parent(n)) /\ Parent(n) \in Path(n)
<1>1. n \in Seq({0, 1}) /\ Len(n) \in Nat /\ n # << >>
    BY NodeIsPosition DEF Root
<1>2. /\ Len(n) - 1 \in 0 .. Len(n) /\ n[Len(n)] \in {0, 1}
      /\ Append(Parent(n), n[Len(n)]) = n
    BY <1>1, AppendToParent DEF Parent
<1>3. Parent(n) \in Node
    BY BinaryAssumption DEF Parent
<1> QED BY <1>2, <1>3 DEF Kids, Path, Parent

\* The positions above a node are nodes.
LEMMA PathInNode ==
    ASSUME NEW n \in Node
    PROVE  Path(n) \subseteq Node
<1>1. n \in Seq({0, 1}) /\ Len(n) \in Nat
    BY NodeIsPosition
<1> DEFINE Out == {k \in 1 .. Len(n) : SubSeq(n, 1, k) \notin Node}
<1>2. Out = {}
    <2> SUFFICES ASSUME Out # {} PROVE FALSE
        OBVIOUS
    <2>1. PICK k \in Out : \A j \in Out : j <= k
        <3>1. Out \subseteq 1 .. Len(n)
            OBVIOUS
        <3> HIDE DEF Out
        <3> QED BY <1>1, <3>1, GreatestExists
    <2>2. SubSeq(n, 1, Len(n)) = n
        BY <1>1, WholePrefix
    <2>3. k \in Nat /\ k < Len(n) /\ k + 1 \in 1 .. Len(n) /\ k \in 0 .. k + 1
        <3>1. k # Len(n)
            BY <2>1, <2>2
        <3> QED BY <1>1, <2>1, <3>1
    <2> DEFINE m == SubSeq(n, 1, k + 1)
    <2>4. k + 1 \notin Out
        BY <2>1, <2>3
    <2>5. m \in Node
        BY <2>3, <2>4
    <2>6. Len(m) = k + 1 /\ SubSeq(m, 1, k) = SubSeq(n, 1, k)
        <3>1. k + 1 \in 0 .. Len(n)
            BY <1>1, <2>3
        <3> QED BY <1>1, <2>3, <3>1, PrefixElements, PrefixOfPrefix
    <2> HIDE DEF m
    <2>7. m # Root
        <3>1. Len(Root) = 0
            BY DEF Root
        <3> QED BY <2>3, <2>6, <3>1
    <2>8. Parent(m) \in Node
        BY <2>5, <2>7, ParentFacts
    <2>9. Len(m) - 1 = k
        BY <2>3, <2>6
    <2> QED BY <2>1, <2>6, <2>8, <2>9 DEF Parent
<1>3. SubSeq(n, 1, 0) = Root /\ Root \in Node
    BY <1>1, WholePrefix, NodeAssumption DEF Root
<1>4. \A k \in 0 .. Len(n) : k = 0 \/ k \in 1 .. Len(n)
    BY <1>1
<1> QED BY <1>2, <1>3, <1>4 DEF Path

\* Below a node that is above n, one child is above n or is n.
LEMMA KidOnPath ==
    ASSUME NEW n \in Node, NEW m \in Path(n), m # n
    PROVE  \E k \in Kids(m) : k \in Path(n)
<1>1. n \in Seq({0, 1}) /\ Len(n) \in Nat
    BY NodeIsPosition
<1>2. PICK i \in 0 .. Len(n) : m = SubSeq(n, 1, i)
    BY DEF Path
<1>3. SubSeq(n, 1, Len(n)) = n
    BY <1>1, WholePrefix
<1>4. i \in Nat /\ i < Len(n) /\ i + 1 \in 0 .. Len(n) /\ i \in 0 .. i + 1
    <2>1. i # Len(n)
        BY <1>2, <1>3, Zenon
    <2> QED BY <1>1, <2>1
<1> DEFINE k == SubSeq(n, 1, i + 1)
<1>5. k \in Path(n) /\ k \in Node
    BY <1>4, PathInNode DEF Path
<1>6. Len(k) = i + 1 /\ SubSeq(k, 1, i) = m
    BY <1>1, <1>2, <1>4, PrefixElements, PrefixOfPrefix
<1> HIDE DEF k
<1>7. k # Root
    <2>1. Len(Root) = 0
        BY DEF Root
    <2> QED BY <1>4, <1>6, <2>1
<1>8. Parent(k) = m
    <2>1. Len(k) - 1 = i
        BY <1>4, <1>6
    <2> QED BY <1>6, <2>1 DEF Parent
<1> QED BY <1>5, <1>7, <1>8, ParentFacts

-----------------------------------------------------------------------------
(* The order of the walk.                                                  *)

\* Before, element by element: m and n agree up to where m ends or turns left
\* of n.
LEMMA BeforeElements ==
    ASSUME NEW m \in Node, NEW n \in Node
    PROVE  Before(m, n) <=>
             \E k \in Nat :
                /\ k <= Len(m) /\ k < Len(n)
                /\ \A i \in 1 .. k : m[i] = n[i]
                /\ k < Len(m) => m[k + 1] < n[k + 1]
<1>1. m \in Seq({0, 1}) /\ Len(m) \in Nat /\ n \in Seq({0, 1}) /\ Len(n) \in Nat
    BY NodeIsPosition
<1>2. ASSUME NEW k \in Nat, k <= Len(m), k < Len(n)
      PROVE  SubSeq(m, 1, k) = SubSeq(n, 1, k) <=> \A i \in 1 .. k : m[i] = n[i]
    <2>1. k \in 0 .. Len(m) /\ k \in 0 .. Len(n)
        BY <1>1, <1>2
    <2> DEFINE a == SubSeq(m, 1, k)
               b == SubSeq(n, 1, k)
    <2>2. a \in Seq({0, 1}) /\ Len(a) = k /\ \A i \in 1 .. k : a[i] = m[i]
        BY <1>1, <2>1, PrefixElements
    <2>3. b \in Seq({0, 1}) /\ Len(b) = k /\ \A i \in 1 .. k : b[i] = n[i]
        BY <1>1, <2>1, PrefixElements
    <2> HIDE DEF a, b
    <2>4. (\A i \in 1 .. k : m[i] = n[i]) => \A i \in 1 .. Len(a) : a[i] = b[i]
        BY <2>2, <2>3
    <2>5. (\A i \in 1 .. k : m[i] = n[i]) => a = b
        BY <2>2, <2>3, <2>4, SeqEqual
    <2>6. a = b => \A i \in 1 .. k : m[i] = n[i]
        BY <2>2, <2>3
    <2> QED BY <2>5, <2>6 DEF a, b
<1>3. m \in Path(n) \ {n} <=> /\ Len(m) < Len(n)
                              /\ \A i \in 1 .. Len(m) : m[i] = n[i]
    <2>1. SubSeq(m, 1, Len(m)) = m
        BY <1>1, WholePrefix
    <2>2. ASSUME m \in Path(n), m # n
          PROVE  Len(m) < Len(n) /\ SubSeq(n, 1, Len(m)) = m
        <3>1. PICK k \in 0 .. Len(n) : m = SubSeq(n, 1, k)
            BY <2>2 DEF Path
        <3>2. Len(m) = k
            BY <1>1, <3>1, PrefixElements
        <3> QED BY <2>2, <3>1, <3>2, PathTransitive
    <2>3. ASSUME Len(m) < Len(n), SubSeq(n, 1, Len(m)) = m
          PROVE  m \in Path(n) /\ m # n
        <3>1. Len(m) \in 0 .. Len(n)
            BY <1>1, <2>3
        <3>2. m # n
            BY <1>1, <2>3
        <3>3. m \in Path(n)
            BY <2>3, <3>1, Zenon DEF Path
        <3> QED BY <3>2, <3>3
    <2>4. Len(m) < Len(n) =>
             (SubSeq(n, 1, Len(m)) = m <=> \A i \in 1 .. Len(m) : m[i] = n[i])
        BY <1>1, <1>2, <2>1
    <2> QED BY <2>2, <2>3, <2>4
<1>4. ASSUME Before(m, n)
      PROVE  \E k \in Nat :
                /\ k <= Len(m) /\ k < Len(n)
                /\ \A i \in 1 .. k : m[i] = n[i]
                /\ k < Len(m) => m[k + 1] < n[k + 1]
    <2>1. CASE m \in Path(n) \ {n}
        BY <2>1, <1>1, <1>3
    <2>2. CASE ~(m \in Path(n) \ {n})
        <3>1. PICK k \in 0 .. Len(m) - 1 : /\ k < Len(n)
                                           /\ SubSeq(m, 1, k) = SubSeq(n, 1, k)
                                           /\ m[k + 1] < n[k + 1]
            BY <1>4, <2>2 DEF Before
        <3>2. k \in Nat /\ k <= Len(m)
            BY <1>1, <3>1
        <3> QED BY <1>2, <3>1, <3>2
    <2> QED BY <2>1, <2>2
<1>5. ASSUME NEW k \in Nat, k <= Len(m), k < Len(n),
             \A i \in 1 .. k : m[i] = n[i],
             k < Len(m) => m[k + 1] < n[k + 1]
      PROVE  Before(m, n)
    <2>1. CASE k = Len(m)
        BY <2>1, <1>3, <1>5 DEF Before
    <2>2. CASE k # Len(m)
        <3>1. k \in 0 .. Len(m) - 1 /\ k < Len(m)
            BY <1>1, <1>5, <2>2
        <3>2. SubSeq(m, 1, k) = SubSeq(n, 1, k)
            BY <1>2, <1>5
        <3> QED BY <1>5, <3>1, <3>2 DEF Before
    <2> QED BY <2>1, <2>2
<1> QED BY <1>4, <1>5

\* The walk's order is a strict order, so a first node exists among any.
LEMMA BeforeIrreflexive ==
    ASSUME NEW n \in Node
    PROVE  ~Before(n, n)
<1> SUFFICES ASSUME Before(n, n) PROVE FALSE
    OBVIOUS
<1>1. PICK k \in Nat : k < Len(n) /\ n[k + 1] < n[k + 1]
    BY BeforeElements
<1>2. n[k + 1] \in {0, 1}
    <2>1. n \in Seq({0, 1}) /\ Len(n) \in Nat
        BY NodeIsPosition
    <2>2. k + 1 \in 1 .. Len(n)
        BY <1>1, <2>1
    <2> QED BY <2>1, <2>2, ElementOfSeq
<1> QED BY <1>1, <1>2

LEMMA BeforeTransitive ==
    ASSUME NEW m \in Node, NEW n \in Node, NEW o \in Node,
           Before(m, n), Before(n, o)
    PROVE  Before(m, o)
<1>1. Len(m) \in Nat /\ Len(n) \in Nat /\ Len(o) \in Nat
    BY NodeIsPosition
<1>2. \A s \in {m, n, o} : \A i \in 1 .. Len(s) : s[i] \in {0, 1}
    BY NodeIsPosition, ElementOfSeq
<1>3. PICK a \in Nat : /\ a <= Len(m) /\ a < Len(n)
                       /\ \A i \in 1 .. a : m[i] = n[i]
                       /\ a < Len(m) => m[a + 1] < n[a + 1]
    BY BeforeElements
<1>4. PICK b \in Nat : /\ b <= Len(n) /\ b < Len(o)
                       /\ \A i \in 1 .. b : n[i] = o[i]
                       /\ b < Len(n) => n[b + 1] < o[b + 1]
    BY BeforeElements
<1>5. CASE a < b
    <2>1. \A i \in 1 .. a : m[i] = o[i]
        BY <1>3, <1>4, <1>5
    <2>2. n[a + 1] = o[a + 1]
        <3>1. a + 1 \in 1 .. b
            BY <1>5
        <3> QED BY <1>4, <3>1
    <2>3. a <= Len(m) /\ a < Len(o) /\ (a < Len(m) => m[a + 1] < o[a + 1])
        BY <1>1, <1>3, <1>4, <1>5, <2>2
    <2> QED BY <2>1, <2>3, BeforeElements
<1>6. CASE a = b
    <2>1. \A i \in 1 .. a : m[i] = o[i]
        BY <1>3, <1>4, <1>6
    <2>2. n[a + 1] < o[a + 1]
        BY <1>3, <1>4, <1>6
    <2>3. a < Len(m) => m[a + 1] < o[a + 1]
        <3> SUFFICES ASSUME a < Len(m) PROVE m[a + 1] < o[a + 1]
            OBVIOUS
        <3>1. a + 1 \in 1 .. Len(m) /\ a + 1 \in 1 .. Len(n) /\ a + 1 \in 1 .. Len(o)
            BY <1>1, <1>3, <1>4, <1>6
        <3>2. m[a + 1] \in {0, 1} /\ n[a + 1] \in {0, 1} /\ o[a + 1] \in {0, 1}
            BY <1>2, <3>1
        <3> QED BY <1>3, <2>2, <3>2
    <2> QED BY <1>3, <1>4, <1>6, <2>1, <2>3, BeforeElements
<1>7. CASE a > b
    <2>1. \A i \in 1 .. b : m[i] = o[i]
        BY <1>3, <1>4, <1>7
    <2>2. m[b + 1] = n[b + 1]
        <3>1. b + 1 \in 1 .. a
            BY <1>7
        <3> QED BY <1>3, <3>1
    <2>3. n[b + 1] < o[b + 1]
        BY <1>1, <1>3, <1>4, <1>7
    <2>4. b <= Len(m)
        BY <1>1, <1>3, <1>7
    <2> QED BY <1>4, <2>1, <2>2, <2>3, <2>4, BeforeElements
<1> QED BY <1>5, <1>6, <1>7

\* Whatever comes before a node above n comes before n.
LEMMA BeforeAbove ==
    ASSUME NEW m \in Node, NEW n \in Node, NEW p \in Path(n), Before(m, p)
    PROVE  Before(m, n)
<1>1. CASE p = n
    BY <1>1
<1>2. CASE p # n
    <2>1. p \in Node
        BY PathInNode
    <2>2. Before(p, n)
        BY <1>2 DEF Before
    <2> QED BY <2>1, <2>2, BeforeTransitive
<1> QED BY <1>1, <1>2

\* When the walk comes to a node it has come to those above it.
LEMMA VisitedAbove ==
    ASSUME NEW n \in Node, Visited(n), NEW p \in Path(n)
    PROVE  Visited(p) /\ p \in Node
<1>1. p \in Node
    BY PathInNode
<1>2. Reached(p)
    <2>1. Path(p) \subseteq Path(n)
        BY PathTransitive
    <2> QED BY <2>1 DEF Visited, Reached
<1>3. ASSUME NEW m \in Node, Before(m, p), Reached(m)
      PROVE  NodeCanLaunch(m) = "skip"
    BY <1>3, BeforeAbove DEF Visited
<1> QED BY <1>1, <1>2, <1>3 DEF Visited

-----------------------------------------------------------------------------
(* The inductive invariant: what memory says of the nodes.                 *)

\* The root is made when scheduler() is entered and done when it returns; a
\* node's children are made by a walk that found the node open.
TreeKnown ==
    /\ status[Root] # "unmade"
    /\ status[Root] = "done" => pc = "done"
    /\ \A n \in Node : status[n] = "unmade" =>
            \A k \in Kids(n) : status[k] = "unmade"

\* A node marked as processing has a task; above a task every node is open.
TasksPlaced ==
    /\ \A n \in Node : status[n] = "processing" =>
            \E i \in Active : tasks[i] = n
    /\ \A i \in Active : \A m \in Path(tasks[i]) \ {tasks[i]} :
            status[m] = "open"

\* Memory agrees with the cache as far as the walk relies on it: a done node is
\* stored while its parent waits to be joined, and an open one is not stored.
CacheKnown ==
    /\ \A n \in Node \ {Root} :
            status[n] = "done" /\ status[Parent(n)] = "open" => n \in stored
    /\ pc # "done" => \A n \in Node : status[n] = "open" => n \notin stored

\* A worker that has committed left its result.
CommittedStored ==
    \A i \in Slots :
        phase[i] \in {"committed", "deleting", "exited"} => tasks[i] \in stored

\* The operand sizes of a join that was launched are cached.
SizesKept == \A i \in Active : NodeIsLeaf(tasks[i]) \/ tasks[i] \in ops

\* A worker whose join or piece is not committed computes what is not stored.
NotYetStored ==
    \A i \in Slots : phase[i] \in {"run", "closed"} => tasks[i] \notin stored

CInv == /\ TreeKnown
        /\ TasksPlaced
        /\ CacheKnown
        /\ CommittedStored
        /\ SizesKept
        /\ JoinInputsStored
        /\ NotYetStored
        /\ QuietAtEnd
        /\ WaitHasWorker

\* What a walk makes of the nodes agrees with the cache it read, and with what
\* was known of the nodes made before.
LEMMA WalkedKnown ==
    ASSUME TypeOK, TreeKnown, CacheKnown, pc = "launch"
    PROVE  /\ \A n \in Node :
                /\ Walked[n] \in {status[n], Grown(n)}
                /\ status[n] # "unmade" => Walked[n] = status[n]
                /\ Walked[n] = "unmade" =>
                        \A k \in Kids(n) : Walked[k] = "unmade"
                /\ Walked[n] = "open" => n \notin stored
                /\ Walked[n] = "processing" => status[n] = "processing"
           /\ \A n \in Node \ {Root} :
                Walked[n] = "done" /\ Walked[Parent(n)] = "open" => n \in stored
           /\ \A n \in Node : Visited(n) => \A m \in Path(n) : Walked[m] = "open"
<1>1. ASSUME NEW n \in Node
      PROVE  /\ Walked[n] \in {status[n], Grown(n)}
             /\ status[n] # "unmade" => Walked[n] = status[n]
             /\ Walked[n] = "open" => n \notin stored
             /\ Walked[n] = "processing" => status[n] = "processing"
             /\ n # Root /\ Visited(Parent(n)) => Walked[n] = Grown(n)
    <2>1. Walked[n] = IF n # Root /\ Visited(Parent(n)) THEN Grown(n) ELSE status[n]
        BY DEF Walked
    <2>2. Grown(n) = IF status[n] = "unmade"
                     THEN IF n \in stored THEN "done" ELSE "open" ELSE status[n]
        BY DEF Grown
    <2>3. status[n] = "open" => n \notin stored
        BY DEF CacheKnown
    <2> QED BY <2>1, <2>2, <2>3
<1>2. ASSUME NEW n \in Node, Visited(n), NEW m \in Path(n)
      PROVE  Walked[m] = "open"
    <2>1. m \in Node /\ Grown(m) = "open"
        BY <1>2, VisitedAbove DEF Visited, Reached
    <2>2. CASE m = Root
        BY <2>1, <2>2, <1>1 DEF TreeKnown, Grown
    <2>3. CASE m # Root
        <3>1. Parent(m) \in Path(n)
            BY <2>1, <2>3, ParentFacts, PathTransitive
        <3>2. Visited(Parent(m))
            BY <1>2, <3>1, VisitedAbove
        <3> QED BY <3>2, <2>1, <2>3, <1>1
    <2> QED BY <2>2, <2>3
<1>3. ASSUME NEW n \in Node, Walked[n] = "unmade", NEW k \in Kids(n)
      PROVE  Walked[k] = "unmade"
    <2>1. k \in Node /\ Parent(k) = n
        BY KidFacts
    <2>2. ~Visited(n)
        <3>1. n \in Path(n)
            BY PathEnds
        <3> QED BY <3>1, <1>2, <1>3
    <2>3. Walked[k] = status[k]
        BY <2>1, <2>2 DEF Walked
    <2>4. status[n] = "unmade"
        BY <1>1, <1>3
    <2>5. status[k] = "unmade"
        BY <2>4 DEF TreeKnown
    <2> QED BY <2>3, <2>5
<1>4. ASSUME NEW n \in Node \ {Root}, Walked[n] = "done", Walked[Parent(n)] = "open"
      PROVE  n \in stored
    <2>1. Parent(n) \in Node /\ n \in Kids(Parent(n))
        BY ParentFacts
    <2>2. CASE status[n] = "unmade"
        <3>1. Grown(n) = "done"
            BY <1>1, <1>4, <2>2
        <3> QED BY <2>2, <3>1 DEF Grown
    <2>3. CASE status[n] # "unmade"
        <3>1. status[n] = "done"
            BY <1>1, <1>4, <2>3
        <3>2. status[Parent(n)] # "unmade"
            BY <2>1, <2>3 DEF TreeKnown
        <3>3. status[Parent(n)] = "open"
            BY <1>1, <1>4, <2>1, <3>2
        <3> QED BY <3>1, <3>3 DEF CacheKnown
    <2> QED BY <2>2, <2>3
<1> QED BY <1>1, <1>2, <1>3, <1>4

\* A node the walk finds ready has its inputs in the cache and not its result.
LEMMA ReadyKnown ==
    ASSUME TypeOK, TreeKnown, CacheKnown, pc = "launch",
           NEW n \in Node, Reached(n), Ready(n)
    PROVE  Kids(n) \subseteq stored /\ n \notin stored
<1>1. Grown(n) = "open"
    <2>1. n \in Path(n)
        BY PathEnds
    <2> QED BY <2>1 DEF Reached
<1>2. n \notin stored
    BY <1>1 DEF Grown, CacheKnown
<1>3. ASSUME NEW k \in Kids(n)
      PROVE  k \in stored
    <2>1. k \in Node \ {Root} /\ Parent(k) = n
        BY KidFacts
    <2>2. Grown(k) = "done"
        BY DEF Ready
    <2>3. CASE status[k] = "unmade"
        BY <2>2, <2>3 DEF Grown
    <2>4. CASE status[k] # "unmade"
        <3>1. status[k] = "done"
            BY <2>2, <2>4 DEF Grown
        <3>2. status[n] # "unmade"
            BY <2>4 DEF TreeKnown
        <3>3. status[n] = "open"
            BY <1>1, <3>2 DEF Grown
        <3> QED BY <2>1, <3>1, <3>3 DEF CacheKnown
    <2> QED BY <2>3, <2>4
<1> QED BY <1>2, <1>3

\* A worker's slot is an active task's.
LEMMA WorkerFacts ==
    ASSUME IInv, CInv, NEW i \in Slots, phase[i] # "none"
    PROVE  /\ i \in Active /\ tasks[i] \in Node
           /\ status[tasks[i]] = "processing"
           /\ pc # "done"
<1>1. i \in Active
    BY DEF IInv, TasksKnown
<1>2. tasks[i] \in Node /\ status[tasks[i]] = "processing"
    BY <1>1 DEF IInv, TypeOK, TasksSeparate, Active
<1> QED BY <1>1, <1>2 DEF CInv, QuietAtEnd

\* A ready node is not above a task, nor a task's own.
LEMMA ReadyNotAbove ==
    ASSUME IInv, CInv, NEW n \in Node, Reached(n), Ready(n), NEW j \in Active
    PROVE  n \notin Path(tasks[j])
<1> DEFINE t == tasks[j]
<1>1. t \in Node /\ status[t] = "processing"
    BY DEF IInv, TypeOK, TasksSeparate, Active
<1>2. \A m \in Path(t) \ {t} : status[m] = "open"
    BY DEF CInv, TasksPlaced
<1> HIDE DEF t
<1>3. SUFFICES ASSUME n \in Path(t) PROVE FALSE
    BY DEF t
<1>4. n # t
    <2>1. n \in Path(n)
        BY PathEnds
    <2>2. Grown(n) = "open"
        BY <2>1 DEF Reached
    <2> QED BY <2>2, <1>1 DEF Grown
<1>5. PICK k \in Kids(n) : k \in Path(t)
    BY <1>1, <1>3, <1>4, KidOnPath
<1>6. status[k] \in {"open", "processing"}
    BY <1>1, <1>2, <1>5
<1>7. Grown(k) = "done"
    BY <1>5 DEF Ready
<1> QED BY <1>6, <1>7 DEF Grown

\* The node the walk takes: what TakenFacts says, and what is known of it.
LEMMA TakenKnown ==
    ASSUME IInv, CInv, pc = "launch", NEW n \in Taken
    PROVE  /\ n \in Node /\ n \in Priced /\ Visited(n)
           /\ Kids(n) \subseteq stored /\ n \notin stored
           /\ Walked[n] = "open"
           /\ \A j \in Active : n \notin Path(tasks[j])
<1>1. n \in Node /\ Visited(n) /\ Reached(n) /\ NodeCanLaunch(n) = "take"
    BY DEF Taken, Visited
<1>2. GatesOpen /\ Ready(n)
    BY <1>1 DEF NodeCanLaunch
<1>3. TypeOK /\ TreeKnown /\ CacheKnown
    BY DEF IInv, CInv
<1>4. n \in Path(n)
    BY <1>1, PathEnds
<1>5. Walked[n] = "open"
    BY <1>1, <1>3, <1>4, WalkedKnown
<1>6. Kids(n) \subseteq stored /\ n \notin stored
    BY <1>1, <1>2, <1>3, ReadyKnown
<1>7. \A j \in Active : n \notin Path(tasks[j])
    BY <1>1, <1>2, ReadyNotAbove
<1> QED BY <1>1, <1>2, <1>5, <1>6, <1>7 DEF Priced

\* task_start of the node the walk took.
LEMMA LaunchKeeps ==
    ASSUME IInv, CInv, Launch
    PROVE  CInv'
<1>1. pc = "launch" /\ HasSlot /\ NodeOpSizes(Priced)
      /\ UNCHANGED <<pc, di, stored, failures>>
    BY DEF Launch
<1>2. PICK n \in Taken : TaskStart(n, FreeIndex)
    BY DEF Launch
<1>3. PICK i : i = FreeIndex
    OBVIOUS
<1>4. i \in Slots /\ i \notin Active /\ tasks[i] = NoNode
    BY <1>1, <1>3, FreeIndexType DEF Active
<1>5. /\ status' = [Walked EXCEPT ![n] = "processing"]
      /\ tasks' = [tasks EXCEPT ![i] = n]
      /\ phase' = [phase EXCEPT ![i] = "run"]
    BY <1>2, <1>3 DEF TaskStart
<1>6. /\ n \in Node /\ n \in Priced /\ Visited(n)
      /\ Kids(n) \subseteq stored /\ n \notin stored
      /\ Walked[n] = "open"
      /\ \A j \in Active : n \notin Path(tasks[j])
    BY <1>1, <1>2, TakenKnown
<1>7. /\ TypeOK /\ TasksSeparate /\ TreeKnown /\ TasksPlaced /\ CacheKnown
      /\ CommittedStored /\ SizesKept /\ JoinInputsStored /\ NotYetStored
    BY DEF IInv, CInv
<1>8. Walked \in [Node -> {"unmade", "open", "processing", "done"}]
    BY <1>7, WalkedType
<1>9. \A m \in Node : status'[m] = IF m = n THEN "processing" ELSE Walked[m]
    BY <1>5, <1>6, <1>8
<1>10. /\ Active' = Active \cup {i} /\ tasks'[i] = n
       /\ \A j \in Active : j # i /\ tasks'[j] = tasks[j] /\ tasks[j] \in Node
    BY <1>4, <1>5, <1>6, <1>7, NodeAssumption DEF Active, TypeOK
<1>11. \A j \in Slots : /\ phase'[j] = IF j = i THEN "run" ELSE phase[j]
                        /\ tasks'[j] = IF j = i THEN n ELSE tasks[j]
    BY <1>4, <1>5, <1>7 DEF TypeOK
<1>12. /\ \A m \in Node :
            /\ status[m] # "unmade" => Walked[m] = status[m]
            /\ Walked[m] = "unmade" => \A k \in Kids(m) : Walked[k] = "unmade"
            /\ Walked[m] = "open" => m \notin stored
            /\ Walked[m] = "processing" => status[m] = "processing"
       /\ \A m \in Node \ {Root} :
            Walked[m] = "done" /\ Walked[Parent(m)] = "open" => m \in stored
       /\ \A m \in Path(n) : Walked[m] = "open"
    BY <1>1, <1>6, <1>7, WalkedKnown
<1>13. TreeKnown'
    <2>1. status'[Root] # "unmade" /\ status'[Root] # "done"
        BY <1>1, <1>7, <1>9, <1>12, NodeAssumption DEF TreeKnown
    <2>2. ASSUME NEW m \in Node, status'[m] = "unmade", NEW k \in Kids(m)
          PROVE  status'[k] = "unmade"
        <3>1. k \in Node
            BY KidFacts
        <3>2. Walked[k] = "unmade"
            BY <2>2, <1>9, <1>12
        <3> QED BY <3>1, <3>2, <1>6, <1>9
    <2> QED BY <2>1, <2>2 DEF TreeKnown, Kids
<1>14. TasksPlaced'
    <2>1. ASSUME NEW m \in Node, status'[m] = "processing"
          PROVE  \E j \in Active' : tasks'[j] = m
        <3>1. CASE m = n
            BY <3>1, <1>10
        <3>2. CASE m # n
            <4>1. status[m] = "processing"
                BY <3>2, <2>1, <1>9, <1>12
            <4>2. PICK j \in Active : tasks[j] = m
                BY <4>1, <1>7 DEF TasksPlaced
            <4> QED BY <4>2, <1>10
        <3> QED BY <3>1, <3>2
    <2>2. ASSUME NEW j \in Active', NEW m \in Path(tasks'[j]) \ {tasks'[j]}
          PROVE  status'[m] = "open"
        <3>1. CASE j = i
            <4>1. m \in Path(n) \ {n} /\ m \in Node
                BY <2>2, <3>1, <1>6, <1>10, PathInNode
            <4> QED BY <4>1, <1>9, <1>12
        <3>2. CASE j # i
            <4>1. j \in Active /\ m \in Path(tasks[j]) \ {tasks[j]} /\ m \in Node
                BY <2>2, <3>2, <1>10, PathInNode
            <4>2. status[m] = "open" /\ m # n
                BY <4>1, <1>6, <1>7 DEF TasksPlaced
            <4> QED BY <4>1, <4>2, <1>9, <1>12
        <3> QED BY <3>1, <3>2
    <2> QED BY <2>1, <2>2 DEF TasksPlaced, Path
<1>15. CacheKnown'
    <2>1. ASSUME NEW m \in Node \ {Root}, status'[m] = "done",
                 status'[Parent(m)] = "open"
          PROVE  m \in stored'
        <3>1. Parent(m) \in Node
            BY ParentFacts
        <3> QED BY <2>1, <3>1, <1>1, <1>9, <1>12
    <2>2. ASSUME NEW m \in Node, status'[m] = "open" PROVE m \notin stored'
        BY <2>2, <1>1, <1>9, <1>12
    <2> QED BY <2>1, <2>2 DEF CacheKnown, Parent
<1>16. CommittedStored' /\ JoinInputsStored' /\ NotYetStored'
    <2>1. CommittedStored'
        BY <1>1, <1>7, <1>11 DEF CommittedStored
    <2>2. JoinInputsStored'
        BY <1>1, <1>6, <1>7, <1>11 DEF JoinInputsStored, Kids
    <2>3. NotYetStored'
        BY <1>1, <1>6, <1>7, <1>11 DEF NotYetStored
    <2> QED BY <2>1, <2>2, <2>3
<1>17. SizesKept'
    <2>1. ops \subseteq ops' /\ (NodeIsLeaf(n) \/ n \in ops')
        BY <1>1, <1>6 DEF NodeOpSizes
    <2> QED BY <2>1, <1>7, <1>10 DEF SizesKept, NodeIsLeaf, Kids
<1>18. QuietAtEnd' /\ WaitHasWorker'
    BY <1>1 DEF QuietAtEnd, WaitHasWorker
<1> QED BY <1>13, <1>14, <1>15, <1>16, <1>17, <1>18 DEF CInv

-----------------------------------------------------------------------------
(* With nothing running, nothing is booked, and the walk finds a node.     *)

LEMMA LedgerZero ==
    ASSUME NEW f \in [Slots -> Nat], NEW total \in Nat, Ledger(f, total),
           \A i \in Slots : f[i] = 0
    PROVE  total = 0
<1>0. NProcess \in Nat
    BY BudgetAssumption
<1>1. PICK g : RunningSum(g, f, total)
    BY DEF Ledger
<1> DEFINE Bad == {k \in 0 .. NProcess : g[k] # 0}
<1>2. Bad = {}
    <2> SUFFICES ASSUME Bad # {} PROVE FALSE
        OBVIOUS
    <2>1. PICK k \in Bad : \A j \in Bad : k <= j
        <3>1. Bad \subseteq Nat
            OBVIOUS
        <3> HIDE DEF Bad
        <3> QED BY <3>1, LeastExists
    <2>2. k # 0 /\ k \in 1 .. NProcess
        BY <1>0, <1>1, <2>1 DEF RunningSum
    <2>3. k - 1 \in Slots /\ k - 1 \in 0 .. NProcess /\ (k - 1) + 1 = k
        BY <1>0, <2>2 DEF Slots
    <2>4. g[k] = g[k - 1] + f[k - 1]
        BY <1>1, <2>3 DEF RunningSum
    <2>5. g[k - 1] = 0
        <3>1. k - 1 \notin Bad
            BY <2>1, <2>2
        <3> QED BY <2>3, <3>1
    <2> QED BY <2>1, <2>3, <2>4, <2>5
<1>3. NProcess \in 0 .. NProcess
    BY <1>0
<1> QED BY <1>1, <1>2, <1>3 DEF RunningSum

LEMMA NothingBooked ==
    ASSUME TypeOK, Ledgers, Active = {}
    PROVE  total_threads = 0 /\ total_mem_cost = 0
<1>1. \A i \in Slots : ThreadsOf[i] = 0 /\ MemoryOf[i] = 0
    BY DEF Active, ThreadsOf, MemoryOf
<1>2. total_threads = 0
    BY <1>1, BooksType, LedgerZero DEF Ledgers, TypeOK
<1>3. total_mem_cost = 0
    BY <1>1, BooksType, LedgerZero DEF Ledgers, TypeOK
<1> QED BY <1>2, <1>3

\* A node reached that no reached node lies below is ready: its children are
\* done, as nothing is running.
LEMMA DeepestReady ==
    ASSUME IInv, CInv, Active = {}, NEW n \in Node, Reached(n),
           \A k \in Kids(n) : ~Reached(k)
    PROVE  Ready(n)
<1>1. SUFFICES ASSUME NEW k \in Kids(n) PROVE Grown(k) = "done"
    BY DEF Ready
<1>2. k \in Node /\ Path(k) = Path(n) \cup {k}
    BY KidFacts
<1>3. Grown(k) # "open"
    BY <1>2 DEF Reached
<1>4. status[k] # "processing"
    BY <1>2 DEF CInv, TasksPlaced
<1>5. status[k] \in {"unmade", "open", "processing", "done"}
    BY <1>2 DEF IInv, TypeOK
<1> QED BY <1>3, <1>4, <1>5 DEF Grown

\* There is one: the longest of the positions reached.
LEMMA ReadyExists ==
    ASSUME IInv, CInv, Active = {}, pc = "launch"
    PROVE  \E n \in Node : Reached(n) /\ Ready(n)
<1> DEFINE S == {n \in Node : Reached(n)}
           R == {p \in Node \X Node : Len(p[2]) < Len(p[1])}
<1>1. Root \in S
    <2>1. Root \in Node /\ Path(Root) = {Root}
        BY NodeAssumption, PathEnds
    <2>2. status[Root] \in {"unmade", "open", "processing", "done"}
        BY <2>1 DEF IInv, TypeOK
    <2>3. status[Root] = "open"
        BY <2>1, <2>2 DEF CInv, TreeKnown, TasksPlaced
    <2> QED BY <2>1, <2>3 DEF Reached, Grown
<1>2. IsFiniteSet(S)
    <2>1. S \in SUBSET Node
        OBVIOUS
    <2> HIDE DEF S
    <2> QED BY <2>1, FS_Subset, NodeAssumption
<1>3. \A x \in S : <<x, x>> \notin R
    BY NodeIsPosition
<1>4. \A x, y, z \in S : <<x, y>> \in R /\ <<y, z>> \in R => <<x, z>> \in R
    BY NodeIsPosition
<1>5. PICK n \in S : \A m \in S : <<m, n>> \notin R
    <2> HIDE DEF S, R
    <2> QED BY <1>1, <1>2, <1>3, <1>4, FirstExists
<1>6. ASSUME NEW k \in Kids(n) PROVE ~Reached(k)
    <2>1. k \in Node /\ n \in Path(k) /\ n # k
        BY <1>5, KidFacts, PathEnds
    <2>2. Len(n) < Len(k)
        BY <2>1, PathTransitive
    <2> QED BY <1>5, <2>1, <2>2
<1> QED BY <1>5, <1>6, DeepestReady

\* The first ready node of the walk is taken, whatever it costs.
LEMMA SomethingTaken ==
    ASSUME IInv, CInv, Active = {}, pc = "launch"
    PROVE  Taken # {}
<1> DEFINE S == {n \in Node : Reached(n) /\ Ready(n)}
           R == {p \in Node \X Node : Before(p[1], p[2])}
<1>1. S # {}
    BY ReadyExists
<1>2. IsFiniteSet(S)
    <2>1. S \in SUBSET Node
        OBVIOUS
    <2> HIDE DEF S
    <2> QED BY <2>1, FS_Subset, NodeAssumption
<1>3. \A x \in S : <<x, x>> \notin R
    BY BeforeIrreflexive
<1>4. \A x, y, z \in S : <<x, y>> \in R /\ <<y, z>> \in R => <<x, z>> \in R
    BY BeforeTransitive
<1>5. PICK n \in S : \A m \in S : <<m, n>> \notin R
    <2> HIDE DEF S, R
    <2> QED BY <1>1, <1>2, <1>3, <1>4, FirstExists
<1>6. GatesOpen
    <2>1. total_threads = 0 /\ total_mem_cost = 0
        BY NothingBooked DEF IInv
    <2> QED BY <2>1, BudgetAssumption DEF GatesOpen, FreeThreads
<1>7. \A m \in Node : Before(m, n) /\ Reached(m) => NodeCanLaunch(m) = "skip"
    <2>1. \A m \in Node : Before(m, n) /\ Reached(m) => ~Ready(m)
        BY <1>5
    <2> QED BY <1>6, <2>1 DEF NodeCanLaunch
<1>8. NodeCanLaunch(n) = "take"
    BY <1>5, <1>6 DEF NodeCanLaunch
<1> QED BY <1>5, <1>7, <1>8 DEF Taken, Visited

-----------------------------------------------------------------------------
(* One lemma per kind of step.                                             *)

\* The pass that launches nothing leaves something running.
LEMMA EndLaunchKeeps ==
    ASSUME IInv, CInv, EndLaunch
    PROVE  CInv'
<1>1. /\ pc = "launch" /\ pc' = "donate"
      /\ UNCHANGED <<tasks, phase, stored>>
      /\ ops \subseteq ops'
      /\ status' = status \/ status' = Walked
    BY DEF EndLaunch, NodeOpSizes, workers
<1>2. Active' = Active
    BY <1>1 DEF Active
<1>3. Active # {}
    <2>1. CASE HasSlot
        BY <2>1, SomethingTaken DEF EndLaunch
    <2>2. CASE ~HasSlot
        <3> SUFFICES ASSUME Active = {} PROVE FALSE
            OBVIOUS
        <3>1. Cardinality(Active) = 0
            BY FS_EmptySet
        <3> QED BY <3>1, <2>2, BudgetAssumption DEF HasSlot
    <2> QED BY <2>1, <2>2
<1>4. /\ TypeOK /\ TreeKnown /\ TasksPlaced /\ CacheKnown /\ TasksSeparate
      /\ CommittedStored /\ SizesKept /\ JoinInputsStored /\ NotYetStored
    BY DEF IInv, CInv
<1>5. /\ \A m \in Node :
            /\ status[m] # "unmade" => status'[m] = status[m]
            /\ status'[m] = "unmade" => \A k \in Kids(m) : status'[k] = "unmade"
            /\ status'[m] = "open" => m \notin stored
            /\ status'[m] = "processing" => status[m] = "processing"
      /\ \A m \in Node \ {Root} :
            status'[m] = "done" /\ status'[Parent(m)] = "open" => m \in stored
    <2>1. CASE status' = status
        BY <2>1, <1>1, <1>4 DEF TreeKnown, CacheKnown
    <2>2. CASE status' = Walked
        BY <2>2, <1>1, <1>4, WalkedKnown
    <2> QED BY <1>1, <2>1, <2>2
<1>6. TreeKnown'
    BY <1>1, <1>4, <1>5, NodeAssumption DEF TreeKnown, Kids
<1>7. TasksPlaced'
    <2>1. ASSUME NEW j \in Active, NEW m \in Path(tasks[j]) \ {tasks[j]}
          PROVE  status'[m] = "open"
        <3>1. tasks[j] \in Node
            BY <1>4 DEF TypeOK, Active
        <3>2. m \in Node /\ status[m] = "open"
            BY <3>1, <1>4, PathInNode DEF TasksPlaced
        <3> QED BY <3>2, <1>5
    <2> QED BY <2>1, <1>1, <1>2, <1>4, <1>5 DEF TasksPlaced, Path
<1>8. CacheKnown'
    BY <1>1, <1>5 DEF CacheKnown, Parent
<1>9. CommittedStored' /\ JoinInputsStored' /\ NotYetStored'
    BY <1>1, <1>4 DEF CommittedStored, JoinInputsStored, NotYetStored, Kids
<1>10. SizesKept'
    BY <1>1, <1>2, <1>4 DEF SizesKept, NodeIsLeaf, Kids
<1>11. QuietAtEnd' /\ WaitHasWorker'
    BY <1>1, <1>2, <1>3 DEF QuietAtEnd, WaitHasWorker
<1> QED BY <1>6, <1>7, <1>8, <1>9, <1>10, <1>11 DEF CInv

\* What the donation loop changes is in the books alone.
LEMMA DonationKeeps ==
    ASSUME IInv, CInv, DonateLoad \/ DonateAccepted \/ DonateRefused \/ DonateEnd
    PROVE  CInv'
<1>1. /\ pc \in {"donate", "offer"} /\ pc' \in {"donate", "offer", "wait"}
      /\ UNCHANGED <<status, tasks, phase, stored>>
      /\ ops \subseteq ops'
    BY DEF DonateLoad, DonateAccepted, DonateRefused, DonateEnd, NodeOpSizes, workers
<1>2. Active' = Active
    BY <1>1 DEF Active
<1>3. TreeKnown' /\ TasksPlaced'
    BY <1>1, <1>2 DEF CInv, TreeKnown, TasksPlaced, Kids, Path
<1>4. CacheKnown' /\ CommittedStored'
    BY <1>1 DEF CInv, CacheKnown, CommittedStored, Parent
<1>5. JoinInputsStored' /\ NotYetStored'
    BY <1>1 DEF CInv, JoinInputsStored, NotYetStored, Kids
<1>6. SizesKept'
    BY <1>1, <1>2 DEF CInv, SizesKept, NodeIsLeaf, Kids
<1>7. QuietAtEnd' /\ WaitHasWorker'
    BY <1>1, <1>2 DEF CInv, QuietAtEnd, WaitHasWorker
<1> QED BY <1>3, <1>4, <1>5, <1>6, <1>7 DEF CInv

\* A task that ends leaves its result to a parent that waits for it; the root's
\* leaves nothing running.
LEMMA TaskEndKeeps ==
    ASSUME IInv, CInv, NEW i \in Slots, TaskEnd(i)
    PROVE  CInv'
<1>1. PICK n : n = tasks[i]
    OBVIOUS
<1>2. /\ pc = "wait" /\ phase[i] = "exited"
      /\ tasks' = [tasks EXCEPT ![i] = NoNode]
      /\ status' = [status EXCEPT ![n] = "done"]
      /\ phase' = [phase EXCEPT ![i] = "none"]
      /\ pc' = IF n = Root THEN "done" ELSE "launch"
      /\ UNCHANGED <<ops, stored>>
    BY <1>1 DEF TaskEnd
<1>3. /\ TypeOK /\ TreeKnown /\ TasksPlaced /\ CacheKnown /\ TasksSeparate
      /\ CommittedStored /\ SizesKept /\ JoinInputsStored /\ NotYetStored
    BY DEF IInv, CInv
<1>4. i \in Active /\ n \in Node /\ status[n] = "processing"
    BY <1>1, <1>2, WorkerFacts
<1>5. \A m \in Node : status'[m] = IF m = n THEN "done" ELSE status[m]
    BY <1>2, <1>3, <1>4 DEF TypeOK
<1>6. \A j \in Slots : /\ phase'[j] = IF j = i THEN "none" ELSE phase[j]
                       /\ tasks'[j] = IF j = i THEN NoNode ELSE tasks[j]
    BY <1>2, <1>3 DEF TypeOK
<1>7. Active' = Active \ {i} /\ Active \subseteq Slots
    BY <1>6 DEF Active
<1>8. n \in stored
    BY <1>1, <1>2, <1>3 DEF CommittedStored
<1>9. \A j \in Active \ {i} : tasks[j] # n /\ tasks[j] \in Node
    BY <1>1, <1>3, <1>4 DEF TasksSeparate, TypeOK, Active
<1>10. TreeKnown'
    <2>1. status'[Root] # "unmade"
        BY <1>3, <1>5, NodeAssumption DEF TreeKnown
    <2>2. status'[Root] = "done" => pc' = "done"
        BY <1>2, <1>3, <1>5, NodeAssumption DEF TreeKnown
    <2>3. ASSUME NEW m \in Node, status'[m] = "unmade", NEW k \in Kids(m)
          PROVE  status'[k] = "unmade"
        <3>1. k \in Node
            BY KidFacts
        <3>2. status[m] = "unmade" /\ status[k] = "unmade"
            BY <2>3, <1>3, <1>5 DEF TreeKnown
        <3> QED BY <3>1, <3>2, <1>4, <1>5
    <2> QED BY <2>1, <2>2, <2>3 DEF TreeKnown, Kids
<1>11. TasksPlaced'
    <2>1. ASSUME NEW m \in Node, status'[m] = "processing"
          PROVE  \E j \in Active' : tasks'[j] = m
        <3>1. m # n /\ status[m] = "processing"
            BY <2>1, <1>5
        <3>2. PICK j \in Active : tasks[j] = m
            BY <3>1, <1>3 DEF TasksPlaced
        <3> QED BY <3>1, <3>2, <1>1, <1>6, <1>7
    <2>2. ASSUME NEW j \in Active', NEW m \in Path(tasks'[j]) \ {tasks'[j]}
          PROVE  status'[m] = "open"
        <3>1. j \in Active \ {i} /\ tasks'[j] = tasks[j] /\ tasks[j] \in Node
            BY <1>6, <1>7, <1>9
        <3>2. m \in Path(tasks[j]) \ {tasks[j]} /\ m \in Node
            BY <2>2, <3>1, PathInNode
        <3>3. status[m] = "open"
            BY <3>1, <3>2, <1>3 DEF TasksPlaced
        <3> QED BY <3>2, <3>3, <1>4, <1>5
    <2> QED BY <2>1, <2>2 DEF TasksPlaced, Path
<1>12. CacheKnown'
    <2>1. ASSUME NEW m \in Node \ {Root}, status'[m] = "done",
                 status'[Parent(m)] = "open"
          PROVE  m \in stored'
        <3>1. Parent(m) \in Node
            BY ParentFacts
        <3>2. status[Parent(m)] = "open"
            BY <2>1, <3>1, <1>5
        <3> QED BY <2>1, <3>2, <1>2, <1>3, <1>5, <1>8 DEF CacheKnown
    <2>2. ASSUME NEW m \in Node, status'[m] = "open" PROVE m \notin stored'
        BY <2>2, <1>2, <1>3, <1>5 DEF CacheKnown
    <2> QED BY <2>1, <2>2 DEF CacheKnown, Parent
<1>13. CommittedStored' /\ JoinInputsStored' /\ NotYetStored'
    BY <1>2, <1>3, <1>6 DEF CommittedStored, JoinInputsStored, NotYetStored, Kids
<1>14. SizesKept'
    BY <1>2, <1>3, <1>6, <1>7 DEF SizesKept, NodeIsLeaf, Kids
<1>15. QuietAtEnd'
    <2>1. SUFFICES ASSUME n = Root
                   PROVE  /\ Root \in stored'
                          /\ Active' = {}
                          /\ total_threads' = 0 /\ total_mem_cost' = 0
        BY <1>2 DEF QuietAtEnd
    <2>2. ASSUME NEW j \in Active \ {i} PROVE FALSE
        <3>1. Root \in Path(tasks[j]) \ {tasks[j]}
            BY <2>1, <1>9, PathEnds
        <3>2. status[Root] = "open"
            BY <3>1, <1>3 DEF TasksPlaced
        <3> QED BY <3>2, <2>1, <1>4
    <2>3. Active' = {}
        BY <2>2, <1>7
    <2>4. IInv'
        BY TaskEndStep
    <2>5. total_threads' = 0 /\ total_mem_cost' = 0
        <3>1. TypeOK' /\ Ledgers'
            BY <2>4 DEF IInv
        <3>2. (\A k \in Slots : ThreadsOf[k] = 0 /\ MemoryOf[k] = 0)'
            BY <2>3 DEF Active, ThreadsOf, MemoryOf
        <3>3. ThreadsOf' \in [Slots -> Nat] /\ MemoryOf' \in [Slots -> Nat]
            <4>1. \A k \in Slots : ThreadsOf'[k] = 0 /\ MemoryOf'[k] = 0
                BY <3>2
            <4> QED BY <4>1 DEF ThreadsOf, MemoryOf
        <3>4. Ledger(ThreadsOf', total_threads') /\ total_threads' \in Nat
            BY <3>1 DEF Ledgers, TypeOK, Ledger, RunningSum
        <3>5. Ledger(MemoryOf', total_mem_cost') /\ total_mem_cost' \in Nat
            BY <3>1 DEF Ledgers, TypeOK, Ledger, RunningSum
        <3> QED BY <3>2, <3>3, <3>4, <3>5, LedgerZero
    <2> QED BY <2>1, <2>3, <2>5, <1>2, <1>8
<1>16. WaitHasWorker'
    BY <1>2 DEF WaitHasWorker
<1> QED BY <1>10, <1>11, <1>12, <1>13, <1>14, <1>15, <1>16 DEF CInv

\* A worker's commit adds what no node in memory takes for missing, and lets no
\* one wait for it: its node is processing.
LEMMA CommitKeeps ==
    ASSUME IInv, CInv, NEW i \in Slots, Commit(i)
    PROVE  CInv'
<1>1. PICK n : n = tasks[i]
    OBVIOUS
<1>2. /\ phase[i] # "none"
      /\ stored' = stored \cup {n}
      /\ phase' = [phase EXCEPT ![i] = "committed"]
      /\ UNCHANGED sched
    BY <1>1 DEF Commit
<1>3. /\ TypeOK /\ CacheKnown /\ TasksSeparate
      /\ CommittedStored /\ JoinInputsStored /\ NotYetStored
    BY DEF IInv, CInv
<1>4. i \in Active /\ n \in Node /\ status[n] = "processing" /\ pc # "done"
    BY <1>1, <1>2, WorkerFacts
<1>5. \A j \in Slots : phase'[j] = IF j = i THEN "committed" ELSE phase[j]
    BY <1>2, <1>3 DEF TypeOK
<1>6. ASSUME NEW j \in Slots, j # i, phase[j] # "none" PROVE tasks[j] # n
    <2>1. j \in Active
        BY <1>6, WorkerFacts
    <2> QED BY <2>1, <1>1, <1>3, <1>4, <1>6 DEF TasksSeparate
<1>7. UNCHANGED <<status, tasks, ops, pc, total_threads, total_mem_cost>>
    BY <1>2 DEF sched
<1>8. Active' = Active
    BY <1>7 DEF Active
<1>9. TreeKnown' /\ TasksPlaced' /\ SizesKept'
    BY <1>7, <1>8 DEF CInv, TreeKnown, TasksPlaced, SizesKept, Kids, Path, NodeIsLeaf
<1>10. CacheKnown'
    BY <1>2, <1>3, <1>4, <1>7 DEF CacheKnown, Parent
<1>11. CommittedStored' /\ JoinInputsStored' /\ NotYetStored'
    <2>1. CommittedStored'
        BY <1>1, <1>2, <1>3, <1>5, <1>7 DEF CommittedStored
    <2>2. JoinInputsStored'
        BY <1>2, <1>3, <1>5, <1>7 DEF JoinInputsStored, Kids
    <2>3. NotYetStored'
        BY <1>2, <1>3, <1>5, <1>6, <1>7 DEF NotYetStored
    <2> QED BY <2>1, <2>2, <2>3
<1>12. QuietAtEnd' /\ WaitHasWorker'
    BY <1>4, <1>7, <1>8 DEF CInv, QuietAtEnd, WaitHasWorker
<1> QED BY <1>9, <1>10, <1>11, <1>12 DEF CInv

\* What a join may delete is a child of its own node.
LEMMA DeletedFacts ==
    ASSUME NEW n \in Node, NEW index \in {0, 1}, NEW k \in Deleted(n, index) \cap Node
    PROVE  k \in Kids(n) /\ k \in Node \ {Root} /\ Parent(k) = n
<1>1. k \in Kids(n)
    BY DEF Deleted, Kids
<1> QED BY <1>1, KidFacts

\* A committed join deletes an input that nobody else reads, and that no node in
\* memory waits for.
LEMMA DeleteKeeps ==
    ASSUME IInv, CInv, NEW i \in Slots, NEW index \in {0, 1},
           phase[i] \in {"committed", "deleting"},
           stored' = stored \ Deleted(tasks[i], index) \/ stored' = stored,
           phase' = [phase EXCEPT ![i] = "deleting"]
             \/ phase' = [phase EXCEPT ![i] = "exited"],
           UNCHANGED sched
    PROVE  CInv'
<1>1. PICK n : n = tasks[i]
    OBVIOUS
<1>2. /\ TypeOK /\ CacheKnown /\ TasksSeparate /\ TasksPlaced
      /\ CommittedStored /\ JoinInputsStored /\ NotYetStored
    BY DEF IInv, CInv
<1>3. /\ i \in Active /\ n \in Node /\ status[n] = "processing" /\ pc # "done"
      /\ n \in stored
    BY <1>1, <1>2, WorkerFacts DEF CommittedStored
<1>4. \A j \in Slots : /\ j # i => phase'[j] = phase[j]
                       /\ j = i => phase'[j] \in {"deleting", "exited"}
    BY <1>2 DEF TypeOK
<1>5. /\ stored' \subseteq stored
      /\ \A k \in stored \ stored' : k \in Kids(n) /\ k \in Node \ {Root} /\ Parent(k) = n
    BY <1>1, <1>2, <1>3, DeletedFacts DEF TypeOK
<1>6. UNCHANGED <<status, tasks, ops, pc, total_threads, total_mem_cost>>
    BY DEF sched
<1>7. Active' = Active
    BY <1>6 DEF Active
<1>8. ASSUME NEW j \in Slots, phase[j] # "none" PROVE tasks[j] \notin stored \ stored'
    <2> SUFFICES ASSUME tasks[j] \in stored \ stored' PROVE FALSE
        OBVIOUS
    <2>1. j \in Active /\ tasks[j] \in Node
        BY <1>8, WorkerFacts
    <2>2. tasks[j] \in Kids(n)
        BY <1>5
    <2>3. n \in Path(tasks[j]) \ {tasks[j]}
        BY <1>3, <2>2, KidFacts, PathEnds
    <2>4. status[n] = "open"
        BY <2>1, <2>3, <1>2 DEF TasksPlaced
    <2> QED BY <2>4, <1>3
<1>9. TreeKnown' /\ TasksPlaced' /\ SizesKept'
    BY <1>6, <1>7 DEF CInv, TreeKnown, TasksPlaced, SizesKept, Kids, Path, NodeIsLeaf
<1>10. CacheKnown'
    <2>1. ASSUME NEW m \in Node \ {Root}, status[m] = "done",
                 status[Parent(m)] = "open"
          PROVE  m \in stored'
        <3>1. m \in stored
            BY <2>1, <1>2 DEF CacheKnown
        <3>2. Parent(m) # n
            BY <2>1, <1>3
        <3> QED BY <3>1, <3>2, <1>5
    <2>2. ASSUME NEW m \in Node, status[m] = "open" PROVE m \notin stored'
        BY <2>2, <1>2, <1>3, <1>5 DEF CacheKnown
    <2> QED BY <2>1, <2>2, <1>6 DEF CacheKnown, Parent
<1>11. CommittedStored'
    <2> SUFFICES ASSUME NEW j \in Slots,
                        phase'[j] \in {"committed", "deleting", "exited"}
                 PROVE  tasks[j] \in stored'
        BY <1>6 DEF CommittedStored
    <2>1. phase[j] \in {"committed", "deleting", "exited"}
        BY <1>4
    <2>2. tasks[j] \in stored
        BY <2>1, <1>2 DEF CommittedStored
    <2> QED BY <2>1, <2>2, <1>8
<1>12. JoinInputsStored'
    <2> SUFFICES ASSUME NEW j \in Slots, phase'[j] \in {"run", "closed"},
                        NEW k \in Kids(tasks[j])
                 PROVE  k \in stored'
        BY <1>6 DEF JoinInputsStored, Kids
    <2>1. j # i /\ phase[j] \in {"run", "closed"}
        BY <1>4
    <2>2. k \in stored
        BY <2>1, <1>2 DEF JoinInputsStored
    <2>3. j \in Active /\ tasks[j] \in Node
        BY <2>1, WorkerFacts
    <2>4. tasks[j] # n
        BY <2>1, <2>3, <1>1, <1>2, <1>3 DEF TasksSeparate
    <2>5. Parent(k) = tasks[j]
        BY <2>3, KidFacts
    <2> QED BY <2>2, <2>4, <2>5, <1>5
<1>13. NotYetStored'
    BY <1>2, <1>4, <1>5, <1>6 DEF NotYetStored
<1>14. QuietAtEnd' /\ WaitHasWorker'
    BY <1>3, <1>6, <1>7 DEF CInv, QuietAtEnd, WaitHasWorker
<1> QED BY <1>9, <1>10, <1>11, <1>12, <1>13, <1>14 DEF CInv

\* A step that leaves memory, tasks and cache alone, and takes no worker back to
\* before its commit or past it.
LEMMA PhaseKeeps ==
    ASSUME IInv, CInv, UNCHANGED <<status, ops, tasks, stored>>,
           UNCHANGED <<total_threads, total_mem_cost>>,
           pc' = pc \/ (pc # "done" /\ pc' = "down"),
           \A j \in Slots :
               /\ phase'[j] \in {"run", "closed"} => phase[j] \in {"run", "closed"}
               /\ phase'[j] \in {"committed", "deleting", "exited"}
                    => phase[j] \in {"committed", "deleting", "exited"}
    PROVE  CInv'
<1>1. Active' = Active
    BY DEF Active
<1>2. TreeKnown' /\ TasksPlaced' /\ SizesKept'
    <2>1. TreeKnown'
        BY DEF CInv, TreeKnown, Kids
    <2>2. TasksPlaced' /\ SizesKept'
        BY <1>1 DEF CInv, TasksPlaced, SizesKept, Kids, Path, NodeIsLeaf
    <2> QED BY <2>1, <2>2
<1>3. CacheKnown' /\ CommittedStored'
    BY DEF CInv, CacheKnown, CommittedStored, Parent
<1>4. JoinInputsStored' /\ NotYetStored'
    BY DEF CInv, JoinInputsStored, NotYetStored, Kids
<1>5. QuietAtEnd' /\ WaitHasWorker'
    BY <1>1 DEF CInv, QuietAtEnd, WaitHasWorker
<1> QED BY <1>2, <1>3, <1>4, <1>5 DEF CInv

LEMMA WorkerKeeps ==
    ASSUME IInv, CInv, NEW i \in Slots, WorkerStep(i) \/ WorkerDies(i)
    PROVE  CInv'
<1>1. CASE CloseSlot(i)
    BY <1>1, PhaseKeeps DEF CloseSlot, sched, IInv, TypeOK
<1>2. CASE Commit(i)
    BY <1>2, CommitKeeps
<1>3. CASE DeleteLeft(i)
    BY <1>3, DeleteKeeps DEF DeleteLeft
<1>4. CASE Exit(i)
    BY <1>4, DeleteKeeps DEF Exit
<1>5. CASE WorkerDies(i)
    BY <1>5, PhaseKeeps DEF WorkerDies, sched, IInv, TypeOK
<1> QED BY <1>1, <1>2, <1>3, <1>4, <1>5 DEF WorkerStep

LEMMA DownKeeps ==
    ASSUME IInv, CInv, (\E i \in Slots : TaskCheckExit(i)) \/ Crash
    PROVE  CInv'
<1>1. CASE \E i \in Slots : TaskCheckExit(i)
    BY <1>1, PhaseKeeps DEF TaskCheckExit, workers
<1>2. CASE Crash
    BY <1>2, PhaseKeeps DEF Crash, Live
<1> QED BY <1>1, <1>2

\* A run starts with a tree of its root alone and no worker.
LEMMA FreshKnown ==
    ASSUME stored \subseteq Node, status = FreshStatus,
           pc = IF Root \in stored THEN "done" ELSE "launch",
           tasks = [i \in Slots |-> NoNode], phase = [i \in Slots |-> "none"],
           total_threads = 0, total_mem_cost = 0
    PROVE  CInv
<1>1. Active = {}
    BY DEF Active
<1>2. \A n \in Node : status[n] = IF n = Root THEN "open" ELSE "unmade"
    BY DEF FreshStatus
<1>3. TreeKnown
    <2>1. \A n \in Node : \A k \in Kids(n) : k \in Node /\ k # Root
        BY KidFacts
    <2> QED BY <2>1, <1>2, NodeAssumption DEF TreeKnown
<1>4. TasksPlaced /\ CacheKnown /\ SizesKept
    BY <1>1, <1>2 DEF TasksPlaced, CacheKnown, SizesKept
<1>5. CommittedStored /\ JoinInputsStored /\ NotYetStored
    BY DEF CommittedStored, JoinInputsStored, NotYetStored
<1>6. QuietAtEnd /\ WaitHasWorker
    BY <1>1 DEF QuietAtEnd, WaitHasWorker
<1> QED BY <1>3, <1>4, <1>5, <1>6 DEF CInv

LEMMA InitKnown == Init => CInv
<1> SUFFICES ASSUME Init PROVE CInv
    OBVIOUS
<1>1. stored \subseteq Node
    BY CacheAssumption DEF Init
<1> QED BY <1>1, FreshKnown DEF Init

LEMMA RestartKeeps ==
    ASSUME IInv, CInv, Restart
    PROVE  CInv'
<1>1. /\ status' = FreshStatus
      /\ pc' = IF Root \in stored THEN "done" ELSE "launch"
      /\ tasks' = [i \in Slots |-> NoNode] /\ phase' = [i \in Slots |-> "none"]
      /\ total_threads' = 0 /\ total_mem_cost' = 0
      /\ stored' = stored
    BY DEF Restart
<1>2. Active' = {}
    BY <1>1 DEF Active
<1>3. \A n \in Node : status'[n] = IF n = Root THEN "open" ELSE "unmade"
    BY <1>1 DEF FreshStatus
<1>4. TreeKnown'
    <2>1. \A n \in Node : \A k \in Kids(n) : k \in Node /\ k # Root
        BY KidFacts
    <2> QED BY <2>1, <1>3, NodeAssumption DEF TreeKnown, Kids
<1>5. TasksPlaced' /\ CacheKnown' /\ SizesKept'
    BY <1>1, <1>2, <1>3 DEF TasksPlaced, CacheKnown, SizesKept, Path, Parent
<1>6. CommittedStored' /\ JoinInputsStored' /\ NotYetStored'
    BY <1>1 DEF CommittedStored, JoinInputsStored, NotYetStored
<1>7. QuietAtEnd' /\ WaitHasWorker'
    BY <1>1, <1>2 DEF QuietAtEnd, WaitHasWorker
<1> QED BY <1>4, <1>5, <1>6, <1>7 DEF CInv

LEMMA NextKnown == IInv /\ CInv /\ [Next]_vars => CInv'
<1> SUFFICES ASSUME IInv, CInv, [Next]_vars PROVE CInv'
    OBVIOUS
<1>1. CASE Launch
    BY <1>1, LaunchKeeps
<1>2. CASE EndLaunch
    BY <1>2, EndLaunchKeeps
<1>3. CASE DonateLoad \/ DonateAccepted \/ DonateRefused \/ DonateEnd
    BY <1>3, DonationKeeps
<1>4. ASSUME NEW i \in Slots, TaskEnd(i) PROVE CInv'
    BY <1>4, TaskEndKeeps
<1>5. ASSUME NEW i \in Slots, WorkerStep(i) \/ WorkerDies(i) PROVE CInv'
    BY <1>5, WorkerKeeps
<1>6. CASE (\E i \in Slots : TaskCheckExit(i)) \/ Crash
    BY <1>6, DownKeeps
<1>7. CASE Restart
    BY <1>7, RestartKeeps
<1>8. CASE UNCHANGED vars
    BY <1>8, PhaseKeeps DEF vars, sched, workers
<1> QED BY <1>1, <1>2, <1>3, <1>4, <1>5, <1>6, <1>7, <1>8
        DEF Next, SchedulerStep, Done

-----------------------------------------------------------------------------
(* The theorems.                                                           *)

THEOREM MemoryKnowsCache == Spec => [](IInv /\ CInv)
BY InitInvariant, NextInvariant, InitKnown, NextKnown, PTL DEF Spec

\* A join that has not committed still has both its inputs in the cache, in any
\* run and whatever an earlier one left behind (lib/big/code.c:176, 275).
THEOREM InputsStayStored == Spec => []JoinInputsStored
<1>1. CInv => JoinInputsStored
    BY DEF CInv
<1> QED BY <1>1, MemoryKnowsCache, PTL

\* No worker computes a result that is already in the cache, nor one below such a
\* result, in the first run or over what a crash left
\* (lib/tree/code.c:112-126, 221-239).
THEOREM NoneRecomputed == Spec => []NothingRecomputed
<1>1. ASSUME IInv, CInv
      PROVE  NothingRecomputed
    <2> SUFFICES ASSUME NEW i \in Slots, phase[i] \in {"run", "closed"},
                        NEW m \in Path(tasks[i])
                 PROVE  m \notin stored
        BY DEF NothingRecomputed
    <2>1. i \in Active /\ tasks[i] \in Node /\ pc # "done"
        BY <1>1, WorkerFacts
    <2>2. CASE m = tasks[i]
        BY <1>1, <2>2 DEF CInv, NotYetStored
    <2>3. CASE m # tasks[i]
        <3>1. m \in Node
            BY <2>1, PathInNode
        <3>2. status[m] = "open"
            BY <1>1, <2>1, <2>3 DEF CInv, TasksPlaced
        <3> QED BY <1>1, <2>1, <3>1, <3>2 DEF CInv, CacheKnown
    <2> QED BY <2>2, <2>3
<1> QED BY <1>1, MemoryKnowsCache, PTL

\* When the root's task ends nothing else is running and nothing is booked.
THEOREM EndsQuiet == Spec => []QuietAtEnd
<1>1. CInv => QuietAtEnd
    BY DEF CInv
<1> QED BY <1>1, MemoryKnowsCache, PTL

\* waitpid always has a worker to wait for, however tight the budgets are: the
\* first ready node of the walk is taken when nothing runs.
THEOREM WaitpidHasWorker == Spec => []WaitHasWorker
<1>1. CInv => WaitHasWorker
    BY DEF CInv
<1> QED BY <1>1, MemoryKnowsCache, PTL

\* Wherever a node is priced its operand sizes are cached or can be read
\* (lib/tree/code.c:405-408, 986).
THEOREM SizesAlwaysReadable == Spec => []OpSizesReadable
<1>1. ASSUME IInv, CInv PROVE OpSizesReadable
    <2>1. ASSUME pc = "offer"
          PROVE  tasks[di] \in ops \/ Kids(tasks[di]) \subseteq stored
        <3>1. di \in Active
            BY <2>1, <1>1 DEF IInv, TasksKnown
        <3>2. NodeIsLeaf(tasks[di]) \/ tasks[di] \in ops
            BY <3>1, <1>1 DEF CInv, SizesKept
        <3> QED BY <3>2 DEF NodeIsLeaf
    <2>2. ASSUME pc = "launch", NEW n \in Priced \ ops
          PROVE  Kids(n) \subseteq stored
        <3>1. n \in Node /\ Reached(n) /\ Ready(n)
            BY <2>2 DEF Priced, Visited
        <3> QED BY <3>1, <2>2, <1>1, ReadyKnown DEF IInv, CInv
    <2> QED BY <2>1, <2>2 DEF OpSizesReadable
<1> QED BY <1>1, MemoryKnowsCache, PTL

\* With every slot taken, the running sum has gained a thread at each of them.
LEMMA FullUsesAll ==
    ASSUME IInv, ~HasSlot
    PROVE  FreeThreads = 0
<1>0. NProcess \in Nat
    BY BudgetAssumption
<1>1. Active = Slots
    <2>1. IsFiniteSet(Slots) /\ Cardinality(Slots) = NProcess
        BY <1>0, BudgetAssumption, FS_Interval DEF Slots
    <2>2. Active \in SUBSET Slots
        BY DEF Active
    <2>3. Cardinality(Active) <= NProcess /\ Cardinality(Active) \in Nat
        BY <2>1, <2>2, FS_Subset, FS_CardinalityType
    <2>4. Cardinality(Active) = NProcess
        BY <1>0, <2>3 DEF HasSlot
    <2> QED BY <2>1, <2>2, <2>4, FS_Subset
<1>2. \A i \in Slots : ThreadsOf[i] >= 1 /\ ThreadsOf[i] \in Nat
    <2>1. \A i \in Slots : ThreadsOf[i] = plan[tasks[i]].threads
        BY <1>1 DEF Active, ThreadsOf
    <2> QED BY <2>1, <1>1, BooksType DEF IInv, PlansPositive
<1>3. PICK g : RunningSum(g, ThreadsOf, total_threads)
    BY DEF IInv, Ledgers, Ledger
<1> DEFINE Short == {k \in 0 .. NProcess : g[k] < k}
<1>4. Short = {}
    <2> SUFFICES ASSUME Short # {} PROVE FALSE
        OBVIOUS
    <2>1. PICK k \in Short : \A j \in Short : k <= j
        <3>1. Short \subseteq Nat
            OBVIOUS
        <3> HIDE DEF Short
        <3> QED BY <3>1, LeastExists
    <2>2. k \in 1 .. NProcess
        BY <1>0, <1>3, <2>1 DEF RunningSum
    <2>3. k - 1 \in Slots /\ k - 1 \in 0 .. NProcess /\ (k - 1) + 1 = k
        BY <1>0, <2>2 DEF Slots
    <2>4. g[k] = g[k - 1] + ThreadsOf[k - 1] /\ g[k - 1] \in Nat
        BY <1>3, <2>3 DEF RunningSum
    <2>5. g[k - 1] >= k - 1
        <3>1. k - 1 \notin Short
            BY <2>1, <2>2
        <3> QED BY <2>3, <2>4, <3>1
    <2>6. g[k] >= k
        BY <1>2, <2>2, <2>3, <2>4, <2>5
    <2> QED BY <2>1, <2>2, <2>4, <2>6, <1>2, <2>3
<1>5. total_threads >= NProcess
    <2>1. NProcess \in 0 .. NProcess
        BY <1>0
    <2>2. ~(g[NProcess] < NProcess) /\ g[NProcess] = total_threads
        BY <2>1, <1>3, <1>4 DEF RunningSum
    <2> QED BY <2>2, <1>0 DEF IInv, TypeOK
<1> QED BY <1>5 DEF FreeThreads

\* With no free slot there are no idle threads to lend (lib/tree/code.c:966).
THEOREM FullMeansNoneIdle == Spec => []NoIdleWhenFull
<1>1. IInv => NoIdleWhenFull
    BY FullUsesAll DEF NoIdleWhenFull
<1> QED BY <1>1, Invariance, PTL

-----------------------------------------------------------------------------
(* The abstract cache.  A commit is a Store, a deletion a Drop, and every  *)
(* other step leaves the cache alone.                                      *)

LEMMA CacheStep == IInv /\ CInv /\ [Next]_vars => [Cache!Next]_stored
<1> SUFFICES ASSUME IInv, CInv, [Next]_vars, stored' # stored
             PROVE  Cache!Next
    OBVIOUS
<1> USE DEF Cache!Next, Cache!Store, Cache!Drop, Cache!Kids, Cache!Parent,
            Cache!Root
<1>1. ASSUME NEW i \in Slots, Commit(i) PROVE Cache!Next
    <2>1. phase[i] \in {"run", "closed"} /\ stored' = stored \cup {tasks[i]}
        BY <1>1 DEF Commit
    <2>2. tasks[i] \in Node /\ Kids(tasks[i]) \subseteq stored /\ tasks[i] \notin stored
        BY <2>1, WorkerFacts DEF CInv, JoinInputsStored, NotYetStored
    <2> QED BY <2>1, <2>2 DEF Kids
<1>2. ASSUME NEW i \in Slots, NEW index \in {0, 1},
             phase[i] \in {"committed", "deleting"},
             stored' = stored \ Deleted(tasks[i], index)
      PROVE  Cache!Next
    <2>1. PICK n : n = tasks[i]
        OBVIOUS
    <2>2. n \in Node /\ n \in stored
        BY <1>2, <2>1, WorkerFacts DEF CInv, CommittedStored
    <2>3. stored \subseteq Node
        BY DEF IInv, TypeOK
    <2>4. PICK k \in Deleted(n, index) : k \in stored /\ stored' = stored \ {k}
        <3>1. \A k \in Deleted(n, index) : k = Append(n, index)
            BY DEF Deleted
        <3>2. Deleted(n, index) \cap stored # {}
            BY <1>2, <2>1
        <3> QED BY <3>1, <3>2, <1>2, <2>1
    <2>5. k \in Node \ {Root} /\ Parent(k) = n
        BY <2>2, <2>3, <2>4, DeletedFacts
    <2> QED BY <2>2, <2>4, <2>5 DEF Parent, Root
<1>3. \/ \E i \in Slots : Commit(i) \/ DeleteLeft(i) \/ Exit(i)
      \/ stored' = stored
    BY DEF Next, SchedulerStep, WorkerStep, Launch, EndLaunch, DonateLoad,
           DonateAccepted, DonateRefused, DonateEnd, TaskEnd, TaskCheckExit,
           CloseSlot, WorkerDies, Crash, Restart, Done, vars
<1>4. ASSUME NEW i \in Slots, DeleteLeft(i) PROVE Cache!Next
    BY <1>2, <1>4 DEF DeleteLeft
<1>5. ASSUME NEW i \in Slots, Exit(i) PROVE Cache!Next
    BY <1>2, <1>5 DEF Exit
<1> QED BY <1>1, <1>3, <1>4, <1>5

\* What the scheduler and its workers do to the cache, through deaths and new
\* starts, is what the abstract cache of results allows: a result appears only
\* over its inputs, and goes only once its parent's replaces it.
THEOREM CacheImplemented == Spec => Cache!Safety
<1>1. Init => Cache!Init
    BY DEF Init, Cache!Init
<1> QED BY <1>1, CacheStep, MemoryKnowsCache, PTL DEF Spec, Cache!Safety

=============================================================================
