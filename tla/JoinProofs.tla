----------------------------- MODULE JoinProofs -----------------------------
(***************************************************************************)
(* Proofs about the cache files and the workers that write them: a file    *)
(* that reads as complete is whole, through deaths and resumed joins; no   *)
(* load finds its operand gone; the disk lock is kept as it must be; what  *)
(* is committed stays; and the files come and go as ResultCache allows.    *)
(* The invariant says, of every worker, what its files hold at each of its *)
(* steps, and why no other worker touches them meanwhile.                  *)
(***************************************************************************)
EXTENDS Join, CommonLemmas

-----------------------------------------------------------------------------
(* The inductive invariant.                                                *)

Steps == {"idle", "open", "load", "mul", "write", "create", "drop", "close",
          "delete left", "delete right"}

Values == {"none", "P", "Q", "R", "part", "rest"}

WorkerRecord == [node: Node \cup {NoNode}, form: Forms, at: Steps, term: 0 .. 6,
                 x: Values, y: Values, lock_held: BOOLEAN]

\* The first k numbers of the series.
First(k) == SubSeq(Numbers, 1, k)

\* How many numbers a join has committed when it comes to a term, and what the
\* term makes.
Committed(term) == IF term < 3 THEN term - 1 ELSE IF term < 6 THEN 2 ELSE 3

Result == <<"P", "Q", "part", "rest", "R">>

Deleting(s) == s.at \in {"delete left", "delete right"}

\* A leaf's worker is at its only write; a join's has these numbers in memory
\* before a term, in its own file f those it committed, and its checkpoint p.
LeafWorker(s) == s.at \in {"create", "write"} /\ s.term = 0

JoinMemory(s) ==
    /\ s.at \in {"load", "mul", "write", "create"} => s.term \in 1 .. 5
    /\ s.at \in {"drop", "close", "delete left", "delete right"} => s.term = 6
    /\ s.at = "load" /\ s.term = 5 => s.x = "rest"
    /\ s.at = "mul" => s.x = Left[s.term] /\ s.y = Right[s.term]
    /\ s.at = "create" => s.term = 3
    /\ s.at = "write" => s.term # 4
    /\ s.at \in {"write", "create"} => s.x = Result[s.term]

JoinFiles(s, f, p) ==
    s.at # "open" =>
        /\ f # NoFile
        /\ f.body = First(Committed(s.term))
        /\ f.magic <=> Deleting(s)
        /\ s.form = "sig" => s.node \in Span
        /\ s.term = 3 => ~IsWhole(p)
        /\ s.term \in {4, 5} => IsWhole(p)
        /\ s.at = "close" => p = NoFile

WorkerOK(s, f, p) ==
    IF IsLeaf(s.node) THEN LeafWorker(s) ELSE JoinMemory(s) /\ JoinFiles(s, f, p)

WorkersTyped ==
    /\ w \in [Worker -> WorkerRecord]
    /\ \A j \in Worker \ Busy : w[j] = Idle
    /\ \A j \in Busy : w[j].node \in Node

WorkersOK ==
    \A j \in Busy : WorkerOK(w[j], file[w[j].node][w[j].form],
                                   part[w[j].node][w[j].form])

\* lock_held is what flock would say, and who may hold the lock at which step.
LockOK(s, held) ==
    /\ s.lock_held <=> held
    /\ s.at \in {"idle", "open", "mul", "drop", "close", "delete left",
                 "delete right"} => ~s.lock_held
    /\ s.at = "write" /\ s.term \in {0, 3} => s.lock_held

LocksAgree == \A j \in Worker : LockOK(w[j], lock = j)

FilesTyped ==
    /\ file \in [Node -> [Forms -> File \cup {NoFile}]]
    /\ part \in [Node -> [Forms -> Part \cup {NoFile}]]

RestTyped ==
    lock \in Worker \cup {NoWorker} /\ down \in BOOLEAN /\ failures \in 0 .. MaxFailures

\* Only a span has an exact file, and a leaf no checkpoint.
FilesPlaced ==
    /\ \A n \in Node \ Span : file[n]["sig"] = NoFile
    /\ \A n \in Node, f \in Forms : IsLeaf(n) => part[n][f] = NoFile

\* No two workers on one node, and none on the input of another's.
Apart ==
    /\ \A i, j \in Busy : i # j => w[i].node # w[j].node
    /\ \A i, j \in Busy : w[i].node \notin Kids(w[j].node)

\* Nothing above a node being worked on is in the cache.
NothingAbove == \A j \in Busy : \A m \in Above(w[j].node) : ~IsStored(m)

\* Until a join is committed its inputs are there and its result is not.
InputsThere ==
    \A j \in Busy : ~Deleting(w[j]) =>
        /\ ~IsStored(w[j].node)
        /\ \A k \in Kids(w[j].node) : IsStored(k)

\* What the files are, what the workers are at, and what is in the cache.
FilesInv   == FilesTyped /\ FilesPlaced /\ CompleteIsWhole /\ OneForm
WorkersInv == WorkersTyped /\ WorkersOK
LocksInv   == RestTyped /\ LocksAgree
CacheInv   == Apart /\ NothingAbove /\ InputsThere

JInv == FilesInv /\ WorkersInv /\ LocksInv /\ CacheInv

-----------------------------------------------------------------------------
(* The numbers and the terms.                                              *)

LEMMA NumbersSeq == Numbers \in Seq({"P", "Q", "R"}) /\ Len(Numbers) = 3
BY DEF Numbers

\* The prefixes of P, Q, R, and the number that makes each longer.
LEMMA FirstFacts ==
    /\ First(0) = << >> /\ First(3) = Numbers
    /\ \A k \in 0 .. 3 : Len(First(k)) = k
    /\ \A k \in 0 .. 2 : Append(First(k), Numbers[k + 1]) = First(k + 1)
<1>1. First(0) = << >> /\ First(3) = Numbers
    BY NumbersSeq, WholePrefix, Zenon DEF First
<1>2. ASSUME NEW k \in 0 .. 3
      PROVE  First(k) \in Seq({"P", "Q", "R"}) /\ Len(First(k)) = k
             /\ \A i \in 1 .. k : First(k)[i] = Numbers[i]
    <2>1. k \in 0 .. Len(Numbers)
        BY NumbersSeq
    <2> QED BY <2>1, NumbersSeq, PrefixElements DEF First
<1>3. ASSUME NEW k \in 0 .. 2
      PROVE  Append(First(k), Numbers[k + 1]) = First(k + 1)
    <2>1. k \in 0 .. 3 /\ k + 1 \in 0 .. 3 /\ k + 1 \in 1 .. k + 1
        OBVIOUS
    <2>2. Numbers[k + 1] \in {"P", "Q", "R"}
        <3>1. k + 1 \in 1 .. Len(Numbers)
            BY NumbersSeq
        <3> QED BY <3>1, NumbersSeq, ElementOfSeq
    <2> DEFINE a == Append(First(k), Numbers[k + 1])
               b == First(k + 1)
    <2>3. /\ a \in Seq({"P", "Q", "R"}) /\ Len(a) = k + 1
          /\ \A i \in 1 .. k : a[i] = Numbers[i]
          /\ a[k + 1] = Numbers[k + 1]
        <3> DEFINE p == First(k)
        <3>1. p \in Seq({"P", "Q", "R"}) /\ Len(p) = k
              /\ \A i \in 1 .. k : p[i] = Numbers[i]
            BY <1>2, <2>1
        <3> HIDE DEF p
        <3>2. /\ Append(p, Numbers[k + 1]) \in Seq({"P", "Q", "R"})
              /\ Len(Append(p, Numbers[k + 1])) = Len(p) + 1
              /\ \A i \in 1 .. Len(p) : Append(p, Numbers[k + 1])[i] = p[i]
              /\ Append(p, Numbers[k + 1])[Len(p) + 1] = Numbers[k + 1]
            BY <3>1, <2>2, AppendElements
        <3> QED BY <3>1, <3>2 DEF p
    <2>4. /\ b \in Seq({"P", "Q", "R"}) /\ Len(b) = k + 1
          /\ \A i \in 1 .. k + 1 : b[i] = Numbers[i]
        BY <1>2, <2>1
    <2> HIDE DEF a, b
    <2>5. \A i \in 1 .. Len(a) : i \in 1 .. k \/ i = k + 1
        BY <2>3
    <2>6. \A i \in 1 .. Len(a) : a[i] = b[i]
        BY <2>3, <2>4, <2>5
    <2>7. a = b
        BY <2>3, <2>4, <2>6, SeqEqual
    <2> QED BY <2>7 DEF a, b
<1> QED BY <1>1, <1>2, <1>3

\* A file of numbers holds as many as the prefix says it does.
LEMMA FileFacts ==
    /\ Empty \in File /\ [body |-> Numbers, magic |-> TRUE] \in File
    /\ \A f \in File : /\ f # NoFile
                       /\ f.magic \in BOOLEAN
                       /\ Len(f.body) \in 0 .. 3
                       /\ f.body = First(Len(f.body))
    /\ \A k \in 0 .. 3, m \in BOOLEAN : [body |-> First(k), magic |-> m] \in File
<1>1. \A k \in 0 .. 3, m \in BOOLEAN : [body |-> First(k), magic |-> m] \in File
    BY DEF File, First
<1>2. ASSUME NEW f \in File
      PROVE  /\ f # NoFile /\ f.magic \in BOOLEAN /\ Len(f.body) \in 0 .. 3
             /\ f.body = First(Len(f.body))
    <2>1. f # NoFile
        BY FileAssumption
    <2>2. PICK k \in 0 .. 3 : f.body = First(k)
        BY DEF File, First
    <2>3. f.magic \in BOOLEAN
        BY DEF File
    <2> QED BY <2>1, <2>2, <2>3, FirstFacts
<1>3. Empty = [body |-> First(0), magic |-> FALSE]
    BY FirstFacts DEF Empty
<1>4. Empty \in File /\ [body |-> Numbers, magic |-> TRUE] \in File
    <2>1. 0 \in 0 .. 3 /\ 3 \in 0 .. 3
        OBVIOUS
    <2> QED BY <1>1, <1>3, <2>1, FirstFacts
<1> QED BY <1>1, <1>2, <1>4

\* A checkpoint that can be read is P1xR2.
LEMMA PartFacts ==
    /\ Empty \in Part /\ [body |-> <<"part">>, magic |-> TRUE] \in Part
    /\ \A p \in Part : p # NoFile
    /\ ~IsWhole(NoFile) /\ ~IsWhole(Empty)
    /\ \A p \in Part \cup {NoFile} : IsWhole(p) => p.body[1] = "part"
    /\ IsWhole([body |-> <<"part">>, magic |-> TRUE])
    /\ IsWhole([body |-> Numbers, magic |-> TRUE])
<1> DEFINE whole == [body |-> <<"part">>, magic |-> TRUE]
<1>1. Part = {Empty, whole}
    BY DEF Part
<1>2. NoFile \notin Part
    BY FileAssumption
<1>3. whole.magic = TRUE /\ whole.body = <<"part">> /\ Empty.magic = FALSE
    BY DEF Empty
<1>4. <<"part">>[1] = "part"
    OBVIOUS
<1>5. [body |-> Numbers, magic |-> TRUE] # NoFile
    BY FileFacts
<1>6. IsWhole([body |-> Numbers, magic |-> TRUE])
    BY <1>5 DEF IsWhole
<1> HIDE DEF whole
<1>7. /\ ~IsWhole(NoFile) /\ ~IsWhole(Empty) /\ IsWhole(whole)
      /\ \A p \in Part \cup {NoFile} : IsWhole(p) => p.body[1] = "part"
    BY <1>1, <1>2, <1>3, <1>4 DEF IsWhole
<1> QED BY <1>1, <1>2, <1>6, <1>7 DEF whole

\* Where each number is in its file.
LEMMA IndexFacts ==
    ASSUME NEW x \in {"P", "Q", "R"}
    PROVE  Index(x) \in 1 .. 3 /\ Numbers[Index(x)] = x
<1>1. \E k \in 1 .. 3 : Numbers[k] = x
    BY DEF Numbers
<1> QED BY <1>1 DEF Index

\* Every term makes what it is there for.
LEMMA TermFacts ==
    /\ \A t \in 1 .. 4 : Left[t] \in {"P", "Q", "R"} /\ Right[t] \in {"P", "Q", "R"}
    /\ Left[5] = "part" /\ Right[5] = "rest"
    /\ \A t \in 1 .. 5 : Combine(Left[t], Right[t]) = Result[t]
    /\ \A t \in 1 .. 5 : Result[t] \in Values
    /\ Result[1] = Numbers[1] /\ Result[2] = Numbers[2] /\ Result[5] = Numbers[3]
    /\ Result[3] = "part" /\ Result[4] = "rest"
<1>1. /\ Left[1] = "P" /\ Left[2] = "Q" /\ Left[3] = "P" /\ Left[4] = "R"
      /\ Left[5] = "part"
      /\ Right[1] = "P" /\ Right[2] = "Q" /\ Right[3] = "R" /\ Right[4] = "Q"
      /\ Right[5] = "rest"
    BY DEF Left, Right
<1>2. /\ Result[1] = "P" /\ Result[2] = "Q" /\ Result[3] = "part"
      /\ Result[4] = "rest" /\ Result[5] = "R"
    BY DEF Result
<1>3. Numbers[1] = "P" /\ Numbers[2] = "Q" /\ Numbers[3] = "R"
    BY DEF Numbers
<1>4. /\ Combine("P", "P") = "P" /\ Combine("Q", "Q") = "Q"
      /\ Combine("P", "R") = "part" /\ Combine("R", "Q") = "rest"
      /\ Combine("part", "rest") = "R"
    BY DEF Combine
<1>5. \A t \in 1 .. 5 : t = 1 \/ t = 2 \/ t = 3 \/ t = 4 \/ t = 5
    OBVIOUS
<1>6. \A t \in 1 .. 4 : t = 1 \/ t = 2 \/ t = 3 \/ t = 4
    OBVIOUS
<1>7. \A t \in 1 .. 5 : Combine(Left[t], Right[t]) = Result[t]
    BY <1>1, <1>2, <1>4, <1>5
<1>8. \A t \in 1 .. 5 : Result[t] \in Values
    BY <1>2, <1>5 DEF Values
<1>9. \A t \in 1 .. 4 : Left[t] \in {"P", "Q", "R"} /\ Right[t] \in {"P", "Q", "R"}
    BY <1>1, <1>6
<1> QED BY <1>1, <1>2, <1>3, <1>7, <1>8, <1>9

\* A join that has committed count numbers goes on at the first term it still
\* owes, whatever part of the loop it looks at.
LEMMA NextTermFacts ==
    ASSUME NEW term \in 1 .. 6, NEW count \in 0 .. 3, NEW whole \in BOOLEAN,
           term <= count + 1 \/ count = 3
    PROVE  NextTerm(term, count, whole) =
               IF count = 3 THEN 6 ELSE IF count < 2 THEN count + 1
               ELSE IF whole THEN 4 ELSE 3
<1>1. CASE count = 3
    BY <1>1 DEF NextTerm
<1>2. CASE count # 3
    <2> DEFINE Pending(t) == CASE t \in 1 .. 2 -> count < t
                               [] t = 3 -> ~whole
                               [] t = 4 -> TRUE
               P(k) == Pending(k) /\ \A t \in term .. k - 1 : ~Pending(t)
               T == IF count < 2 THEN count + 1 ELSE IF whole THEN 4 ELSE 3
    <2>1. /\ Pending(1) <=> count < 1
          /\ Pending(2) <=> count < 2
          /\ Pending(3) <=> ~whole
          /\ Pending(4)
        OBVIOUS
    <2>2. T \in term .. 4
        BY <1>2
    <2>3. \A t \in term .. 4 : t = 1 \/ t = 2 \/ t = 3 \/ t = 4
        OBVIOUS
    <2> HIDE DEF Pending
    <2>4. P(T)
        BY <1>2, <2>1, <2>2, <2>3
    <2>5. \A k \in term .. 4 : P(k) => k = T
        BY <1>2, <2>1, <2>2, <2>3
    <2> HIDE DEF P, T
    <2>6. (CHOOSE k \in term .. 4 : P(k)) = T
        BY <2>2, <2>4, <2>5
    <2>7. NextTerm(term, count, whole) = CHOOSE k \in term .. 4 : P(k)
        BY <1>2 DEF NextTerm, P, Pending
    <2> QED BY <1>2, <2>6, <2>7 DEF T
<1> QED BY <1>1, <1>2

\* r is self at the first term that f and p do not hold.
Goes(r, self, f, p) ==
    /\ r \in WorkerRecord
    /\ r.node = self.node /\ r.form = self.form
    /\ r.x = self.x /\ r.lock_held = self.lock_held
    /\ \/ r.at = "load" /\ r.term \in 1 .. 4
       \/ r.at = "drop" /\ r.term = 6
    /\ f.body = First(Committed(r.term))
    /\ r.term = 3 => ~IsWhole(p)
    /\ r.term = 4 => IsWhole(p)

\* Where a worker is after looking for its next term.
LEMMA GoToFacts ==
    ASSUME NEW self \in WorkerRecord, NEW term \in 1 .. 6, NEW f \in File,
           NEW p \in Part \cup {NoFile},
           term <= Len(f.body) + 1 \/ Len(f.body) = 3
    PROVE  Goes(GoTo(self, term, f, p), self, f, p)
<1> DEFINE c == Len(f.body)
           next == NextTerm(term, c, IsWhole(p))
<1>1. c \in 0 .. 3 /\ f.body = First(c)
    BY FileFacts
<1>2. IsWhole(p) \in BOOLEAN
    BY DEF IsWhole, Part, Empty
<1>3. term <= c + 1 \/ c = 3
    OBVIOUS
<1> HIDE DEF c
<1>4. next = IF c = 3 THEN 6 ELSE IF c < 2 THEN c + 1 ELSE IF IsWhole(p) THEN 4 ELSE 3
    BY <1>1, <1>2, <1>3, NextTermFacts
<1>5. GoTo(self, term, f, p) =
          [self EXCEPT !.term = next, !.at = IF next = 6 THEN "drop" ELSE "load"]
    BY DEF GoTo, c
<1> HIDE DEF next
<1>6. next \in {1, 2, 3, 4, 6} /\ Committed(next) = c
    BY <1>1, <1>4 DEF Committed
<1>7. /\ next = 3 => ~IsWhole(p)
      /\ next = 4 => IsWhole(p)
    BY <1>1, <1>4
<1> DEFINE r == GoTo(self, term, f, p)
<1>8. /\ r \in WorkerRecord
      /\ r.node = self.node /\ r.form = self.form
      /\ r.x = self.x /\ r.lock_held = self.lock_held
      /\ r.term = next /\ r.at = IF next = 6 THEN "drop" ELSE "load"
    <2> DEFINE at == IF next = 6 THEN "drop" ELSE "load"
    <2>1. r = [self EXCEPT !.term = next, !.at = at]
        BY <1>5
    <2>2. at \in Steps /\ next \in 0 .. 6
        BY <1>6 DEF Steps
    <2> HIDE DEF r, at
    <2>3. /\ r \in WorkerRecord
          /\ r.node = self.node /\ r.form = self.form
          /\ r.x = self.x /\ r.lock_held = self.lock_held
          /\ r.term = next /\ r.at = at
        BY <2>1, <2>2 DEF WorkerRecord
    <2> QED BY <2>3 DEF at
<1> HIDE DEF r
<1>9. f.body = First(Committed(r.term))
    BY <1>1, <1>6, <1>8
<1>10. \/ r.at = "load" /\ r.term \in 1 .. 4
       \/ r.at = "drop" /\ r.term = 6
    BY <1>6, <1>8
<1> QED BY <1>7, <1>8, <1>9, <1>10 DEF r, Goes

-----------------------------------------------------------------------------
(* The tree.                                                               *)

LEMMA NodeIsPosition ==
    ASSUME NEW n \in Node
    PROVE  n \in Seq({0, 1}) /\ Len(n) \in Nat
BY NodeAssumption

LEMMA AboveFacts ==
    ASSUME NEW n \in Node
    PROVE  Above(n) \subseteq Node /\ n \notin Above(n)
<1>1. n \in Seq({0, 1}) /\ Len(n) \in Nat
    BY NodeIsPosition
<1>2. ASSUME NEW k \in 0 .. Len(n) - 1 PROVE SubSeq(n, 1, k) # n
    <2>1. k \in 0 .. Len(n)
        BY <1>1
    <2>2. Len(SubSeq(n, 1, k)) = k
        BY <1>1, <2>1, PrefixElements
    <2> QED BY <1>1, <2>2
<1>3. n \notin Above(n)
    BY <1>2 DEF Above
<1> QED BY <1>3, NodeAssumption

LEMMA KidFacts ==
    ASSUME NEW n \in Node, NEW k \in Kids(n)
    PROVE  /\ k \in Node /\ k # n /\ k # Root
           /\ Above(k) = Above(n) \cup {n}
           /\ SubSeq(k, 1, Len(k) - 1) = n
<1>1. n \in Seq({0, 1}) /\ Len(n) \in Nat
    BY NodeIsPosition
<1>2. PICK e \in {0, 1} : k = Append(n, e)
    BY DEF Kids
<1>3. k \in Seq({0, 1}) /\ Len(k) = Len(n) + 1
    BY <1>1, <1>2, AppendElements
<1>4. \A i \in 0 .. Len(n) : SubSeq(k, 1, i) = SubSeq(n, 1, i)
    BY <1>1, <1>2, PrefixOfAppend
<1>5. SubSeq(k, 1, Len(n)) = n
    <2>1. Len(n) \in 0 .. Len(n)
        BY <1>1
    <2> QED BY <1>1, <1>4, <2>1, WholePrefix
<1>6. SubSeq(k, 1, Len(k) - 1) = n
    <2>1. Len(k) - 1 = Len(n)
        BY <1>1, <1>3
    <2> QED BY <1>5, <2>1
<1>7. k # Root /\ k # n
    <2>1. Len(Root) = 0
        BY DEF Root
    <2> QED BY <1>1, <1>3, <2>1
<1>8. Above(k) = Above(n) \cup {n}
    <2>1. 0 .. Len(k) - 1 = (0 .. Len(n) - 1) \cup {Len(n)}
        BY <1>1, <1>3
    <2>2. \A i \in 0 .. Len(n) - 1 : i \in 0 .. Len(n)
        BY <1>1
    <2> QED BY <2>1, <2>2, <1>4, <1>5 DEF Above
<1> QED BY <1>6, <1>7, <1>8 DEF Kids

\* A node has one parent.
LEMMA KidsApart ==
    ASSUME NEW m \in Node, NEW n \in Node, m # n
    PROVE  Kids(m) \cap Kids(n) = {}
<1> SUFFICES ASSUME NEW k \in Kids(m), k \in Kids(n) PROVE FALSE
    OBVIOUS
<1> QED BY KidFacts

\* Below a node that is above n, one child is above n or is n.
LEMMA KidTowards ==
    ASSUME NEW n \in Node, NEW m \in Above(n)
    PROVE  \E k \in Kids(m) : k = n \/ k \in Above(n)
<1>1. n \in Seq({0, 1}) /\ Len(n) \in Nat
    BY NodeIsPosition
<1>2. PICK i \in 0 .. Len(n) - 1 : m = SubSeq(n, 1, i)
    BY DEF Above
<1>3. i \in 0 .. Len(n) /\ i + 1 \in 0 .. Len(n) /\ i \in 0 .. i + 1 /\ i \in Nat
    BY <1>1
<1> DEFINE k == SubSeq(n, 1, i + 1)
<1>4. k = n \/ k \in Above(n)
    <2>1. CASE i + 1 = Len(n)
        <3>1. SubSeq(n, 1, Len(n)) = n
            BY <1>1, WholePrefix
        <3> QED BY <2>1, <3>1
    <2>2. CASE i + 1 # Len(n)
        <3>1. i + 1 \in 0 .. Len(n) - 1
            BY <1>1, <1>3, <2>2
        <3> QED BY <3>1, Zenon DEF Above
    <2> QED BY <2>1, <2>2
<1>5. k \in Node
    BY <1>4, AboveFacts
<1>6. k \in Seq({0, 1}) /\ Len(k) = i + 1 /\ SubSeq(k, 1, i) = m
    BY <1>1, <1>2, <1>3, PrefixElements, PrefixOfPrefix
<1> HIDE DEF k
<1>7. k # << >>
    <2>1. Len(<< >>) = 0
        OBVIOUS
    <2> QED BY <1>3, <1>6, <2>1
<1>8. Append(SubSeq(k, 1, Len(k) - 1), k[Len(k)]) = k /\ k[Len(k)] \in {0, 1}
    BY <1>6, <1>7, AppendToParent
<1>9. Len(k) - 1 = i
    BY <1>3, <1>6
<1>10. k \in Kids(m)
    <2>1. Append(m, k[Len(k)]) = k
        BY <1>6, <1>8, <1>9
    <2> QED BY <1>5, <1>8, <2>1 DEF Kids
<1> QED BY <1>4, <1>10

\* A node that is no leaf has both its children.
LEMMA BothKids ==
    ASSUME NEW n \in Node, ~IsLeaf(n)
    PROVE  Kids(n) = {Append(n, 0), Append(n, 1)}
BY NodeAssumption DEF IsLeaf, Kids

-----------------------------------------------------------------------------
(* What a step of one worker, or of one file, leaves alone.                *)

LEMMA PutFile ==
    ASSUME NEW S, NEW F \in [Node -> [Forms -> S]], NEW n \in Node,
           NEW g \in Forms, NEW f \in S, NEW G, G = [F EXCEPT ![n][g] = f]
    PROVE  /\ G \in [Node -> [Forms -> S]]
           /\ G[n][g] = f
           /\ \A h \in Forms : h # g => G[n][h] = F[n][h]
           /\ \A m \in Node : m # n => G[m] = F[m]
OBVIOUS

LEMMA WorkerFacts ==
    ASSUME JInv, NEW j \in Busy
    PROVE  /\ j \in Worker /\ w[j] \in WorkerRecord
           /\ w[j].node \in Node /\ w[j].form \in Forms
           /\ w[j].term \in 0 .. 6 /\ w[j].x \in Values /\ w[j].y \in Values
           /\ w[j].lock_held \in BOOLEAN /\ w[j].at \in Steps
           /\ file[w[j].node][w[j].form] \in File \cup {NoFile}
           /\ part[w[j].node][w[j].form] \in Part \cup {NoFile}
           /\ WorkerOK(w[j], file[w[j].node][w[j].form],
                             part[w[j].node][w[j].form])
<1>1. j \in Worker /\ w[j] \in WorkerRecord /\ w[j].node \in Node
    BY DEF JInv, WorkersInv, WorkersTyped, Busy
<1>2. /\ w[j].form \in Forms /\ w[j].term \in 0 .. 6 /\ w[j].at \in Steps
      /\ w[j].x \in Values /\ w[j].y \in Values /\ w[j].lock_held \in BOOLEAN
    BY <1>1 DEF WorkerRecord
<1>3. /\ file[w[j].node][w[j].form] \in File \cup {NoFile}
      /\ part[w[j].node][w[j].form] \in Part \cup {NoFile}
    BY <1>1, <1>2 DEF JInv, FilesInv, FilesTyped
<1> QED BY <1>1, <1>2, <1>3 DEF JInv, WorkersInv, WorkersOK

LEMMA IdleTyped == Idle \in WorkerRecord /\ Idle.at = "idle"
BY DEF Idle, WorkerRecord, Forms, Steps, Values

LEMMA OneWorker ==
    ASSUME JInv, NEW j \in Worker, NEW r \in WorkerRecord,
           w' = [w EXCEPT ![j] = r],
           \A i \in Busy \ {j} : /\ file'[w[i].node] = file[w[i].node]
                                 /\ part'[w[i].node] = part[w[i].node],
           r.at = "idle" => r = Idle,
           r.at # "idle" => r.node \in Node /\ WorkerOK(r, file'[r.node][r.form],
                                                           part'[r.node][r.form])
    PROVE  WorkersInv'
<1>1. /\ w' \in [Worker -> WorkerRecord] /\ w'[j] = r
      /\ \A i \in Worker : i # j => w'[i] = w[i]
    BY DEF JInv, WorkersInv, WorkersTyped
<1>2. \A i \in Worker : i # j => (i \in Busy' <=> i \in Busy)
    BY <1>1 DEF Busy
<1>3. ASSUME NEW i \in Worker \ Busy' PROVE w'[i] = Idle
    <2>1. CASE i = j
        BY <2>1, <1>1 DEF Busy
    <2>2. CASE i # j
        BY <2>2, <1>1, <1>2 DEF JInv, WorkersInv, WorkersTyped
    <2> QED BY <2>1, <2>2
<1>4. ASSUME NEW i \in Busy'
      PROVE  w'[i].node \in Node /\ WorkerOK(w'[i], file'[w'[i].node][w'[i].form],
                                                    part'[w'[i].node][w'[i].form])
    <2>0. i \in Worker /\ w'[i].at # "idle"
        BY DEF Busy
    <2>1. CASE i = j
        BY <2>0, <2>1, <1>1
    <2>2. CASE i # j
        <3>1. i \in Busy /\ w'[i] = w[i]
            BY <2>0, <2>2, <1>1, <1>2
        <3>2. /\ file'[w[i].node] = file[w[i].node]
              /\ part'[w[i].node] = part[w[i].node]
            BY <2>2, <3>1
        <3> QED BY <3>1, <3>2, WorkerFacts
    <2> QED BY <2>1, <2>2
<1> QED BY <1>1, <1>3, <1>4 DEF WorkersInv, WorkersTyped, WorkersOK

\* No one else works on a busy worker's node, or on its inputs, so a step that
\* touches the files of its own node touches no one else's.
LEMMA OthersElsewhere ==
    ASSUME JInv, NEW j \in Busy, NEW i \in Busy \ {j}
    PROVE  w[i].node # w[j].node /\ w[i].node \notin Kids(w[j].node)
BY DEF JInv, CacheInv, Apart

LEMMA OwnFiles ==
    ASSUME JInv, NEW j \in Busy,
           \A m \in Node : m # w[j].node => /\ file'[m] = file[m]
                                           /\ part'[m] = part[m]
    PROVE  \A i \in Busy \ {j} : /\ file'[w[i].node] = file[w[i].node]
                                 /\ part'[w[i].node] = part[w[i].node]
BY OthersElsewhere, WorkerFacts

\* Until a result is committed no file of it reads as complete.
LEMMA NotYetWhole ==
    ASSUME JInv, NEW j \in Busy, ~Deleting(w[j])
    PROVE  \A h \in Forms : ~IsWhole(file[w[j].node][h])
<1>1. w[j].node \in Node /\ ~IsStored(w[j].node)
    BY WorkerFacts DEF JInv, CacheInv, InputsThere
<1>2. w[j].node \notin Span => ~IsWhole(file[w[j].node]["sig"])
    BY <1>1, PartFacts DEF JInv, FilesInv, FilesPlaced
<1> QED BY <1>1, <1>2 DEF IsStored, SigIsStored, Forms

-----------------------------------------------------------------------------
(* The steps of one worker: what each leaves of workers and files.         *)

LEMMA SameFiles ==
    ASSUME JInv, UNCHANGED <<file, part>>
    PROVE  FilesInv'
BY DEF JInv, FilesInv, FilesTyped, FilesPlaced, CompleteIsWhole, OneForm

\* Writing one result file keeps what is said of the files, when what it makes
\* complete is whole and the only form of its number.
LEMMA WriteFile ==
    ASSUME JInv, NEW n \in Node, NEW g \in Forms, NEW f \in File \cup {NoFile},
           file' = [file EXCEPT ![n][g] = f], part' = part,
           g = "sig" => n \in Span,
           IsWhole(f) => /\ f.body = Numbers /\ part[n][g] = NoFile
                         /\ \A h \in Forms : h # g => ~IsWhole(file[n][h])
    PROVE  /\ FilesInv'
           /\ file'[n][g] = f
           /\ \A m \in Node : m # n => file'[m] = file[m] /\ part'[m] = part[m]
           /\ \A m \in Node, h \in Forms :
                m # n \/ h # g => file'[m][h] = file[m][h]
<1>1. /\ file' \in [Node -> [Forms -> File \cup {NoFile}]]
      /\ file'[n][g] = f
      /\ \A h \in Forms : h # g => file'[n][h] = file[n][h]
      /\ \A m \in Node : m # n => file'[m] = file[m]
    <2>1. file \in [Node -> [Forms -> File \cup {NoFile}]]
        BY DEF JInv, FilesInv, FilesTyped
    <2> QED BY <2>1, PutFile
<1>2. \A m \in Node, h \in Forms : m # n \/ h # g => file'[m][h] = file[m][h]
    BY <1>1
<1>3. FilesTyped'
    BY <1>1 DEF JInv, FilesInv, FilesTyped
<1>4. FilesPlaced'
    BY <1>2 DEF JInv, FilesInv, FilesPlaced, Forms
<1>5. CompleteIsWhole'
    BY <1>1, <1>2 DEF JInv, FilesInv, CompleteIsWhole
<1>6. OneForm'
    BY <1>1, <1>2 DEF JInv, FilesInv, OneForm, Forms
<1> QED BY <1>1, <1>2, <1>3, <1>4, <1>5, <1>6 DEF FilesInv

\* And so does writing a checkpoint of a join that is not complete.
LEMMA WritePart ==
    ASSUME JInv, NEW n \in Node, NEW g \in Forms, NEW p \in Part \cup {NoFile},
           part' = [part EXCEPT ![n][g] = p], file' = file,
           ~IsLeaf(n), ~IsWhole(file[n][g])
    PROVE  /\ FilesInv'
           /\ part'[n][g] = p
           /\ \A m \in Node : m # n => file'[m] = file[m] /\ part'[m] = part[m]
           /\ \A m \in Node, h \in Forms :
                m # n \/ h # g => part'[m][h] = part[m][h]
<1>1. /\ part' \in [Node -> [Forms -> Part \cup {NoFile}]]
      /\ part'[n][g] = p
      /\ \A h \in Forms : h # g => part'[n][h] = part[n][h]
      /\ \A m \in Node : m # n => part'[m] = part[m]
    <2>1. part \in [Node -> [Forms -> Part \cup {NoFile}]]
        BY DEF JInv, FilesInv, FilesTyped
    <2> QED BY <2>1, PutFile
<1>2. \A m \in Node, h \in Forms : m # n \/ h # g => part'[m][h] = part[m][h]
    BY <1>1
<1>3. FilesTyped'
    BY <1>1 DEF JInv, FilesInv, FilesTyped
<1>4. FilesPlaced'
    BY <1>1, <1>2 DEF JInv, FilesInv, FilesPlaced
<1>5. CompleteIsWhole'
    BY <1>1, <1>2 DEF JInv, FilesInv, CompleteIsWhole
<1>6. OneForm'
    BY DEF JInv, FilesInv, OneForm
<1> QED BY <1>1, <1>2, <1>3, <1>4, <1>5, <1>6 DEF FilesInv

\* A worker's files do not depend on whether it holds the lock.
LEMMA SameStep ==
    ASSUME NEW s, NEW r, NEW f, NEW p, WorkerOK(s, f, p),
           r.node = s.node, r.form = s.form, r.at = s.at, r.term = s.term,
           r.x = s.x, r.y = s.y
    PROVE  WorkerOK(r, f, p)
BY Zenon DEF WorkerOK, LeafWorker, JoinMemory, JoinFiles, Deleting

\* A worker past the creation of a leaf's file works on a join.
LEMMA JoinFacts ==
    ASSUME JInv, NEW j \in Busy,
           w[j].at \notin {"create", "write"} \/ w[j].term # 0
    PROVE  /\ ~IsLeaf(w[j].node)
           /\ JoinMemory(w[j])
           /\ JoinFiles(w[j], file[w[j].node][w[j].form],
                              part[w[j].node][w[j].form])
BY WorkerFacts, Zenon DEF WorkerOK, LeafWorker

LEMMA StartStep ==
    ASSUME JInv, NEW j \in Worker, NEW n \in Node, Start(j, n)
    PROVE  WorkersInv' /\ FilesInv'
<1> DEFINE r == [Idle EXCEPT !.node = n, !.at = IF IsLeaf(n) THEN "create"
                                                ELSE "open"]
<1>1. w' = [w EXCEPT ![j] = r] /\ UNCHANGED <<file, part>>
    BY DEF Start
<1>2. /\ r \in WorkerRecord /\ r.node = n /\ r.term = 0
      /\ r.at = IF IsLeaf(n) THEN "create" ELSE "open"
    <2> DEFINE at == IF IsLeaf(n) THEN "create" ELSE "open"
    <2>1. at \in Steps
        BY DEF Steps
    <2> HIDE DEF at
    <2>2. r = [Idle EXCEPT !.node = n, !.at = at]
        BY DEF at
    <2>3. Idle \in WorkerRecord
        BY IdleTyped
    <2> HIDE DEF r
    <2>4. r \in WorkerRecord
        BY <2>1, <2>2, <2>3 DEF WorkerRecord
    <2>5. r.node = n /\ r.at = at /\ r.term = 0
        BY <2>2 DEF Idle
    <2> QED BY <2>4, <2>5 DEF at
<1> HIDE DEF r
<1>3. WorkerOK(r, file'[r.node][r.form], part'[r.node][r.form])
    BY <1>2 DEF WorkerOK, LeafWorker, JoinMemory, JoinFiles
<1>4. WorkersInv'
    <2>1. r.at # "idle" /\ r.node \in Node
        BY <1>2
    <2> QED BY <1>1, <1>2, <1>3, <2>1, OneWorker
<1>5. FilesInv'
    BY <1>1, SameFiles
<1> QED BY <1>4, <1>5

LEMMA OpenStep ==
    ASSUME JInv, NEW j \in Worker, Open(j)
    PROVE  WorkersInv' /\ FilesInv'
<1> DEFINE s == w[j]
           n == s.node
           form == JoinForm(n)
           f == IF file[n][form] = NoFile THEN Empty ELSE file[n][form]
           t == [s EXCEPT !.form = form]
           r == GoTo(t, 1, f, part[n][form])
<1>1. s.at = "open" /\ j \in Busy
    BY DEF Open, Busy
<1>2. s \in WorkerRecord /\ n \in Node /\ ~IsLeaf(n)
    BY <1>1, WorkerFacts DEF WorkerOK, LeafWorker
<1>3. form \in Forms /\ (form = "sig" => n \in Span)
    BY SpanAssumption DEF JoinForm, Forms
<1>4. file[n][form] \in File \cup {NoFile} /\ part[n][form] \in Part \cup {NoFile}
    BY <1>2, <1>3 DEF JInv, FilesInv, FilesTyped
<1>5. /\ file' = [file EXCEPT ![n][form] = f]
      /\ w' = [w EXCEPT ![j] = r]
      /\ part' = part
    <2>1. j \in DOMAIN w
        BY DEF JInv, WorkersInv, WorkersTyped
    <2> QED BY <2>1 DEF Open
<1>6. f \in File /\ (IsWhole(f) <=> IsWhole(file[n][form]))
    BY <1>4, FileFacts, PartFacts
<1>7. ~IsStored(n)
    BY <1>1 DEF JInv, CacheInv, InputsThere, Deleting
<1>8. ~IsWhole(file[n][form])
    BY <1>3, <1>7 DEF IsStored, SigIsStored, Forms
<1>9. t \in WorkerRecord /\ t.node = n /\ t.form = form
    BY <1>2, <1>3 DEF WorkerRecord
<1> HIDE DEF form, f, t, r
<1>10. /\ r \in WorkerRecord /\ r.node = n /\ r.form = form
       /\ \/ r.at = "load" /\ r.term \in 1 .. 4
          \/ r.at = "drop" /\ r.term = 6
       /\ f.body = First(Committed(r.term))
       /\ r.term = 3 => ~IsWhole(part[n][form])
       /\ r.term = 4 => IsWhole(part[n][form])
    <2>1. 1 \in 1 .. 6 /\ 1 <= Len(f.body) + 1
        BY <1>6, FileFacts
    <2> QED BY <1>4, <1>6, <1>9, <2>1, GoToFacts DEF r, Goes
<1>11. /\ FilesInv' /\ file'[n][form] = f
       /\ \A m \in Node : m # n => file'[m] = file[m] /\ part'[m] = part[m]
    <2>1. ~IsWhole(f)
        BY <1>6, <1>8
    <2>2. f \in File \cup {NoFile}
        BY <1>6
    <2>3. file' = [file EXCEPT ![n][form] = f] /\ part' = part
        BY <1>5
    <2> HIDE DEF n, s
    <2> QED BY <2>1, <2>2, <2>3, <1>2, <1>3, WriteFile
<1>12. ~f.magic
    BY <1>6, <1>8, FileFacts DEF IsWhole
<1>13. WorkersInv'
    <2>1. WorkerOK(r, file'[r.node][r.form], part'[r.node][r.form])
        <3>0. \/ r.at = "load" /\ r.term \in 1 .. 5
              \/ r.at = "drop" /\ r.term = 6
            BY <1>10
        <3>1. r.term # 5
            BY <1>10
        <3>2. ~Deleting(r) /\ r.at # "close"
            BY <3>0, Zenon DEF Deleting
        <3>3. JoinMemory(r)
            BY <3>0, <3>1, Zenon DEF JoinMemory
        <3>4. f # NoFile
            BY <1>6, FileFacts
        <3>5. JoinFiles(r, f, part[n][form])
            BY <1>3, <1>10, <1>12, <3>1, <3>2, <3>4 DEF JoinFiles
        <3> QED BY <1>2, <1>5, <1>10, <1>11, <3>3, <3>5 DEF WorkerOK
    <2>2. r.at # "idle" /\ n = w[j].node
        BY <1>10
    <2> QED BY <1>1, <1>2, <1>5, <1>10, <1>11, <2>1, <2>2, OwnFiles, OneWorker
<1> QED BY <1>11, <1>13

LEMMA AcquireStep ==
    ASSUME JInv, NEW j \in Worker, Acquire(j)
    PROVE  WorkersInv' /\ FilesInv'
<1> DEFINE s == w[j]
           r == [s EXCEPT !.lock_held = TRUE]
<1>1. j \in Busy /\ s \in WorkerRecord
    <2>1. j \in Busy
        BY Zenon DEF Acquire, Busy
    <2> QED BY <2>1, WorkerFacts
<1>2. w' = [w EXCEPT ![j] = r] /\ UNCHANGED <<file, part>>
    BY DEF Acquire
<1>3. /\ r \in WorkerRecord /\ r.node = s.node /\ r.form = s.form
      /\ r.at = s.at /\ r.term = s.term /\ r.x = s.x /\ r.y = s.y
    BY <1>1 DEF WorkerRecord
<1> HIDE DEF r
<1>4. WorkerOK(r, file'[r.node][r.form], part'[r.node][r.form])
    <2>1. WorkerOK(r, file[s.node][s.form], part[s.node][s.form])
        BY <1>1, <1>3, WorkerFacts, SameStep
    <2> QED BY <2>1, <1>2, <1>3
<1>5. r.at # "idle" /\ r.node \in Node
    BY <1>1, <1>3, WorkerFacts DEF Busy
<1> QED BY <1>2, <1>3, <1>4, <1>5, OneWorker, SameFiles

\* What a join reads before a term are the operands of that term.
LEMMA LoadStep ==
    ASSUME JInv, NEW j \in Worker, LoadPair(j)
    PROVE  WorkersInv' /\ FilesInv'
<1> DEFINE s == w[j]
           n == s.node
           t == s.term
           x == IF t = 5 THEN part[n][s.form].body[1]
                ELSE Load(Append(n, 0), Index(Left[t]))
           y == IF t = 5 THEN s.x ELSE Load(Append(n, 1), Index(Right[t]))
           r == [s EXCEPT !.x = x, !.y = y, !.at = "mul", !.lock_held = FALSE]
<1>1. j \in Busy /\ s.at = "load"
    BY DEF LoadPair, Busy
<1>2. w' = [w EXCEPT ![j] = r] /\ UNCHANGED <<file, part>> /\ Readable(j)
    BY DEF LoadPair
<1>3. /\ s \in WorkerRecord /\ n \in Node /\ s.form \in Forms
      /\ part[n][s.form] \in Part \cup {NoFile}
    BY <1>1, WorkerFacts
<1>4. /\ ~IsLeaf(n) /\ t \in 1 .. 5 /\ (t = 5 => s.x = "rest")
      /\ JoinFiles(s, file[n][s.form], part[n][s.form])
    <2>1. ~IsLeaf(n) /\ JoinMemory(s) /\ JoinFiles(s, file[n][s.form], part[n][s.form])
        BY <1>1, JoinFacts, Zenon
    <2> QED BY <1>1, <2>1, Zenon DEF JoinMemory
<1>5. x = Left[t] /\ y = Right[t]
    <2>1. CASE t = 5
        <3>1. IsWhole(part[n][s.form])
            BY <1>2, <2>1 DEF Readable
        <3> QED BY <1>3, <1>4, <2>1, <3>1, PartFacts, TermFacts
    <2>2. CASE t # 5
        <3>1. t \in 1 .. 4 /\ \A k \in Kids(n) : IsStored(k)
            BY <1>2, <1>4, <2>2 DEF Readable
        <3>2. ASSUME NEW k \in Kids(n), NEW v \in {"P", "Q", "R"}
              PROVE  Load(k, Index(v)) = v
            <4>1. k \in Node /\ IsStored(k) /\ StoredForm(k) \in Forms
                BY <1>3, <3>1, KidFacts DEF StoredForm, Forms
            <4>2. IsWhole(file[k][StoredForm(k)])
                BY <4>1 DEF IsStored, StoredForm, SigIsStored
            <4>3. file[k][StoredForm(k)].body = Numbers
                BY <4>1, <4>2 DEF JInv, FilesInv, CompleteIsWhole
            <4> QED BY <4>3, IndexFacts DEF Load
        <3>3. Append(n, 0) \in Kids(n) /\ Append(n, 1) \in Kids(n)
            BY <1>3, <1>4, BothKids
        <3>4. Left[t] \in {"P", "Q", "R"} /\ Right[t] \in {"P", "Q", "R"}
            BY <3>1, TermFacts
        <3> HIDE DEF t
        <3>5. /\ Load(Append(n, 0), Index(Left[t])) = Left[t]
              /\ Load(Append(n, 1), Index(Right[t])) = Right[t]
            BY <3>2, <3>3, <3>4
        <3> QED BY <2>2, <3>5
    <2> QED BY <2>1, <2>2
<1> HIDE DEF x, y
<1>6. Left[t] \in Values /\ Right[t] \in Values
    BY <1>4, TermFacts DEF Values
<1>7. /\ r \in WorkerRecord /\ r.node = n /\ r.form = s.form
      /\ r.at = "mul" /\ r.term = t /\ r.x = Left[t] /\ r.y = Right[t]
    <2>1. "mul" \in Steps
        BY DEF Steps
    <2> QED BY <1>3, <1>5, <1>6, <2>1 DEF WorkerRecord
<1> HIDE DEF r
<1>8. WorkerOK(r, file'[r.node][r.form], part'[r.node][r.form])
    <2>1. JoinMemory(r)
        BY <1>4, <1>7, Zenon DEF JoinMemory
    <2>2. ~Deleting(r) /\ ~Deleting(s) /\ s.at # "open" /\ r.at # "close"
        BY <1>1, <1>7, Zenon DEF Deleting
    <2>3. JoinFiles(r, file[n][s.form], part[n][s.form])
        BY <1>4, <1>7, <2>2, Zenon DEF JoinFiles
    <2> QED BY <1>2, <1>4, <1>7, <2>1, <2>3 DEF WorkerOK
<1>9. r.at # "idle" /\ r.node \in Node
    BY <1>3, <1>7
<1> QED BY <1>2, <1>7, <1>8, <1>9, OneWorker, SameFiles

LEMMA MultiplyStep ==
    ASSUME JInv, NEW j \in Worker, Multiply(j)
    PROVE  WorkersInv' /\ FilesInv'
<1> DEFINE s == w[j]
           n == s.node
           t == s.term
           made == [s EXCEPT !.x = Combine(@, s.y), !.y = "none"]
           r == IF t = 4 THEN [made EXCEPT !.term = 5, !.at = "load"]
                ELSE [made EXCEPT !.at = IF t = 3 THEN "create" ELSE "write"]
<1>1. j \in Busy /\ s.at = "mul"
    BY DEF Multiply, Busy
<1>2. w' = [w EXCEPT ![j] = r] /\ UNCHANGED <<file, part>>
    BY DEF Multiply
<1>3. s \in WorkerRecord /\ n \in Node
    BY <1>1, WorkerFacts
<1>4. /\ ~IsLeaf(n) /\ t \in 1 .. 5 /\ s.x = Left[t] /\ s.y = Right[t]
      /\ JoinFiles(s, file[n][s.form], part[n][s.form])
    <2>1. ~IsLeaf(n) /\ JoinMemory(s) /\ JoinFiles(s, file[n][s.form], part[n][s.form])
        BY <1>1, JoinFacts, Zenon
    <2> QED BY <1>1, <2>1, Zenon DEF JoinMemory
<1>5. Combine(s.x, s.y) = Result[t] /\ Result[t] \in Values /\ "none" \in Values
    <2>1. Combine(Left[t], Right[t]) = Result[t] /\ Result[t] \in Values
        BY <1>4, TermFacts
    <2> QED BY <1>4, <2>1 DEF Values
<1>6. /\ made \in WorkerRecord /\ made.node = n /\ made.form = s.form
      /\ made.term = t /\ made.x = Result[t]
    BY <1>3, <1>5 DEF WorkerRecord
<1>7. {"load", "create", "write"} \subseteq Steps
    BY DEF Steps
<1> HIDE DEF made
<1>8. /\ r \in WorkerRecord /\ r.node = n /\ r.form = s.form /\ r.x = Result[t]
      /\ \/ t = 4 /\ r.term = 5 /\ r.at = "load"
         \/ t = 3 /\ r.term = t /\ r.at = "create"
         \/ t \in {1, 2, 5} /\ r.term = t /\ r.at = "write"
    <2>1. CASE t = 4
        <3>1. r = [made EXCEPT !.term = 5, !.at = "load"] /\ 5 \in 0 .. 6
            BY <2>1
        <3> HIDE DEF r
        <3>2. /\ r \in WorkerRecord /\ r.node = n /\ r.form = s.form
              /\ r.x = Result[t] /\ r.term = 5 /\ r.at = "load"
            BY <3>1, <1>6, <1>7 DEF WorkerRecord
        <3> QED BY <2>1, <3>2
    <2>2. CASE t # 4
        <3> DEFINE at == IF t = 3 THEN "create" ELSE "write"
        <3>1. r = [made EXCEPT !.at = at] /\ at \in Steps
            BY <2>2, <1>7
        <3> HIDE DEF at, r
        <3>2. /\ r \in WorkerRecord /\ r.node = n /\ r.form = s.form
              /\ r.x = Result[t] /\ r.term = t /\ r.at = at
            BY <3>1, <1>6 DEF WorkerRecord
        <3>3. t = 3 \/ t \in {1, 2, 5}
            BY <2>2, <1>4
        <3> HIDE DEF t
        <3> QED BY <2>2, <3>2, <3>3, Zenon DEF at
    <2> QED BY <2>1, <2>2
<1> HIDE DEF r
<1>9. WorkerOK(r, file'[r.node][r.form], part'[r.node][r.form])
    <2> DEFINE f == file[n][s.form]
               p == part[n][s.form]
    <2>1. ~Deleting(r) /\ ~Deleting(s) /\ s.at # "open" /\ r.at # "close"
        BY <1>1, <1>8, Zenon DEF Deleting
    <2>2. Committed(r.term) = Committed(t)
        BY <1>8 DEF Committed
    <2>3. (r.term = 3 => t = 3) /\ (r.term \in {4, 5} => t \in {4, 5})
        BY <1>8
    <2>4. JoinFiles(r, f, p)
        BY <1>4, <1>8, <2>1, <2>2, <2>3, Zenon DEF JoinFiles
    <2>5. JoinMemory(r)
        <3>1. \/ r.at = "load" /\ r.term \in 1 .. 5 /\ r.x = "rest"
              \/ /\ r.at = "create" /\ r.term \in 1 .. 5 /\ r.term = 3
                 /\ r.x = Result[r.term]
              \/ /\ r.at = "write" /\ r.term \in 1 .. 5 /\ r.term # 4
                 /\ r.x = Result[r.term]
            BY <1>4, <1>8, TermFacts
        <3> QED BY <3>1, Zenon DEF JoinMemory
    <2> QED BY <1>2, <1>4, <1>8, <2>4, <2>5 DEF WorkerOK
<1>10. r.at # "idle" /\ r.node \in Node
    BY <1>3, <1>8
<1> QED BY <1>2, <1>8, <1>9, <1>10, OneWorker, SameFiles

\* A number is appended after those committed before it, and only then.
LEMMA WriteStep ==
    ASSUME JInv, NEW j \in Worker, WriteNumber(j)
    PROVE  /\ WorkersInv' /\ FilesInv'
           /\ w[j].term # 5 => w'[j].at = "load"
<1> DEFINE s == w[j]
           n == s.node
           t == s.term
           old == file[n][s.form]
           p == part[n][s.form]
           f == [old EXCEPT !.body = Append(@, s.x)]
           self == [s EXCEPT !.x = "none", !.lock_held = t < 5]
           r == GoTo(self, t + 1, f, p)
<1>1. j \in Busy /\ s.at = "write" /\ t \in {1, 2, 5}
    BY Zenon DEF WriteNumber, Busy
<1>2. /\ w' = [w EXCEPT ![j] = r] /\ part' = part
      /\ file' = [file EXCEPT ![n][s.form] = f]
    BY Zenon DEF WriteNumber
<1>3. /\ s \in WorkerRecord /\ n \in Node /\ s.form \in Forms
      /\ old \in File \cup {NoFile} /\ p \in Part \cup {NoFile}
    BY <1>1, WorkerFacts
<1>4. ~IsLeaf(n) /\ JoinMemory(s) /\ JoinFiles(s, old, p)
    <2>1. t # 0
        BY <1>1
    <2> QED BY <1>1, <2>1, JoinFacts, Zenon
<1>5. s.x = Result[t] /\ ~Deleting(s) /\ s.at # "open"
    BY <1>1, <1>4, Zenon DEF JoinMemory, Deleting
<1>6. /\ old \in File /\ old.body = First(Committed(t)) /\ ~old.magic
      /\ s.form = "sig" => n \in Span
    BY <1>3, <1>4, <1>5, Zenon DEF JoinFiles
<1>7. f.body = First(Committed(t) + 1) /\ ~f.magic /\ f \in File
    <2> DEFINE c == Committed(t)
    <2>1. c \in 0 .. 2 /\ c + 1 \in 0 .. 3 /\ Result[t] = Numbers[c + 1]
        BY <1>1, TermFacts DEF Committed
    <2> HIDE DEF c
    <2>2. Append(First(c), Numbers[c + 1]) = First(c + 1)
        BY <2>1, FirstFacts
    <2>3. f = [body |-> First(c + 1), magic |-> FALSE]
        <3>1. old = [body |-> First(c), magic |-> FALSE]
            BY <1>6 DEF File, c
        <3>2. Append(old.body, s.x) = First(c + 1)
            BY <1>5, <2>1, <2>2, <3>1
        <3>3. f = [[body |-> First(c), magic |-> FALSE] EXCEPT !.body = First(c + 1)]
            BY <3>1, <3>2
        <3> HIDE DEF old, f
        <3> QED BY <3>3
    <2> HIDE DEF f
    <2>4. f \in File
        BY <2>1, <2>3, FileFacts
    <2> QED BY <2>3, <2>4 DEF c
<1>8. t + 1 \in 1 .. 6 /\ (t + 1 <= Len(f.body) + 1 \/ Len(f.body) = 3)
    <2>1. Committed(t) + 1 \in 0 .. 3
        BY <1>1 DEF Committed
    <2>2. Len(f.body) = Committed(t) + 1
        BY <1>7, <2>1, FirstFacts, Zenon
    <2> HIDE DEF f
    <2> QED BY <1>1, <2>2 DEF Committed
<1>9. self \in WorkerRecord /\ self.node = n /\ self.form = s.form
    <2> DEFINE held == t < 5
    <2>1. "none" \in Values
        BY DEF Values
    <2>2. self = [s EXCEPT !.x = "none", !.lock_held = held] /\ held \in BOOLEAN
        BY <1>1
    <2> HIDE DEF held, self
    <2> QED BY <2>1, <2>2, <1>3 DEF WorkerRecord
<1> HIDE DEF f, self, r
<1>10. /\ r \in WorkerRecord /\ r.node = n /\ r.form = s.form
       /\ \/ r.at = "load" /\ r.term \in 1 .. 4
          \/ r.at = "drop" /\ r.term = 6
       /\ f.body = First(Committed(r.term))
       /\ r.term = 3 => ~IsWhole(p)
       /\ r.term = 4 => IsWhole(p)
    <2> DEFINE u == t + 1
    <2>1. u \in 1 .. 6 /\ (u <= Len(f.body) + 1 \/ Len(f.body) = 3) /\ f \in File
        BY <1>7, <1>8
    <2>2. r = GoTo(self, u, f, p)
        BY Zenon DEF r
    <2> HIDE DEF u
    <2>3. self \in WorkerRecord /\ p \in Part \cup {NoFile}
        BY <1>3, <1>9
    <2>4. Goes(r, self, f, p)
        BY <2>1, <2>2, <2>3, GoToFacts
    <2> QED BY <2>4, <1>9, Zenon DEF Goes
<1>11. /\ FilesInv' /\ file'[n][s.form] = f
       /\ \A m \in Node : m # n => file'[m] = file[m] /\ part'[m] = part[m]
    <2>1. ~IsWhole(f)
        BY <1>7 DEF IsWhole
    <2>2. f \in File \cup {NoFile}
        BY <1>7
    <2> DEFINE g == s.form
    <2>3. file' = [file EXCEPT ![n][g] = f] /\ part' = part
        BY <1>2
    <2>4. n \in Node /\ g \in Forms /\ (g = "sig" => n \in Span)
        BY <1>3, <1>6
    <2> HIDE DEF n, g, s
    <2>5. /\ FilesInv' /\ file'[n][g] = f
          /\ \A m \in Node : m # n => file'[m] = file[m] /\ part'[m] = part[m]
        BY <2>1, <2>2, <2>3, <2>4, WriteFile
    <2> QED BY <2>5 DEF g
<1>12. WorkersInv'
    <2>1. \/ r.at = "load" /\ r.term \in 1 .. 5
          \/ r.at = "drop" /\ r.term = 6
        BY <1>10
    <2>2. r.term # 5
        BY <1>10
    <2>3. ~Deleting(r) /\ r.at # "close"
        BY <2>1, Zenon DEF Deleting
    <2>4. JoinMemory(r)
        BY <2>1, <2>2, Zenon DEF JoinMemory
    <2>5. f # NoFile
        BY <1>7, FileFacts
    <2>6. JoinFiles(r, f, p)
        BY <1>6, <1>7, <1>10, <2>2, <2>3, <2>5 DEF JoinFiles
    <2>7. WorkerOK(r, file'[r.node][r.form], part'[r.node][r.form])
        BY <1>2, <1>4, <1>10, <1>11, <2>4, <2>6 DEF WorkerOK
    <2>8. r.at # "idle" /\ n = w[j].node
        BY <1>10
    <2> QED BY <1>1, <1>2, <1>3, <1>10, <1>11, <2>7, <2>8, OwnFiles, OneWorker
<1>13. t # 5 => r.at = "load"
    <2>1. CASE r.at = "drop" /\ t # 5
        <3>1. Committed(r.term) = 3 /\ Committed(t) + 1 \in 0 .. 2
            BY <1>1, <1>10, <2>1 DEF Committed
        <3>2. Len(First(3)) = 3 /\ Len(First(Committed(t) + 1)) = Committed(t) + 1
            BY <3>1, FirstFacts
        <3>3. First(3) = First(Committed(t) + 1)
            BY <1>7, <1>10, <3>1, Zenon
        <3>4. Committed(t) + 1 # 3
            BY <3>1
        <3> QED BY <3>2, <3>3, <3>4
    <2> QED BY <2>1, <1>10
<1>14. w'[j] = r
    BY <1>2 DEF JInv, WorkersInv, WorkersTyped
<1> QED BY <1>11, <1>12, <1>13, <1>14

LEMMA CreateStep ==
    ASSUME JInv, NEW j \in Worker, Create(j)
    PROVE  WorkersInv' /\ FilesInv'
<1> DEFINE s == w[j]
           n == s.node
           g == s.form
           r == [s EXCEPT !.at = "write"]
<1>1. j \in Busy /\ s.at = "create"
    BY DEF Create, Busy
<1>2. /\ w' = [w EXCEPT ![j] = r]
      /\ IF IsLeaf(n)
         THEN file' = [file EXCEPT ![n]["sig"] = Empty] /\ UNCHANGED part
         ELSE part' = [part EXCEPT ![n][g] = Empty] /\ UNCHANGED file
    BY DEF Create
<1>3. /\ s \in WorkerRecord /\ n \in Node /\ g \in Forms
      /\ WorkerOK(s, file[n][g], part[n][g])
    BY <1>1, WorkerFacts
<1>4. /\ r \in WorkerRecord /\ r.node = n /\ r.form = g /\ r.at = "write"
      /\ r.term = s.term /\ r.x = s.x
    <2>1. "write" \in Steps
        BY DEF Steps
    <2> QED BY <1>3, <2>1 DEF WorkerRecord
<1> HIDE DEF r
<1>5. ~Deleting(s) /\ ~Deleting(r) /\ r.at # "close" /\ s.at # "open"
    BY <1>1, <1>4, Zenon DEF Deleting
<1>6. CASE IsLeaf(n)
    <2>1. n \in Span
        BY <1>3, <1>6, SpanAssumption
    <2>2. /\ FilesInv'
          /\ \A m \in Node : m # n => file'[m] = file[m] /\ part'[m] = part[m]
        <3>1. file' = [file EXCEPT ![n]["sig"] = Empty] /\ part' = part
            BY <1>2, <1>6
        <3>2. Empty \in File \cup {NoFile} /\ ~IsWhole(Empty) /\ "sig" \in Forms
            BY FileFacts, PartFacts DEF Forms
        <3> HIDE DEF n
        <3> QED BY <1>3, <2>1, <3>1, <3>2, WriteFile
    <2>3. WorkerOK(r, file'[r.node][r.form], part'[r.node][r.form])
        BY <1>3, <1>4, <1>6, Zenon DEF WorkerOK, LeafWorker
    <2>4. r.at # "idle" /\ n = w[j].node
        BY <1>4, Zenon
    <2> QED BY <1>1, <1>2, <1>3, <1>4, <2>2, <2>3, <2>4, OwnFiles, OneWorker
<1>7. CASE ~IsLeaf(n)
    <2>1. /\ s.term = 3 /\ s.x = Result[s.term]
          /\ JoinFiles(s, file[n][g], part[n][g])
        BY <1>1, <1>3, <1>7, Zenon DEF WorkerOK, JoinMemory
    <2>2. /\ FilesInv' /\ part'[n][g] = Empty
          /\ \A m \in Node : m # n => file'[m] = file[m] /\ part'[m] = part[m]
        <3>1. part' = [part EXCEPT ![n][g] = Empty] /\ file' = file
            BY <1>2, <1>7
        <3>2. Empty \in Part \cup {NoFile} /\ ~IsWhole(file[n][g])
            BY <1>1, <1>3, <1>5, PartFacts, NotYetWhole
        <3> HIDE DEF n, g
        <3> QED BY <1>3, <1>7, <3>1, <3>2, WritePart
    <2>3. JoinMemory(r)
        <3>1. r.term \in 1 .. 5 /\ r.term # 4 /\ r.x = Result[r.term]
            BY <1>4, <2>1
        <3> QED BY <1>4, <3>1, Zenon DEF JoinMemory
    <2>4. JoinFiles(r, file[n][g], Empty)
        <3>1. r.term \notin {4, 5} /\ ~IsWhole(Empty)
            BY <1>4, <2>1, PartFacts
        <3> QED BY <1>4, <1>5, <2>1, <3>1, Zenon DEF JoinFiles
    <2>5. WorkerOK(r, file'[r.node][r.form], part'[r.node][r.form])
        <3>1. file' = file
            BY <1>2, <1>7
        <3> QED BY <1>4, <1>7, <2>2, <2>3, <2>4, <3>1 DEF WorkerOK
    <2>6. r.at # "idle" /\ n = w[j].node
        BY <1>4
    <2> QED BY <1>1, <1>2, <1>3, <1>4, <2>2, <2>5, <2>6, OwnFiles, OneWorker
<1> QED BY <1>6, <1>7

LEMMA PieceStep ==
    ASSUME JInv, NEW j \in Worker, SavePiece(j)
    PROVE  WorkersInv' /\ FilesInv'
<1> DEFINE n == w[j].node
           f == [body |-> Numbers, magic |-> TRUE]
<1>1. j \in Busy /\ w[j].at = "write" /\ IsLeaf(n)
    BY DEF SavePiece, Busy
<1>2. /\ w' = [w EXCEPT ![j] = Idle] /\ part' = part
      /\ file' = [file EXCEPT ![n]["sig"] = f]
    BY DEF SavePiece
<1>3. n \in Node /\ n \in Span /\ "sig" \in Forms
    BY <1>1, WorkerFacts, SpanAssumption DEF Forms
<1>4. ~Deleting(w[j])
    BY <1>1, Zenon DEF Deleting
<1>5. f \in File \cup {NoFile} /\ f.body = Numbers
    BY FileFacts
<1>6. \A h \in Forms : part[n][h] = NoFile /\ ~IsWhole(file[n][h])
    BY <1>1, <1>3, <1>4, NotYetWhole DEF JInv, FilesInv, FilesPlaced
<1>7. /\ FilesInv'
      /\ \A m \in Node : m # n => file'[m] = file[m] /\ part'[m] = part[m]
    <2> HIDE DEF n, f
    <2> QED BY <1>2, <1>3, <1>5, <1>6, WriteFile
<1> QED BY <1>1, <1>2, <1>7, IdleTyped, OwnFiles, OneWorker

LEMMA PartStep ==
    ASSUME JInv, NEW j \in Worker, SavePart(j)
    PROVE  WorkersInv' /\ FilesInv'
<1> DEFINE s == w[j]
           n == s.node
           g == s.form
           p == [body |-> <<s.x>>, magic |-> TRUE]
           r == [s EXCEPT !.x = "none", !.term = 4, !.at = "load"]
<1>1. j \in Busy /\ s.at = "write" /\ s.term = 3
    BY DEF SavePart, Busy
<1>2. /\ w' = [w EXCEPT ![j] = r] /\ file' = file
      /\ part' = [part EXCEPT ![n][g] = p]
    BY DEF SavePart
<1>3. s \in WorkerRecord /\ n \in Node /\ g \in Forms
    BY <1>1, WorkerFacts
<1>4. ~IsLeaf(n) /\ JoinMemory(s) /\ JoinFiles(s, file[n][g], part[n][g])
    <2>1. s.term # 0
        BY <1>1
    <2> QED BY <1>1, <2>1, JoinFacts, Zenon
<1>5. p \in Part \cup {NoFile} /\ IsWhole(p)
    <2>1. s.x = Result[s.term]
        BY <1>1, <1>4, Zenon DEF JoinMemory
    <2>2. s.x = "part"
        BY <1>1, <2>1, TermFacts
    <2> QED BY <2>2, PartFacts
<1>6. /\ r \in WorkerRecord /\ r.node = n /\ r.form = g /\ r.at = "load"
      /\ r.term = 4
    <2>1. "load" \in Steps /\ "none" \in Values /\ 4 \in 0 .. 6
        BY DEF Steps, Values
    <2> QED BY <1>3, <2>1 DEF WorkerRecord
<1> HIDE DEF p, r
<1>7. ~Deleting(s) /\ ~Deleting(r) /\ r.at # "close" /\ s.at # "open"
    BY <1>1, <1>6, Zenon DEF Deleting
<1>8. /\ FilesInv' /\ part'[n][g] = p
      /\ \A m \in Node : m # n => file'[m] = file[m] /\ part'[m] = part[m]
    <2>1. ~IsWhole(file[n][g])
        BY <1>1, <1>3, <1>7, NotYetWhole
    <2> HIDE DEF n, g
    <2> QED BY <1>2, <1>3, <1>4, <1>5, <2>1, WritePart
<1>9. JoinMemory(r)
    <2>1. r.term \in 1 .. 5 /\ r.term # 5
        BY <1>6
    <2> QED BY <1>6, <2>1, Zenon DEF JoinMemory
<1>10. JoinFiles(r, file[n][g], p)
    <2>1. r.term # 3 /\ Committed(r.term) = Committed(s.term)
        BY <1>1, <1>6 DEF Committed
    <2> QED BY <1>4, <1>5, <1>6, <1>7, <2>1, Zenon DEF JoinFiles
<1>11. WorkerOK(r, file'[r.node][r.form], part'[r.node][r.form])
    BY <1>2, <1>4, <1>6, <1>8, <1>9, <1>10 DEF WorkerOK
<1>12. r.at # "idle" /\ n = w[j].node
    BY <1>6
<1> QED BY <1>1, <1>2, <1>3, <1>6, <1>8, <1>11, <1>12, OwnFiles, OneWorker

LEMMA DropStep ==
    ASSUME JInv, NEW j \in Worker, DropPart(j)
    PROVE  WorkersInv' /\ FilesInv'
<1> DEFINE s == w[j]
           n == s.node
           g == s.form
           r == [s EXCEPT !.at = "close"]
<1>1. j \in Busy /\ s.at = "drop"
    BY DEF DropPart, Busy
<1>2. /\ w' = [w EXCEPT ![j] = r] /\ file' = file
      /\ part' = [part EXCEPT ![n][g] = NoFile]
    BY DEF DropPart
<1>3. s \in WorkerRecord /\ n \in Node /\ g \in Forms
    BY <1>1, WorkerFacts
<1>4. ~IsLeaf(n) /\ s.term = 6 /\ JoinFiles(s, file[n][g], part[n][g])
    <2>1. ~IsLeaf(n) /\ JoinMemory(s) /\ JoinFiles(s, file[n][g], part[n][g])
        BY <1>1, JoinFacts, Zenon
    <2> QED BY <1>1, <2>1, Zenon DEF JoinMemory
<1>5. /\ r \in WorkerRecord /\ r.node = n /\ r.form = g /\ r.at = "close"
      /\ r.term = 6
    <2>1. "close" \in Steps
        BY DEF Steps
    <2> QED BY <1>3, <1>4, <2>1 DEF WorkerRecord
<1> HIDE DEF r
<1>6. ~Deleting(s) /\ ~Deleting(r) /\ s.at # "open"
    BY <1>1, <1>5, Zenon DEF Deleting
<1>7. /\ FilesInv' /\ part'[n][g] = NoFile
      /\ \A m \in Node : m # n => file'[m] = file[m] /\ part'[m] = part[m]
    <2>1. ~IsWhole(file[n][g])
        BY <1>1, <1>3, <1>6, NotYetWhole
    <2>2. NoFile \in Part \cup {NoFile}
        OBVIOUS
    <2> HIDE DEF n, g
    <2> QED BY <1>2, <1>3, <1>4, <2>1, <2>2, WritePart
<1>8. JoinMemory(r)
    BY <1>5, Zenon DEF JoinMemory
<1>9. JoinFiles(r, file[n][g], NoFile)
    <2>1. r.term # 3 /\ r.term \notin {4, 5}
        BY <1>5
    <2> QED BY <1>4, <1>5, <1>6, <2>1, Zenon DEF JoinFiles
<1>10. WorkerOK(r, file'[r.node][r.form], part'[r.node][r.form])
    BY <1>2, <1>4, <1>5, <1>7, <1>8, <1>9 DEF WorkerOK
<1>11. r.at # "idle" /\ n = w[j].node
    BY <1>5, Zenon
<1> QED BY <1>1, <1>2, <1>3, <1>5, <1>7, <1>10, <1>11, OwnFiles, OneWorker

\* A file is complete once it holds P, Q and R and its checkpoint is gone.
LEMMA CloseStep ==
    ASSUME JInv, NEW j \in Worker, Close(j)
    PROVE  WorkersInv' /\ FilesInv'
<1> DEFINE s == w[j]
           n == s.node
           g == s.form
           f == [file[n][g] EXCEPT !.magic = TRUE]
           r == [s EXCEPT !.at = "delete left"]
<1>1. j \in Busy /\ s.at = "close"
    BY DEF Close, Busy
<1>2. /\ w' = [w EXCEPT ![j] = r] /\ part' = part
      /\ file' = [file EXCEPT ![n][g] = f]
    BY DEF Close
<1>3. /\ s \in WorkerRecord /\ n \in Node /\ g \in Forms
      /\ file[n][g] \in File \cup {NoFile}
    BY <1>1, WorkerFacts
<1>4. ~IsLeaf(n) /\ s.term = 6 /\ JoinFiles(s, file[n][g], part[n][g])
    <2>1. ~IsLeaf(n) /\ JoinMemory(s) /\ JoinFiles(s, file[n][g], part[n][g])
        BY <1>1, JoinFacts, Zenon
    <2> QED BY <1>1, <2>1, Zenon DEF JoinMemory
<1>5. /\ file[n][g] \in File /\ file[n][g].body = First(Committed(s.term))
      /\ g = "sig" => n \in Span
      /\ part[n][g] = NoFile
    <2>1. s.at # "open"
        BY <1>1
    <2> QED BY <1>1, <1>3, <1>4, <2>1, Zenon DEF JoinFiles
<1>6. f = [body |-> Numbers, magic |-> TRUE]
    <2>1. First(Committed(s.term)) = Numbers
        BY <1>4, FirstFacts DEF Committed
    <2> DEFINE old == file[n][g]
    <2>2. f = [old EXCEPT !.magic = TRUE] /\ old \in File /\ old.body = Numbers
        BY <1>5, <2>1
    <2> HIDE DEF old, f
    <2> QED BY <2>2 DEF File
<1>7. f \in File \cup {NoFile} /\ f.body = Numbers /\ f # NoFile /\ f.magic
    BY <1>6, FileFacts
<1>8. /\ r \in WorkerRecord /\ r.node = n /\ r.form = g /\ r.at = "delete left"
      /\ r.term = s.term
    <2>1. "delete left" \in Steps
        BY DEF Steps
    <2> QED BY <1>3, <2>1 DEF WorkerRecord
<1> HIDE DEF f, r
<1>9. ~Deleting(s) /\ Deleting(r) /\ s.at # "open" /\ r.at # "close"
    BY <1>1, <1>8, Zenon DEF Deleting
<1>10. /\ FilesInv' /\ file'[n][g] = f
       /\ \A m \in Node : m # n => file'[m] = file[m] /\ part'[m] = part[m]
    <2>1. \A h \in Forms : ~IsWhole(file[n][h])
        BY <1>1, <1>9, NotYetWhole
    <2>2. g = "sig" => n \in Span
        BY <1>5
    <2>3. part[n][g] = NoFile
        BY <1>5
    <2> HIDE DEF n, g, s
    <2> QED BY <1>2, <1>3, <1>7, <2>1, <2>2, <2>3, WriteFile
<1>11. JoinMemory(r)
    BY <1>4, <1>8, Zenon DEF JoinMemory
<1>12. JoinFiles(r, f, part[n][g])
    <2>1. f.body = First(Committed(r.term))
        <3>1. Committed(r.term) = 3
            <4>1. Committed(6) = 3
                BY DEF Committed
            <4>2. r.term = 6
                BY <1>4, <1>8, Zenon
            <4> QED BY <4>1, <4>2
        <3> QED BY <1>7, <3>1, FirstFacts
    <2> QED BY <1>4, <1>5, <1>7, <1>8, <1>9, <2>1, Zenon DEF JoinFiles
<1>13. WorkerOK(r, file'[r.node][r.form], part'[r.node][r.form])
    BY <1>2, <1>4, <1>8, <1>10, <1>11, <1>12 DEF WorkerOK
<1>14. r.at # "idle" /\ n = w[j].node
    BY <1>8
<1> QED BY <1>1, <1>2, <1>3, <1>8, <1>10, <1>13, <1>14, OwnFiles, OneWorker

\* What is left of a child's files: as they were, or gone.
Gone(c) ==
    /\ c \in Node
    /\ \A m \in Node : m # c => file'[m] = file[m]
    /\ \A m \in Node, h \in Forms :
        file'[m][h] = file[m][h] \/ (m = c /\ file'[m][h] = NoFile)

LEMMA DeletedFacts ==
    ASSUME JInv, part' = part
    PROVE  \A n \in Node : \A c \in Kids(n) : \A g \in Forms :
             file' = [file EXCEPT ![c] = Deleted(c, g)] =>
               FilesInv' /\ Gone(c)
<1> SUFFICES ASSUME NEW n \in Node, NEW c \in Kids(n), NEW g \in Forms,
                    file' = [file EXCEPT ![c] = Deleted(c, g)]
             PROVE  FilesInv' /\ Gone(c)
    OBVIOUS
<1>1. c \in Node
    BY KidFacts
<1> DEFINE d == Deleted(c, g)
<1>2. file \in [Node -> [Forms -> File \cup {NoFile}]]
    BY DEF JInv, FilesInv, FilesTyped
<1>3. /\ file[c]["sig"] \in File \cup {NoFile} /\ file[c]["union"] \in File \cup {NoFile}
      /\ NoFile \in File \cup {NoFile}
    BY <1>1, <1>2 DEF Forms
<1>4. /\ d \in [Forms -> File \cup {NoFile}]
      /\ d["sig"] \in {file[c]["sig"], NoFile}
      /\ d["union"] \in {file[c]["union"], NoFile}
    <2> DEFINE a == IF c \in Span /\ (g = "sig" \/ ~KeepPieces) THEN NoFile
                    ELSE file[c]["sig"]
               b == IF g = "union" THEN NoFile ELSE file[c]["union"]
    <2>1. d = [sig |-> a, union |-> b]
        BY DEF Deleted
    <2>2. a \in {file[c]["sig"], NoFile} /\ b \in {file[c]["union"], NoFile}
        OBVIOUS
    <2> HIDE DEF a, b, d
    <2>3. a \in File \cup {NoFile} /\ b \in File \cup {NoFile}
        BY <1>3, <2>2
    <2> QED BY <2>1, <2>2, <2>3 DEF Forms
<1> HIDE DEF d
<1>5. /\ file' \in [Node -> [Forms -> File \cup {NoFile}]] /\ file'[c] = d
      /\ \A m \in Node : m # c => file'[m] = file[m]
    <2>1. file' = [file EXCEPT ![c] = d]
        BY DEF d
    <2> QED BY <1>1, <1>2, <1>4, <2>1
<1>6. \A m \in Node, h \in Forms :
            file'[m][h] = file[m][h] \/ (m = c /\ file'[m][h] = NoFile)
    BY <1>4, <1>5 DEF Forms
<1>7. \A m \in Node, h \in Forms : IsWhole(file'[m][h]) => file'[m][h] = file[m][h]
    BY <1>6, PartFacts
<1>8. FilesTyped' /\ FilesPlaced'
    BY <1>5, <1>6 DEF JInv, FilesInv, FilesTyped, FilesPlaced, Forms
<1>9. CompleteIsWhole' /\ OneForm'
    BY <1>7 DEF JInv, FilesInv, CompleteIsWhole, OneForm, Forms
<1> QED BY <1>1, <1>5, <1>6, <1>8, <1>9 DEF FilesInv, Gone

\* Who deletes is done with his own files, and nobody works on what he deletes.
LEMMA DeletingFacts ==
    ASSUME JInv, NEW j \in Busy, Deleting(w[j])
    PROVE  /\ w[j].node \in Node /\ ~IsLeaf(w[j].node) /\ w[j].form \in Forms
           /\ \A e \in {0, 1} : Append(w[j].node, e) \in Kids(w[j].node)
           /\ IsWhole(file[w[j].node][w[j].form])
           /\ IsStored(w[j].node)
<1> DEFINE s == w[j]
           n == s.node
<1>1. s.at \notin {"create", "write", "open"}
    BY Zenon DEF Deleting
<1>2. n \in Node /\ s.form \in Forms
    BY WorkerFacts
<1>3. ~IsLeaf(n) /\ JoinFiles(s, file[n][s.form], part[n][s.form])
    BY <1>1, JoinFacts, Zenon
<1>4. IsWhole(file[n][s.form]) /\ (s.form = "sig" => n \in Span)
    BY <1>1, <1>3, Zenon DEF JoinFiles, IsWhole
<1>5. IsStored(n)
    BY <1>2, <1>4 DEF IsStored, SigIsStored, Forms
<1>6. \A e \in {0, 1} : Append(n, e) \in Kids(n)
    BY <1>2, <1>3, BothKids
<1> QED BY <1>2, <1>3, <1>4, <1>5, <1>6

LEMMA DeleteStep ==
    ASSUME JInv, NEW j \in Worker, DeleteLeft(j) \/ DeleteRight(j)
    PROVE  WorkersInv' /\ FilesInv'
<1> DEFINE s == w[j]
           n == s.node
           g == s.form
<1>1. Deleting(s) /\ j \in Busy
    BY Zenon DEF DeleteLeft, DeleteRight, Delete, Deleting, Busy
<1>2. PICK e \in {0, 1} :
            file' = [file EXCEPT ![Append(n, e)] = Deleted(Append(n, e), g)]
    BY DEF DeleteLeft, DeleteRight, Delete
<1> DEFINE c == Append(n, e)
<1>3. n \in Node /\ g \in Forms /\ c \in Kids(n) /\ ~IsLeaf(n) /\ s \in WorkerRecord
    BY <1>1, DeletingFacts, WorkerFacts
<1>4. part' = part
    BY DEF DeleteLeft, DeleteRight, Delete
<1>5. /\ FilesInv' /\ c \in Node
      /\ \A m \in Node : m # c => file'[m] = file[m]
    <2>1. file' = [file EXCEPT ![c] = Deleted(c, g)]
        BY <1>2
    <2> HIDE DEF c, n, g
    <2> QED BY <1>3, <1>4, <2>1, DeletedFacts DEF Gone
<1>6. \A i \in Busy \ {j} : /\ file'[w[i].node] = file[w[i].node]
                            /\ part'[w[i].node] = part[w[i].node]
    BY <1>1, <1>3, <1>4, <1>5, OthersElsewhere, WorkerFacts
<1>7. CASE DeleteRight(j)
    <2>1. w' = [w EXCEPT ![j] = Idle]
        BY <1>7 DEF DeleteRight, Delete
    <2> QED BY <1>5, <1>6, <2>1, IdleTyped, OneWorker
<1>8. CASE DeleteLeft(j)
    <2> DEFINE r == [s EXCEPT !.at = "delete right"]
    <2>1. w' = [w EXCEPT ![j] = r] /\ s.at = "delete left"
        BY <1>8 DEF DeleteLeft, Delete
    <2>2. /\ r \in WorkerRecord /\ r.node = n /\ r.form = g
          /\ r.at = "delete right" /\ r.term = s.term
        <3>1. "delete right" \in Steps
            BY DEF Steps
        <3> QED BY <1>3, <3>1 DEF WorkerRecord
    <2> HIDE DEF r
    <2>3. JoinMemory(s) /\ JoinFiles(s, file[n][g], part[n][g])
        <3>1. s.at \notin {"create", "write"}
            BY <2>1, Zenon
        <3> QED BY <1>1, <3>1, JoinFacts, Zenon
    <2>4. JoinMemory(r)
        <3>1. s.term = 6
            BY <2>1, <2>3, Zenon DEF JoinMemory
        <3> QED BY <2>2, <3>1, Zenon DEF JoinMemory
    <2>5. Deleting(r) /\ s.at # "open" /\ r.at # "close"
        BY <2>1, <2>2, Zenon DEF Deleting
    <2>6. JoinFiles(r, file[n][g], part[n][g])
        BY <1>1, <2>2, <2>3, <2>5, Zenon DEF JoinFiles
    <2>7. n # c
        BY <1>3, KidFacts
    <2>8. file'[n] = file[n]
        BY <1>3, <1>5, <2>7
    <2>9. WorkerOK(r, file'[r.node][r.form], part'[r.node][r.form])
        BY <1>3, <1>4, <2>2, <2>4, <2>6, <2>8 DEF WorkerOK
    <2>10. r.at # "idle" /\ r.node \in Node
        BY <1>3, <2>2
    <2> QED BY <1>5, <1>6, <2>1, <2>2, <2>9, <2>10, OneWorker
<1> QED BY <1>7, <1>8

\* A worker that dies, and the end of the whole program, leave the files.
LEMMA DieStep ==
    ASSUME JInv, NEW j \in Worker, Die(j)
    PROVE  WorkersInv' /\ FilesInv'
<1>1. w' = [w EXCEPT ![j] = Idle] /\ UNCHANGED <<file, part>>
    BY DEF Die
<1> QED BY <1>1, IdleTyped, OneWorker, SameFiles

LEMMA CrashStep ==
    ASSUME JInv, Crash
    PROVE  WorkersInv' /\ FilesInv'
<1>1. w' = [j \in Worker |-> Idle] /\ UNCHANGED <<file, part>>
    BY DEF Crash
<1>2. Busy' = {}
    BY <1>1, IdleTyped DEF Busy
<1>3. WorkersInv'
    BY <1>1, <1>2, IdleTyped DEF WorkersInv, WorkersTyped, WorkersOK
<1> QED BY <1>1, <1>3, SameFiles

LEMMA FilesKept ==
    ASSUME JInv, [Next]_vars
    PROVE  WorkersInv' /\ FilesInv'
<1>1. CASE UNCHANGED vars \/ Done \/ Restart
    <2>1. UNCHANGED <<file, part, w>>
        BY <1>1 DEF vars, Done, Restart
    <2>2. WorkersInv'
        BY <2>1 DEF JInv, WorkersInv, WorkersTyped, WorkersOK, Busy
    <2> QED BY <2>1, <2>2, SameFiles
<1>2. CASE \E j \in Worker, n \in Node : Start(j, n)
    BY <1>2, StartStep
<1>3. CASE \E j \in Worker : WorkerStep(j) \/ Die(j)
    BY <1>3, OpenStep, AcquireStep, LoadStep, MultiplyStep, WriteStep, CreateStep,
       PieceStep, PartStep, DropStep, CloseStep, DeleteStep, DieStep
       DEF WorkerStep
<1> QED BY <1>1, <1>2, <1>3, CrashStep DEF Next

-----------------------------------------------------------------------------
(* The disk lock.                                                          *)

LEMMA OneLock ==
    ASSUME JInv, NEW j \in Worker, NEW r, w' = [w EXCEPT ![j] = r],
           lock' \in Worker \cup {NoWorker}, LockOK(r, lock' = j),
           \A i \in Worker \ {j} : lock' = i <=> lock = i,
           UNCHANGED <<down, failures>>
    PROVE  LocksInv'
<1>1. w'[j] = r /\ \A i \in Worker \ {j} : w'[i] = w[i]
    BY DEF JInv, WorkersInv, WorkersTyped
<1>2. RestTyped'
    BY DEF JInv, LocksInv, RestTyped
<1>3. ASSUME NEW i \in Worker PROVE LockOK(w'[i], lock' = i)
    <2>1. CASE i = j
        BY <2>1, <1>1
    <2>2. CASE i # j
        <3>1. LockOK(w[i], lock = i)
            BY DEF JInv, LocksInv, LocksAgree
        <3> QED BY <3>1, <2>2, <1>1 DEF LockOK
    <2> QED BY <2>1, <2>2
<1> QED BY <1>2, <1>3 DEF LocksInv, LocksAgree

\* What a worker knows of the lock at the steps that pass it on.
LEMMA LockFacts ==
    ASSUME JInv, NEW j \in Worker
    PROVE  /\ w[j] \in WorkerRecord /\ LockOK(w[j], lock = j)
           /\ lock \in Worker \cup {NoWorker} /\ NoWorker \notin Worker
BY OthersAssumption
   DEF JInv, WorkersInv, WorkersTyped, LocksInv, LocksAgree, RestTyped

LEMMA GoToKeeps ==
    ASSUME NEW self \in WorkerRecord, NEW term, NEW f, NEW p
    PROVE  /\ GoTo(self, term, f, p).lock_held = self.lock_held
           /\ GoTo(self, term, f, p).at \in {"load", "drop"}
           /\ GoTo(self, term, f, p).node = self.node
<1> DEFINE next == NextTerm(term, Len(f.body), IsWhole(p))
           at == IF next = 6 THEN "drop" ELSE "load"
<1>1. GoTo(self, term, f, p) = [self EXCEPT !.term = next, !.at = at]
    BY DEF GoTo
<1>2. at \in {"load", "drop"}
    OBVIOUS
<1> HIDE DEF next, at
<1> QED BY <1>1, <1>2 DEF WorkerRecord

\* A step that leaves the lock as it is.
LEMMA KeepLock ==
    ASSUME JInv, NEW j \in Worker, NEW r, w' = [w EXCEPT ![j] = r],
           UNCHANGED <<lock, down, failures>>, LockOK(r, w[j].lock_held)
    PROVE  LocksInv'
<1>1. lock' \in Worker \cup {NoWorker} /\ (w[j].lock_held <=> lock = j)
    BY LockFacts DEF LockOK
<1>2. LockOK(r, lock' = j)
    BY <1>1 DEF LockOK
<1> QED BY <1>1, <1>2, OneLock

LEMMA LocksKept ==
    ASSUME JInv, [Next]_vars
    PROVE  LocksInv'
<1>1. CASE UNCHANGED vars \/ Done \/ Restart
    BY <1>1 DEF vars, Done, Restart, JInv, LocksInv, RestTyped, LocksAgree, LockOK
<1>2. CASE Crash
    <2>1. /\ w' = [j \in Worker |-> Idle] /\ lock' = NoWorker /\ down' = TRUE
          /\ failures' = failures + 1 /\ failures < MaxFailures
        BY <1>2 DEF Crash
    <2>2. RestTyped'
        BY <2>1, OthersAssumption DEF JInv, LocksInv, RestTyped
    <2>3. ~Idle.lock_held /\ Idle.at = "idle"
        BY DEF Idle
    <2>4. LockOK(Idle, FALSE)
        BY <2>3, Zenon DEF LockOK
    <2>5. LocksAgree'
        BY <2>1, <2>4, OthersAssumption DEF LocksAgree, LockOK
    <2> QED BY <2>2, <2>5 DEF LocksInv
<1>3. ASSUME NEW j \in Worker, NEW n \in Node, Start(j, n) PROVE LocksInv'
    <2> DEFINE r == [Idle EXCEPT !.node = n, !.at = IF IsLeaf(n) THEN "create"
                                                    ELSE "open"]
    <2>1. /\ w' = [w EXCEPT ![j] = r] /\ UNCHANGED <<lock, down, failures>>
          /\ w[j].at = "idle"
        BY <1>3 DEF Start
    <2>2. ~r.lock_held /\ r.at \in {"create", "open"}
        BY DEF Idle
    <2> HIDE DEF r
    <2>3. ~w[j].lock_held
        BY <2>1, LockFacts, Zenon DEF LockOK
    <2>4. LockOK(r, w[j].lock_held)
        BY <2>2, <2>3, Zenon DEF LockOK
    <2> QED BY <2>1, <2>4, KeepLock
<1>4. ASSUME NEW j \in Worker, WorkerStep(j) PROVE LocksInv'
    <2> DEFINE s == w[j]
    <2>1. s \in WorkerRecord /\ LockOK(s, lock = j)
        BY LockFacts
    <2>2. CASE Open(j)
        <3> DEFINE form == JoinForm(s.node)
                   t == [s EXCEPT !.form = form]
                   f == IF file[s.node][form] = NoFile THEN Empty
                        ELSE file[s.node][form]
                   r == GoTo(t, 1, f, part[s.node][form])
        <3>1. /\ w' = [w EXCEPT ![j] = r] /\ UNCHANGED <<lock, down, failures>>
              /\ s.at = "open"
            <4>1. j \in DOMAIN w
                BY DEF JInv, WorkersInv, WorkersTyped
            <4> QED BY <4>1, <2>2 DEF Open
        <3>2. t \in WorkerRecord /\ t.lock_held = s.lock_held
            <4>1. form \in Forms
                BY DEF JoinForm, Forms
            <4> HIDE DEF form
            <4> QED BY <4>1, <2>1 DEF WorkerRecord
        <3> HIDE DEF t, f
        <3>3. r.lock_held = s.lock_held /\ r.at \in {"load", "drop"}
            BY <3>2, GoToKeeps
        <3> HIDE DEF r
        <3>4. LockOK(r, s.lock_held)
            BY <2>1, <3>1, <3>3, Zenon DEF LockOK
        <3> QED BY <3>1, <3>4, KeepLock
    <2>3. CASE Acquire(j)
        <3> DEFINE r == [s EXCEPT !.lock_held = TRUE]
        <3>1. /\ w' = [w EXCEPT ![j] = r] /\ lock' = j /\ lock = NoWorker
              /\ UNCHANGED <<down, failures>> /\ s.at \in {"create", "load", "write"}
            BY <2>3 DEF Acquire
        <3>2. r.lock_held /\ r.at = s.at
            BY <2>1 DEF WorkerRecord
        <3> HIDE DEF r
        <3>3. LockOK(r, lock' = j)
            BY <3>1, <3>2, Zenon DEF LockOK
        <3>4. \A i \in Worker \ {j} : lock' = i <=> lock = i
            BY <3>1, LockFacts
        <3> QED BY <3>1, <3>3, <3>4, OneLock
    <2>4. CASE LoadPair(j)
        <3>1. PICK x, y : w' = [w EXCEPT ![j] = [s EXCEPT !.x = x, !.y = y,
                                                    !.at = "mul", !.lock_held = FALSE]]
            BY <2>4 DEF LoadPair
        <3> DEFINE r == [s EXCEPT !.x = x, !.y = y, !.at = "mul", !.lock_held = FALSE]
        <3>2. s.lock_held /\ lock' = NoWorker /\ UNCHANGED <<down, failures>>
            BY <2>4 DEF LoadPair
        <3>3. ~r.lock_held /\ r.at = "mul"
            BY <2>1 DEF WorkerRecord
        <3> HIDE DEF r
        <3>4. LockOK(r, lock' = j)
            BY <3>2, <3>3, LockFacts, Zenon DEF LockOK
        <3>5. \A i \in Worker \ {j} : lock' = i <=> lock = i
            <4>1. lock = j
                BY <2>1, <3>2, Zenon DEF LockOK
            <4> QED BY <3>2, <4>1, OthersAssumption
        <3>6. w' = [w EXCEPT ![j] = r] /\ lock' \in Worker \cup {NoWorker}
            BY <3>1, <3>2 DEF r
        <3> QED BY <3>2, <3>4, <3>5, <3>6, OneLock
    <2>5. CASE Multiply(j)
        <3> DEFINE made == [s EXCEPT !.x = Combine(@, s.y), !.y = "none"]
                   at == IF s.term = 3 THEN "create" ELSE "write"
                   r == IF s.term = 4 THEN [made EXCEPT !.term = 5, !.at = "load"]
                        ELSE [made EXCEPT !.at = at]
        <3>1. /\ w' = [w EXCEPT ![j] = r] /\ UNCHANGED <<lock, down, failures>>
              /\ s.at = "mul"
            BY <2>5 DEF Multiply
        <3>2. /\ made.lock_held = s.lock_held /\ made.term = s.term
              /\ DOMAIN made = DOMAIN s
            BY <2>1 DEF WorkerRecord
        <3> HIDE DEF made
        <3>3. /\ r.lock_held = s.lock_held
              /\ \/ r.at \in {"load", "create"}
                 \/ r.at = "write" /\ r.term = s.term /\ s.term # 3
            BY <2>1, <3>2 DEF WorkerRecord
        <3> HIDE DEF r
        <3>4. j \in Busy /\ s.term # 0
            <4>1. j \in Busy
                BY <3>1 DEF Busy
            <4>2. JoinMemory(s)
                BY <3>1, <4>1, JoinFacts, Zenon
            <4>3. s.term \in 1 .. 5
                BY <3>1, <4>2, Zenon DEF JoinMemory
            <4> QED BY <4>1, <4>3
        <3>5. r.at = "write" => r.term \notin {0, 3}
            <4>1. r.at \in {"load", "create"} => r.at # "write"
                OBVIOUS
            <4> QED BY <3>3, <3>4, <4>1, Zenon
        <3>6. LockOK(r, s.lock_held)
            BY <2>1, <3>1, <3>3, <3>5, Zenon DEF LockOK
        <3> QED BY <3>1, <3>6, KeepLock
    <2>6. CASE WriteNumber(j)
        <3> DEFINE n == s.node
                   f == [file[n][s.form] EXCEPT !.body = Append(@, s.x)]
                   held == s.term < 5
                   self == [s EXCEPT !.x = "none", !.lock_held = held]
                   r == GoTo(self, s.term + 1, f, part[n][s.form])
        <3>1. /\ w' = [w EXCEPT ![j] = r] /\ s.lock_held
              /\ lock' = (IF s.term = 5 THEN NoWorker ELSE lock)
              /\ UNCHANGED <<down, failures>> /\ s.term \in {1, 2, 5}
            BY <2>6, Zenon DEF WriteNumber
        <3>2. held \in BOOLEAN /\ (held <=> s.term # 5)
            BY <3>1
        <3> HIDE DEF held
        <3>3. self \in WorkerRecord /\ self.lock_held = held
            <4>1. "none" \in Values
                BY DEF Values
            <4> QED BY <2>1, <3>2, <4>1 DEF WorkerRecord
        <3> HIDE DEF self, f
        <3>4. r.lock_held = held /\ r.at \in {"load", "drop"}
            BY <3>3, GoToKeeps
        <3>5. s.term # 5 => r.at = "load"
            BY <2>6, <3>1, WriteStep DEF JInv, WorkersInv, WorkersTyped
        <3> HIDE DEF r
        <3>6. lock' = j <=> s.term # 5
            BY <2>1, <3>1, LockFacts DEF LockOK
        <3>7. LockOK(r, lock' = j)
            BY <3>2, <3>4, <3>5, <3>6, Zenon DEF LockOK
        <3>8. \A i \in Worker \ {j} : lock' = i <=> lock = i
            BY <2>1, <3>1, LockFacts DEF LockOK
        <3>9. lock' \in Worker \cup {NoWorker}
            BY <3>1, LockFacts
        <3> QED BY <3>1, <3>7, <3>8, <3>9, OneLock, Zenon
    <2>7. CASE Create(j) \/ DropPart(j) \/ Close(j) \/ DeleteLeft(j)
        <3>1. PICK at \in {"write", "close", "delete left", "delete right"} :
                /\ w' = [w EXCEPT ![j] = [s EXCEPT !.at = at]]
                /\ \/ at = "write" /\ s.lock_held
                   \/ at # "write" /\ s.at \in {"drop", "close", "delete left"}
            BY <2>7 DEF Create, DropPart, Close, DeleteLeft, Delete
        <3>2. UNCHANGED <<lock, down, failures>>
            BY <2>7 DEF Create, DropPart, Close, DeleteLeft, Delete
        <3> DEFINE r == [s EXCEPT !.at = at]
        <3>3. r.lock_held = s.lock_held /\ r.at = at
            BY <2>1 DEF WorkerRecord
        <3>4. w' = [w EXCEPT ![j] = r]
            BY <3>1
        <3> HIDE DEF r
        <3>5. LockOK(r, s.lock_held)
            BY <2>1, <3>1, <3>3, Zenon DEF LockOK
        <3> QED BY <3>2, <3>4, <3>5, KeepLock
    <2>8. CASE SavePart(j)
        <3> DEFINE r == [s EXCEPT !.x = "none", !.term = 4, !.at = "load"]
        <3>1. /\ w' = [w EXCEPT ![j] = r] /\ UNCHANGED <<lock, down, failures>>
            BY <2>8 DEF SavePart
        <3>2. r.lock_held = s.lock_held /\ r.at = "load"
            BY <2>1 DEF WorkerRecord
        <3> HIDE DEF r
        <3>3. LockOK(r, s.lock_held)
            BY <3>2, Zenon DEF LockOK
        <3> QED BY <3>1, <3>3, KeepLock
    <2>9. CASE SavePiece(j)
        <3>1. /\ w' = [w EXCEPT ![j] = Idle] /\ lock' = NoWorker
              /\ UNCHANGED <<down, failures>> /\ s.at = "write" /\ IsLeaf(s.node)
            BY <2>9 DEF SavePiece
        <3>2. s.lock_held
            <4>1. j \in Busy
                BY <3>1 DEF Busy
            <4>2. s.term = 0
                BY <3>1, <4>1, WorkerFacts DEF WorkerOK, LeafWorker
            <4> QED BY <2>1, <3>1, <4>2, Zenon DEF LockOK
        <3>3. \A i \in Worker \ {j} : lock' = i <=> lock = i
            BY <2>1, <3>1, <3>2, LockFacts DEF LockOK
        <3>4. LockOK(Idle, lock' = j)
            <4>1. ~Idle.lock_held /\ Idle.at = "idle" /\ lock' # j
                BY <3>1, LockFacts DEF Idle
            <4> QED BY <4>1, Zenon DEF LockOK
        <3> QED BY <3>1, <3>3, <3>4, LockFacts, OneLock
    <2>10. CASE DeleteRight(j)
        <3>1. /\ w' = [w EXCEPT ![j] = Idle] /\ UNCHANGED <<lock, down, failures>>
              /\ s.at = "delete right"
            BY <2>10 DEF DeleteRight, Delete
        <3>2. ~s.lock_held
            BY <2>1, <3>1, Zenon DEF LockOK
        <3>3. ~Idle.lock_held /\ Idle.at = "idle"
            BY DEF Idle
        <3>4. LockOK(Idle, s.lock_held)
            BY <3>2, <3>3, Zenon DEF LockOK
        <3> QED BY <3>1, <3>4, KeepLock
    <2> QED BY <1>4, <2>2, <2>3, <2>4, <2>5, <2>6, <2>7, <2>8, <2>9, <2>10
            DEF WorkerStep
<1>5. ASSUME NEW j \in Worker, Die(j) PROVE LocksInv'
    <2>1. /\ w' = [w EXCEPT ![j] = Idle]
          /\ lock' = (IF lock = j THEN NoWorker ELSE lock)
          /\ down' = TRUE /\ failures' = failures + 1 /\ failures < MaxFailures
        BY <1>5 DEF Die
    <2>2. RestTyped'
        BY <2>1, OthersAssumption DEF JInv, LocksInv, RestTyped
    <2>3. ~Idle.lock_held /\ Idle.at = "idle" /\ lock' # j
        BY <2>1, LockFacts DEF Idle
    <2>4. LockOK(Idle, FALSE)
        BY <2>3, Zenon DEF LockOK
    <2>5. ASSUME NEW i \in Worker PROVE LockOK(w'[i], lock' = i)
        <3>1. CASE i = j
            <4>1. w'[i] = Idle
                BY <2>1, <3>1 DEF JInv, WorkersInv, WorkersTyped
            <4> QED BY <2>3, <2>4, <3>1, <4>1 DEF LockOK
        <3>2. CASE i # j
            <4>1. w'[i] = w[i] /\ (lock' = i <=> lock = i)
                BY <2>1, <3>2, OthersAssumption DEF JInv, WorkersInv, WorkersTyped
            <4>2. LockOK(w[i], lock = i)
                BY DEF JInv, LocksInv, LocksAgree
            <4> QED BY <4>1, <4>2 DEF LockOK
        <3> QED BY <3>1, <3>2
    <2> QED BY <2>2, <2>5 DEF LocksInv, LocksAgree
<1> QED BY <1>1, <1>2, <1>3, <1>4, <1>5 DEF Next

-----------------------------------------------------------------------------
(* The cache of results: who adds to it, who takes from it.                *)

\* A busy worker stays on its node until it is done, and once it deletes its
\* inputs it only goes on deleting.
Onward(i) ==
    /\ i \in Busy
    /\ w'[i].node = w[i].node
    /\ Deleting(w[i]) => Deleting(w'[i])

LEMMA OneMoves ==
    ASSUME JInv, NEW j \in Worker, NEW r, w' = [w EXCEPT ![j] = r],
           r.at # "idle" => /\ j \in Busy /\ r.node = w[j].node
                            /\ Deleting(w[j]) => Deleting(r)
    PROVE  \A i \in Busy' : Onward(i)
<1>1. w'[j] = r /\ \A i \in Worker \ {j} : w'[i] = w[i]
    BY DEF JInv, WorkersInv, WorkersTyped
<1> QED BY <1>1 DEF Onward, Busy

LEMMA StepMoves ==
    ASSUME JInv, NEW j \in Worker, WorkerStep(j)
    PROVE  \A i \in Busy' : Onward(i)
<1> DEFINE s == w[j]
<1>1. s \in WorkerRecord
    BY LockFacts
<1>2. CASE Open(j)
    <2> DEFINE form == JoinForm(s.node)
               t == [s EXCEPT !.form = form]
               f == IF file[s.node][form] = NoFile THEN Empty
                    ELSE file[s.node][form]
               r == GoTo(t, 1, f, part[s.node][form])
    <2>1. w' = [w EXCEPT ![j] = r] /\ s.at = "open"
        <3>1. j \in DOMAIN w
            BY DEF JInv, WorkersInv, WorkersTyped
        <3> QED BY <3>1, <1>2 DEF Open
    <2>2. t \in WorkerRecord /\ t.node = s.node
        <3>1. form \in Forms
            BY DEF JoinForm, Forms
        <3> HIDE DEF form
        <3> QED BY <3>1, <1>1 DEF WorkerRecord
    <2> HIDE DEF t, f
    <2>3. r.node = s.node
        BY <2>2, GoToKeeps
    <2>4. ~Deleting(s) /\ j \in Busy
        BY <2>1, Zenon DEF Deleting, Busy
    <2> HIDE DEF r
    <2> QED BY <2>1, <2>3, <2>4, OneMoves
<1>3. CASE WriteNumber(j)
    <2> DEFINE n == s.node
               f == [file[n][s.form] EXCEPT !.body = Append(@, s.x)]
               held == s.term < 5
               self == [s EXCEPT !.x = "none", !.lock_held = held]
               r == GoTo(self, s.term + 1, f, part[n][s.form])
    <2>1. w' = [w EXCEPT ![j] = r] /\ s.at = "write" /\ s.term \in {1, 2, 5}
        BY <1>3, Zenon DEF WriteNumber
    <2>2. held \in BOOLEAN
        BY <2>1
    <2> HIDE DEF held
    <2>3. self \in WorkerRecord /\ self.node = n
        <3>1. "none" \in Values
            BY DEF Values
        <3> QED BY <1>1, <2>2, <3>1 DEF WorkerRecord
    <2> HIDE DEF self, f
    <2>4. r.node = n
        BY <2>3, GoToKeeps
    <2>5. ~Deleting(s) /\ j \in Busy
        BY <2>1, Zenon DEF Deleting, Busy
    <2> HIDE DEF r
    <2> QED BY <2>1, <2>4, <2>5, OneMoves, Zenon
<1>4. CASE Acquire(j)
    <2> DEFINE r == [s EXCEPT !.lock_held = TRUE]
    <2>1. w' = [w EXCEPT ![j] = r] /\ s.at \in {"create", "load", "write"}
        BY <1>4 DEF Acquire
    <2>2. r.node = s.node
        BY <1>1 DEF WorkerRecord
    <2> HIDE DEF r
    <2>3. ~Deleting(s) /\ j \in Busy
        BY <2>1, Zenon DEF Deleting, Busy
    <2> QED BY <2>1, <2>2, <2>3, OneMoves
<1>5. CASE LoadPair(j)
    <2>1. PICK x, y : w' = [w EXCEPT ![j] = [s EXCEPT !.x = x, !.y = y,
                                                !.at = "mul", !.lock_held = FALSE]]
        BY <1>5 DEF LoadPair
    <2> DEFINE r == [s EXCEPT !.x = x, !.y = y, !.at = "mul", !.lock_held = FALSE]
    <2>2. w' = [w EXCEPT ![j] = r] /\ s.at = "load"
        BY <1>5, <2>1 DEF LoadPair
    <2>3. r.node = s.node
        BY <1>1 DEF WorkerRecord
    <2> HIDE DEF r
    <2>4. ~Deleting(s) /\ j \in Busy
        BY <2>2, Zenon DEF Deleting, Busy
    <2> QED BY <2>2, <2>3, <2>4, OneMoves
<1>6. CASE Multiply(j)
    <2> DEFINE made == [s EXCEPT !.x = Combine(@, s.y), !.y = "none"]
               at == IF s.term = 3 THEN "create" ELSE "write"
               r == IF s.term = 4 THEN [made EXCEPT !.term = 5, !.at = "load"]
                    ELSE [made EXCEPT !.at = at]
    <2>1. w' = [w EXCEPT ![j] = r] /\ s.at = "mul"
        BY <1>6 DEF Multiply
    <2>2. made.node = s.node /\ DOMAIN made = DOMAIN s
        BY <1>1 DEF WorkerRecord
    <2> HIDE DEF made
    <2>3. r.node = s.node
        BY <1>1, <2>2 DEF WorkerRecord
    <2> HIDE DEF r
    <2>4. ~Deleting(s) /\ j \in Busy
        BY <2>1, Zenon DEF Deleting, Busy
    <2> QED BY <2>1, <2>3, <2>4, OneMoves
<1>7. CASE Create(j) \/ DropPart(j) \/ Close(j) \/ DeleteLeft(j)
    <2>1. PICK at \in {"write", "close", "delete left", "delete right"} :
            /\ w' = [w EXCEPT ![j] = [s EXCEPT !.at = at]]
            /\ s.at \in {"create", "drop", "close", "delete left"}
            /\ s.at = "delete left" => at = "delete right"
        BY <1>7, Zenon DEF Create, DropPart, Close, DeleteLeft, Delete
    <2> DEFINE r == [s EXCEPT !.at = at]
    <2>2. r.node = s.node /\ r.at = at /\ w' = [w EXCEPT ![j] = r]
        BY <1>1, <2>1 DEF WorkerRecord
    <2> HIDE DEF r
    <2>3. (Deleting(s) => Deleting(r)) /\ j \in Busy
        BY <2>1, <2>2, Zenon DEF Deleting, Busy
    <2> QED BY <2>2, <2>3, OneMoves
<1>8. CASE SavePart(j)
    <2> DEFINE r == [s EXCEPT !.x = "none", !.term = 4, !.at = "load"]
    <2>1. w' = [w EXCEPT ![j] = r] /\ s.at = "write"
        BY <1>8 DEF SavePart
    <2>2. r.node = s.node
        BY <1>1 DEF WorkerRecord
    <2> HIDE DEF r
    <2>3. ~Deleting(s) /\ j \in Busy
        BY <2>1, Zenon DEF Deleting, Busy
    <2> QED BY <2>1, <2>2, <2>3, OneMoves
<1>9. CASE SavePiece(j) \/ DeleteRight(j)
    <2>1. w' = [w EXCEPT ![j] = Idle]
        BY <1>9 DEF SavePiece, DeleteRight, Delete
    <2> QED BY <2>1, IdleTyped, OneMoves
<1> QED BY <1>2, <1>3, <1>4, <1>5, <1>6, <1>7, <1>8, <1>9 DEF WorkerStep

\* Every step but a start only moves workers on.
LEMMA Moves ==
    ASSUME JInv, [Next]_vars
    PROVE  \/ \A i \in Busy' : Onward(i)
           \/ \E j \in Worker, n \in Node : Start(j, n)
<1>1. CASE UNCHANGED vars \/ Done \/ Restart
    BY <1>1 DEF vars, Done, Restart, Onward, Busy
<1>2. CASE Crash
    BY <1>2, IdleTyped DEF Crash, Busy
<1>3. ASSUME NEW j \in Worker, Die(j) PROVE \A i \in Busy' : Onward(i)
    BY <1>3, IdleTyped, OneMoves DEF Die
<1> QED BY <1>1, <1>2, <1>3, StepMoves DEF Next

\* What a step may do to the cache: nothing; add the result of a worker that has
\* its inputs; take an input of a worker whose result is there.
Unmoved == \A m \in Node : IsStored(m)' <=> IsStored(m)

Adds(j) ==
    /\ ~Deleting(w[j])
    /\ j \in Busy' => Deleting(w'[j])
    /\ \A m \in Node : IsStored(m)' <=> (IsStored(m) \/ m = w[j].node)

Takes(j, c) ==
    /\ Deleting(w[j])
    /\ c \in Kids(w[j].node)
    /\ \A m \in Node : m # c => (IsStored(m)' <=> IsStored(m))
    /\ IsStored(c)' => IsStored(c)

LEMMA SameWholes ==
    ASSUME \A m \in Node, h \in Forms : IsWhole(file'[m][h]) <=> IsWhole(file[m][h])
    PROVE  Unmoved
BY DEF Unmoved, IsStored, SigIsStored, Forms

\* A file that was not complete is written, and is still not complete.
LEMMA PutUnmoved ==
    ASSUME JInv, NEW n \in Node, NEW g \in Forms, NEW f \in File \cup {NoFile},
           file' = [file EXCEPT ![n][g] = f], ~IsWhole(file[n][g]), ~IsWhole(f)
    PROVE  Unmoved
<1>1. /\ file'[n][g] = f
      /\ \A h \in Forms : h # g => file'[n][h] = file[n][h]
      /\ \A m \in Node : m # n => file'[m] = file[m]
    <2>1. file \in [Node -> [Forms -> File \cup {NoFile}]]
        BY DEF JInv, FilesInv, FilesTyped
    <2> QED BY <2>1, PutFile
<1>2. \A m \in Node, h \in Forms : IsWhole(file'[m][h]) <=> IsWhole(file[m][h])
    BY <1>1
<1> QED BY <1>2, SameWholes

\* A complete file appears.
LEMMA PutAdds ==
    ASSUME JInv, NEW n \in Node, NEW g \in Forms, NEW f \in File \cup {NoFile},
           file' = [file EXCEPT ![n][g] = f], IsWhole(f), g = "sig" => n \in Span
    PROVE  \A m \in Node : IsStored(m)' <=> (IsStored(m) \/ m = n)
<1>1. /\ file'[n][g] = f
      /\ \A h \in Forms : h # g => file'[n][h] = file[n][h]
      /\ \A m \in Node : m # n => file'[m] = file[m]
    <2>1. file \in [Node -> [Forms -> File \cup {NoFile}]]
        BY DEF JInv, FilesInv, FilesTyped
    <2> QED BY <2>1, PutFile
<1>2. IsStored(n)'
    BY <1>1 DEF IsStored, SigIsStored, Forms
<1>3. ASSUME NEW m \in Node, m # n PROVE IsStored(m)' <=> IsStored(m)
    BY <1>1, <1>3 DEF IsStored, SigIsStored
<1> QED BY <1>2, <1>3

LEMMA SaveAdds ==
    ASSUME JInv, NEW j \in Worker, SavePiece(j) \/ Close(j)
    PROVE  j \in Busy /\ Adds(j)
<1> DEFINE s == w[j]
           n == s.node
           g == s.form
<1>1. CASE SavePiece(j)
    <2> DEFINE f == [body |-> Numbers, magic |-> TRUE]
    <2>1. /\ file' = [file EXCEPT ![n]["sig"] = f] /\ w' = [w EXCEPT ![j] = Idle]
          /\ s.at = "write" /\ IsLeaf(n)
        BY <1>1 DEF SavePiece
    <2>2. j \in Busy /\ ~Deleting(s)
        BY <2>1, Zenon DEF Deleting, Busy
    <2>3. n \in Node /\ n \in Span /\ "sig" \in Forms
        BY <2>1, <2>2, WorkerFacts, SpanAssumption DEF Forms
    <2>4. f \in File \cup {NoFile} /\ IsWhole(f)
        BY FileFacts, PartFacts
    <2>5. \A m \in Node : IsStored(m)' <=> (IsStored(m) \/ m = n)
        <3> HIDE DEF n, f, s
        <3> QED BY <2>1, <2>3, <2>4, PutAdds
    <2>6. j \notin Busy'
        BY <2>1, IdleTyped DEF Busy, JInv, WorkersInv, WorkersTyped
    <2> QED BY <2>2, <2>5, <2>6 DEF Adds
<1>2. CASE Close(j)
    <2> DEFINE f == [file[n][g] EXCEPT !.magic = TRUE]
    <2>1. /\ file' = [file EXCEPT ![n][g] = f]
          /\ w' = [w EXCEPT ![j] = [s EXCEPT !.at = "delete left"]]
          /\ s.at = "close"
        BY <1>2 DEF Close
    <2>2. j \in Busy /\ ~Deleting(s)
        BY <2>1, Zenon DEF Deleting, Busy
    <2>3. /\ n \in Node /\ g \in Forms /\ s \in WorkerRecord
          /\ file[n][g] \in File \cup {NoFile}
        BY <2>2, WorkerFacts
    <2>4. file[n][g] # NoFile /\ (g = "sig" => n \in Span)
        BY <2>1, <2>2, JoinFacts, Zenon DEF JoinFiles
    <2>5. f \in File \cup {NoFile} /\ IsWhole(f)
        <3> DEFINE old == file[n][g]
        <3>1. f = [old EXCEPT !.magic = TRUE] /\ old \in File
            BY <2>3, <2>4
        <3> HIDE DEF old, f
        <3>2. f \in File /\ f.magic
            BY <3>1 DEF File
        <3> QED BY <3>2, FileFacts DEF IsWhole
    <2>6. \A m \in Node : IsStored(m)' <=> (IsStored(m) \/ m = n)
        <3>1. file' = [file EXCEPT ![n][g] = f] /\ n \in Node /\ g \in Forms
              /\ (g = "sig" => n \in Span)
            BY <2>1, <2>3, <2>4
        <3> HIDE DEF n, f, g, s
        <3> QED BY <3>1, <2>5, PutAdds
    <2>7. w'[j].at = "delete left"
        BY <2>1, <2>3 DEF JInv, WorkersInv, WorkersTyped, WorkerRecord
    <2> QED BY <2>2, <2>6, <2>7 DEF Adds, Deleting
<1> QED BY <1>1, <1>2

LEMMA DeleteTakes ==
    ASSUME JInv, NEW j \in Worker, DeleteLeft(j) \/ DeleteRight(j)
    PROVE  j \in Busy /\ \E c \in Node : Takes(j, c)
<1> DEFINE n == w[j].node
           g == w[j].form
<1>1. Deleting(w[j]) /\ j \in Busy
    BY Zenon DEF DeleteLeft, DeleteRight, Delete, Deleting, Busy
<1>2. PICK e \in {0, 1} :
            file' = [file EXCEPT ![Append(n, e)] = Deleted(Append(n, e), g)]
    BY DEF DeleteLeft, DeleteRight, Delete
<1>3. PICK c \in Kids(n) : c = Append(n, e)
    BY <1>1, DeletingFacts
<1>4. part' = part /\ n \in Node /\ g \in Forms
    BY <1>1, DeletingFacts DEF DeleteLeft, DeleteRight, Delete
<1>5. /\ c \in Node
      /\ \A m \in Node : m # c => file'[m] = file[m]
      /\ \A m \in Node, h \in Forms :
            file'[m][h] = file[m][h] \/ (m = c /\ file'[m][h] = NoFile)
    <2>1. file' = [file EXCEPT ![c] = Deleted(c, g)]
        BY <1>2, <1>3
    <2>2. c \in Kids(n)
        OBVIOUS
    <2> HIDE DEF n, g
    <2>3. Gone(c)
        BY <1>4, <2>1, <2>2, DeletedFacts
    <2> QED BY <2>3 DEF Gone
<1>6. ASSUME NEW m \in Node, m # c PROVE IsStored(m)' <=> IsStored(m)
    BY <1>5, <1>6 DEF IsStored, SigIsStored
<1>7. IsStored(c)' => IsStored(c)
    <2>1. \A h \in Forms : IsWhole(file'[c][h]) => IsWhole(file[c][h])
        BY <1>5, PartFacts
    <2>2. /\ IsWhole(file'[c]["sig"]) => IsWhole(file[c]["sig"])
          /\ IsWhole(file'[c]["union"]) => IsWhole(file[c]["union"])
        BY <2>1 DEF Forms
    <2> QED BY <2>2, Zenon DEF IsStored, SigIsStored
<1>8. Takes(j, c)
    BY <1>1, <1>3, <1>6, <1>7 DEF Takes
<1> QED BY <1>1, <1>5, <1>8

LEMMA CacheMoves ==
    ASSUME JInv, [Next]_vars
    PROVE  \/ Unmoved
           \/ \E j \in Busy : Adds(j)
           \/ \E j \in Busy, c \in Node : Takes(j, c)
<1>1. CASE file' = file
    BY <1>1, SameWholes
<1>2. ASSUME NEW j \in Worker, WorkerStep(j), file' # file
      PROVE  \/ Unmoved
             \/ \E i \in Busy : Adds(i)
             \/ \E i \in Busy, c \in Node : Takes(i, c)
    <2> DEFINE s == w[j]
               n == s.node
    <2>1. CASE Open(j)
        <3> DEFINE form == JoinForm(n)
                   f == IF file[n][form] = NoFile THEN Empty ELSE file[n][form]
        <3>1. j \in Busy /\ ~Deleting(s) /\ file' = [file EXCEPT ![n][form] = f]
            BY <2>1, Zenon DEF Open, Busy, Deleting
        <3>2. n \in Node /\ form \in Forms
            BY <3>1, WorkerFacts DEF JoinForm, Forms
        <3>3. ~IsWhole(file[n][form]) /\ ~IsWhole(f)
            BY <3>1, <3>2, NotYetWhole, PartFacts
        <3>4. f \in File \cup {NoFile}
            BY <3>2, FileFacts DEF JInv, FilesInv, FilesTyped
        <3> HIDE DEF n, form, f
        <3> QED BY <3>1, <3>2, <3>3, <3>4, PutUnmoved
    <2>2. CASE WriteNumber(j)
        <3> DEFINE g == s.form
                   f == [file[n][g] EXCEPT !.body = Append(@, s.x)]
        <3>1. j \in Busy /\ ~Deleting(s) /\ file' = [file EXCEPT ![n][g] = f]
            BY <2>2, Zenon DEF WriteNumber, Busy, Deleting
        <3>2. n \in Node /\ g \in Forms /\ file[n][g] \in File \cup {NoFile}
            BY <3>1, WorkerFacts
        <3>3. ~IsWhole(file[n][g])
            BY <3>1, <3>2, NotYetWhole
        <3>4. FilesInv' /\ file'[n][g] = f
            <4>1. file'[n][g] = f
                BY <3>1, <3>2, Zenon DEF JInv, FilesInv, FilesTyped
            <4> QED BY <4>1, <2>2, WriteStep
        <3>5. f \in File \cup {NoFile}
            <4> HIDE DEF n, g, f
            <4>1. file'[n][g] \in File \cup {NoFile}
                BY <3>2, <3>4 DEF FilesInv, FilesTyped
            <4> QED BY <3>4, <4>1
        <3>6. file[n][g] \in File /\ f.magic = file[n][g].magic
            <4>1. s.term # 0 /\ s.at = "write"
                <5>1. s.term \in {1, 2, 5}
                    BY <2>2, Zenon DEF WriteNumber
                <5>2. s.at = "write"
                    BY <2>2, Zenon DEF WriteNumber
                <5> HIDE DEF s
                <5> QED BY <5>1, <5>2
            <4>2. file[n][g] # NoFile
                BY <3>1, <4>1, JoinFacts, Zenon DEF JoinFiles
            <4> QED BY <3>2, <4>2 DEF File
        <3>7. ~IsWhole(f)
            BY <3>3, <3>6, FileFacts DEF IsWhole
        <3> HIDE DEF n, g, f
        <3> QED BY <3>1, <3>2, <3>3, <3>5, <3>7, PutUnmoved
    <2>3. CASE Create(j)
        <3>1. j \in Busy /\ ~Deleting(s)
            BY <2>3, Zenon DEF Create, Busy, Deleting
        <3>2. file' = [file EXCEPT ![n]["sig"] = Empty]
            BY <1>2, <2>3 DEF Create
        <3>3. n \in Node /\ "sig" \in Forms
            BY <3>1, WorkerFacts DEF Forms
        <3>4. ~IsWhole(file[n]["sig"])
            BY <3>1, <3>3, NotYetWhole
        <3>5. Empty \in File \cup {NoFile} /\ ~IsWhole(Empty)
            BY FileFacts, PartFacts
        <3> HIDE DEF n
        <3> QED BY <3>2, <3>3, <3>4, <3>5, PutUnmoved
    <2>4. CASE SavePiece(j) \/ Close(j)
        BY <2>4, SaveAdds
    <2>5. CASE DeleteLeft(j) \/ DeleteRight(j)
        BY <2>5, DeleteTakes
    <2>6. CASE Acquire(j) \/ LoadPair(j) \/ Multiply(j) \/ SavePart(j) \/ DropPart(j)
        BY <1>2, <2>6 DEF Acquire, LoadPair, Multiply, SavePart, DropPart
    <2> QED BY <1>2, <2>1, <2>2, <2>3, <2>4, <2>5, <2>6 DEF WorkerStep
<1> QED BY <1>1, <1>2 DEF Next, vars, Start, Die, Crash, Restart, Done

LEMMA InputsPrimed ==
    ASSUME \A i \in Busy' : w'[i].node \in Node,
           \A i \in Busy', m \in Node :
                ~Deleting(w'[i]) /\ w'[i].node = m =>
                    ~IsStored(m)' /\ \A k \in Kids(m) : IsStored(k)'
    PROVE  InputsThere'
BY DEF InputsThere, IsStored, SigIsStored

\* A worker is started apart from the others: what a busy one needs or makes is
\* not below anything the cache holds.
LEMMA StartKeepsCache ==
    ASSUME JInv, NEW j \in Worker, NEW n \in Node, Start(j, n)
    PROVE  CacheInv'
<1> DEFINE r == [Idle EXCEPT !.node = n, !.at = IF IsLeaf(n) THEN "create"
                                                ELSE "open"]
<1>1. /\ w' = [w EXCEPT ![j] = r] /\ file' = file /\ Startable(n)
      /\ w[j].at = "idle"
    BY DEF Start
<1>2. r.node = n /\ r.at \in {"create", "open"}
    BY DEF Idle
<1> HIDE DEF r
<1>3. w'[j] = r /\ (\A i \in Worker \ {j} : w'[i] = w[i])
    BY <1>1 DEF JInv, WorkersInv, WorkersTyped
<1>4. ~Deleting(r) /\ r.at # "idle"
    BY <1>2, Zenon DEF Deleting
<1>5. Busy' = Busy \cup {j} /\ j \notin Busy
    BY <1>1, <1>3, <1>4 DEF Busy
<1>6. Unmoved
    BY <1>1, SameWholes
<1>7. \A i \in Busy : w'[i] = w[i] /\ w[i].node \in Node
    BY <1>3, <1>5, WorkerFacts
<1>8. /\ ~IsStored(n) /\ (\A m \in Above(n) : ~IsStored(m))
      /\ \A k \in Kids(n) : IsStored(k)
      /\ \A i \in Busy : w[i].node \notin Kids(n) \cup {n}
    BY <1>1 DEF Startable
<1>9. ASSUME NEW i \in Busy PROVE n \notin Kids(w[i].node)
    <2> SUFFICES ASSUME n \in Kids(w[i].node) PROVE FALSE
        OBVIOUS
    <2>1. w[i].node \in Above(n)
        BY <1>7, KidFacts
    <2>2. CASE Deleting(w[i])
        BY <2>1, <2>2, <1>8, DeletingFacts
    <2>3. CASE ~Deleting(w[i])
        BY <2>3, <1>8 DEF JInv, CacheInv, InputsThere
    <2> QED BY <2>2, <2>3
<1>10. n \notin Kids(n)
    BY KidFacts
<1>11. Apart'
    <2>1. \A a, b \in Busy' : a # b => w'[a].node # w'[b].node
        BY <1>2, <1>3, <1>5, <1>7, <1>8 DEF JInv, CacheInv, Apart
    <2>2. \A a, b \in Busy' : w'[a].node \notin Kids(w'[b].node)
        BY <1>2, <1>3, <1>5, <1>7, <1>8, <1>9, <1>10 DEF JInv, CacheInv, Apart
    <2> QED BY <2>1, <2>2 DEF Apart
<1>12. NothingAbove'
    <2>1. ASSUME NEW i \in Busy', NEW m \in Above(w'[i].node) PROVE ~IsStored(m)'
        <3>1. CASE i = j
            <4>1. m \in Above(n) /\ m \in Node
                BY <3>1, <2>1, <1>2, <1>3, AboveFacts
            <4> QED BY <4>1, <1>6, <1>8 DEF Unmoved
        <3>2. CASE i # j
            <4>1. i \in Busy /\ m \in Above(w[i].node) /\ m \in Node
                BY <3>2, <2>1, <1>5, <1>7, AboveFacts
            <4> QED BY <4>1, <1>6 DEF Unmoved, JInv, CacheInv, NothingAbove
        <3> QED BY <3>1, <3>2
    <2> QED BY <2>1 DEF NothingAbove
<1>13. InputsThere'
    <2>1. ASSUME NEW i \in Busy', ~Deleting(w'[i]), NEW m \in Node, w'[i].node = m
          PROVE  ~IsStored(m)' /\ \A k \in Kids(m) : IsStored(k)'
        <3>1. \A k \in Kids(m) : k \in Node
            BY KidFacts
        <3>2. CASE i = j
            <4>1. m = n
                BY <3>2, <2>1, <1>2, <1>3
            <4> QED BY <3>1, <4>1, <1>6, <1>8 DEF Unmoved
        <3>3. CASE i # j
            <4>1. i \in Busy /\ w'[i] = w[i]
                BY <3>3, <1>5, <1>7
            <4>2. ~IsStored(m) /\ \A k \in Kids(m) : IsStored(k)
                BY <4>1, <2>1 DEF JInv, CacheInv, InputsThere
            <4> QED BY <3>1, <4>2, <1>6 DEF Unmoved
        <3> QED BY <3>2, <3>3
    <2>2. \A i \in Busy' : w'[i].node \in Node
        BY <1>2, <1>3, <1>5, <1>7
    <2> QED BY <2>1, <2>2, InputsPrimed
<1> QED BY <1>11, <1>12, <1>13 DEF CacheInv

\* A worker that goes on, and what it or another does to the cache.
LEMMA OnwardKeepsCache ==
    ASSUME JInv, \A i \in Busy' : Onward(i),
           \/ Unmoved
           \/ \E j \in Busy : Adds(j)
           \/ \E j \in Busy, c \in Node : Takes(j, c)
    PROVE  CacheInv'
<1>1. Apart'
    BY DEF Onward, JInv, CacheInv, Apart
<1>2. \A i \in Busy' : /\ i \in Busy /\ w'[i].node = w[i].node
                       /\ w[i].node \in Node
                       /\ Deleting(w[i]) => Deleting(w'[i])
    BY WorkerFacts DEF Onward
<1>3. SUFFICES ASSUME NEW i \in Busy', NEW n \in Node, n = w[i].node
               PROVE  /\ \A m \in Above(n) : ~IsStored(m)'
                      /\ ~Deleting(w'[i]) => /\ ~IsStored(n)'
                                             /\ \A k \in Kids(n) : IsStored(k)'
    <2>1. NothingAbove'
        <3>1. ASSUME NEW i \in Busy', NEW m \in Above(w'[i].node) PROVE ~IsStored(m)'
            BY <1>2, <1>3, <3>1
        <3> QED BY <3>1 DEF NothingAbove
    <2>2. InputsThere'
        BY <1>2, <1>3, InputsPrimed
    <2> QED BY <1>1, <2>1, <2>2 DEF CacheInv
<1>4. /\ i \in Busy
      /\ \A m \in Above(n) : m \in Node /\ ~IsStored(m)
      /\ \A k \in Kids(n) : k \in Node
      /\ n \notin Above(n) /\ n \notin Kids(n)
    BY <1>2, <1>3, AboveFacts, KidFacts DEF JInv, CacheInv, NothingAbove
<1>5. ~Deleting(w[i]) => ~IsStored(n) /\ \A k \in Kids(n) : IsStored(k)
    BY <1>3, <1>4 DEF JInv, CacheInv, InputsThere
<1>6. CASE Unmoved
    BY <1>2, <1>4, <1>5, <1>6 DEF Unmoved
<1>7. ASSUME NEW j \in Busy, Adds(j)
      PROVE  /\ \A m \in Above(n) : ~IsStored(m)'
             /\ ~Deleting(w'[i]) => /\ ~IsStored(n)'
                                    /\ \A k \in Kids(n) : IsStored(k)'
    <2>1. PICK o \in Node : o = w[j].node
        BY WorkerFacts
    <2>2. \A m \in Node : IsStored(m)' <=> (IsStored(m) \/ m = o)
        BY <1>7, <2>1 DEF Adds
    <2>3. \A k \in Kids(o) : IsStored(k)
        BY <1>7, <2>1 DEF Adds, JInv, CacheInv, InputsThere
    <2>4. n \notin Kids(o)
        BY <1>3, <1>4, <2>1 DEF JInv, CacheInv, Apart
    <2>5. o \notin Above(n)
        <3> SUFFICES ASSUME o \in Above(n) PROVE FALSE
            OBVIOUS
        <3>1. PICK k \in Kids(o) : k = n \/ k \in Above(n)
            BY KidTowards
        <3> QED BY <1>4, <2>3, <2>4, <3>1
    <2>6. ~Deleting(w'[i]) => n # o
        <3>1. CASE i = j
            BY <1>7, <3>1 DEF Adds
        <3>2. CASE i # j
            BY <1>3, <1>4, <2>1, <3>2 DEF JInv, CacheInv, Apart
        <3> QED BY <3>1, <3>2
    <2> QED BY <1>2, <1>4, <1>5, <2>2, <2>5, <2>6
<1>8. ASSUME NEW j \in Busy, NEW c \in Node, Takes(j, c)
      PROVE  /\ \A m \in Above(n) : ~IsStored(m)'
             /\ ~Deleting(w'[i]) => /\ ~IsStored(n)'
                                    /\ \A k \in Kids(n) : IsStored(k)'
    <2>1. /\ \A m \in Node : IsStored(m)' => IsStored(m)
          /\ \A m \in Node : m # c => (IsStored(m)' <=> IsStored(m))
        BY <1>8 DEF Takes
    <2>2. ~Deleting(w'[i]) => c \notin Kids(n)
        <3>1. CASE i = j
            BY <1>2, <1>8, <3>1 DEF Takes
        <3>2. CASE i # j
            <4>1. n # w[j].node /\ w[j].node \in Node /\ c \in Kids(w[j].node)
                BY <1>3, <1>4, <1>8, <3>2, WorkerFacts
                   DEF Takes, JInv, CacheInv, Apart
            <4> QED BY <4>1, KidsApart
        <3> QED BY <3>1, <3>2
    <2> QED BY <1>2, <1>4, <1>5, <2>1, <2>2
<1> QED BY <1>6, <1>7, <1>8

LEMMA CacheKept ==
    ASSUME JInv, [Next]_vars
    PROVE  CacheInv'
BY Moves, CacheMoves, StartKeepsCache, OnwardKeepsCache

-----------------------------------------------------------------------------
(* The invariant holds.                                                    *)

LEMMA InitInv == Init => JInv
<1> SUFFICES ASSUME Init PROVE JInv
    OBVIOUS
<1>1. PICK pieces \in [Shared -> LeftBehind] :
        file = [n \in Node |->
                    [sig   |-> IF n \in Shared THEN pieces[n] ELSE NoFile,
                     union |-> NoFile]]
    BY DEF Init
<1>2. /\ part = [n \in Node |-> [f \in Forms |-> NoFile]]
      /\ lock = NoWorker /\ w = [j \in Worker |-> Idle]
      /\ down = FALSE /\ failures = 0
    BY DEF Init
<1>3. Busy = {}
    BY <1>2, IdleTyped DEF Busy
<1>4. /\ LeftBehind \subseteq File \cup {NoFile}
      /\ \A f \in LeftBehind : IsWhole(f) => f.body = Numbers
    <2>1. \A k \in {0, 2} : [body |-> First(k), magic |-> FALSE] \in File
        <3>1. \A k \in {0, 2} : k \in 0 .. 3
            OBVIOUS
        <3>2. FALSE \in BOOLEAN
            OBVIOUS
        <3> QED BY <3>1, <3>2, FileFacts
    <2>2. \A k \in {0, 2} : ~IsWhole([body |-> First(k), magic |-> FALSE])
        BY DEF IsWhole
    <2>3. [body |-> Numbers, magic |-> TRUE] \in File
        BY FileFacts
    <2>4. LeftBehind = {NoFile, [body |-> Numbers, magic |-> TRUE]} \cup
                {[body |-> First(k), magic |-> FALSE] : k \in {0, 2}}
        BY DEF LeftBehind, First
    <2>5. ASSUME NEW f \in LeftBehind
          PROVE  f \in File \cup {NoFile} /\ (IsWhole(f) => f.body = Numbers)
        <3>1. CASE f = NoFile
            BY <3>1, PartFacts
        <3>2. CASE f = [body |-> Numbers, magic |-> TRUE]
            BY <3>2, <2>3
        <3>3. CASE f # NoFile /\ f # [body |-> Numbers, magic |-> TRUE]
            <4>1. PICK k \in {0, 2} : f = [body |-> First(k), magic |-> FALSE]
                BY <2>4, <3>3
            <4> QED BY <2>1, <2>2, <4>1
        <3> QED BY <3>1, <3>2, <3>3
    <2> QED BY <2>5
<1>5. /\ file \in [Node -> [Forms -> File \cup {NoFile}]]
      /\ \A n \in Node : /\ file[n]["union"] = NoFile
                         /\ n \notin Shared => file[n]["sig"] = NoFile
                         /\ IsWhole(file[n]["sig"]) => file[n]["sig"].body = Numbers
    <2>1. ASSUME NEW n \in Node
          PROVE  LET s == IF n \in Shared THEN pieces[n] ELSE NoFile
                 IN  /\ file[n] = [sig |-> s, union |-> NoFile]
                     /\ s \in File \cup {NoFile}
                     /\ IsWhole(s) => s.body = Numbers
        BY <1>1, <1>4, PartFacts
    <2>2. ASSUME NEW n \in Node
          PROVE  /\ file[n] \in [Forms -> File \cup {NoFile}]
                 /\ file[n]["union"] = NoFile
                 /\ n \notin Shared => file[n]["sig"] = NoFile
                 /\ IsWhole(file[n]["sig"]) => file[n]["sig"].body = Numbers
        <3> DEFINE s == IF n \in Shared THEN pieces[n] ELSE NoFile
        <3>1. /\ file[n] = [sig |-> s, union |-> NoFile]
              /\ s \in File \cup {NoFile} /\ (IsWhole(s) => s.body = Numbers)
              /\ n \notin Shared => s = NoFile
            BY <2>1
        <3> HIDE DEF s
        <3> QED BY <3>1 DEF Forms
    <2>3. file = [n \in Node |-> file[n]]
        BY <1>1
    <2> QED BY <2>2, <2>3
<1>6. part \in [Node -> [Forms -> Part \cup {NoFile}]]
      /\ \A n \in Node, f \in Forms : part[n][f] = NoFile
    BY <1>2
<1>7. FilesInv
    <2>1. FilesTyped /\ FilesPlaced
        BY <1>5, <1>6, SpanAssumption DEF FilesTyped, FilesPlaced
    <2>2. CompleteIsWhole /\ OneForm
        BY <1>5, <1>6, PartFacts DEF CompleteIsWhole, OneForm, Forms
    <2> QED BY <2>1, <2>2 DEF FilesInv
<1>8. WorkersInv
    BY <1>2, <1>3, IdleTyped DEF WorkersInv, WorkersTyped, WorkersOK
<1>9. LocksInv
    <2>1. RestTyped
        <3>1. failures \in 0 .. MaxFailures
            BY <1>2, OthersAssumption
        <3>2. lock \in Worker \cup {NoWorker} /\ down \in BOOLEAN
            BY <1>2
        <3> QED BY <3>1, <3>2 DEF RestTyped
    <2>2. ~Idle.lock_held /\ Idle.at = "idle"
        BY DEF Idle
    <2>3. LockOK(Idle, FALSE)
        BY <2>2, Zenon DEF LockOK
    <2>4. LocksAgree
        BY <1>2, <2>3, OthersAssumption DEF LocksAgree, LockOK
    <2> QED BY <2>1, <2>4 DEF LocksInv
<1>10. CacheInv
    BY <1>3 DEF CacheInv, Apart, NothingAbove, InputsThere
<1> QED BY <1>7, <1>8, <1>9, <1>10 DEF JInv

\* The invariant of the joins, on which everything below rests.
THEOREM JoinsSound == Spec => []JInv
<1>1. JInv /\ [Next]_vars => JInv'
    BY FilesKept, LocksKept, CacheKept DEF JInv
<1> QED BY <1>1, InitInv, PTL DEF Spec

-----------------------------------------------------------------------------
(* What follows from it.                                                   *)

\* Every variable has its type, a result file always holding the first of P, Q
\* and R (sig_res_save, union_res_save).
THEOREM FilesTypeCorrect == Spec => []TypeOK
<1>1. JInv => TypeOK
    <2> SUFFICES ASSUME JInv PROVE TypeOK
        OBVIOUS
    <2>1. ASSUME NEW j \in Worker
          PROVE  /\ w[j].node \in Node \cup {NoNode} /\ w[j].form \in Forms
                 /\ w[j].term \in 0 .. 6 /\ w[j].lock_held \in BOOLEAN
        BY LockFacts DEF WorkerRecord
    <2> QED BY <2>1 DEF JInv, FilesInv, FilesTyped, LocksInv, RestTyped, TypeOK
<1> QED BY <1>1, JoinsSound, PTL

\* A file that reads as complete has all three numbers and no checkpoint, through
\* every death and resumed join (lib/big/code.c:827-830).
THEOREM CompleteFilesWhole == Spec => []CompleteIsWhole
<1>1. JInv => CompleteIsWhole
    BY DEF JInv, FilesInv
<1> QED BY <1>1, JoinsSound, PTL

\* A number has one form, so that removing one path of each deletes it
\* (lib/big/code.c:446).
THEOREM FormsExclusive == Spec => []OneForm
<1>1. JInv => OneForm
    BY DEF JInv, FilesInv
<1> QED BY <1>1, JoinsSound, PTL

\* No load finds its operand missing, although joins delete their children and
\* checkpoints are removed (the asserts of sig_res_load and union_res_load).
THEOREM LoadsFindOperands == Spec => []LoadsSucceed
<1>1. JInv => LoadsSucceed
    <2> SUFFICES ASSUME JInv, NEW j \in Worker, w[j].at = "load" PROVE Readable(j)
        BY DEF LoadsSucceed
    <2>1. j \in Busy /\ ~Deleting(w[j])
        BY Zenon DEF Busy, Deleting
    <2>2. \A k \in Kids(w[j].node) : IsStored(k)
        BY <2>1 DEF JInv, CacheInv, InputsThere
    <2>3. w[j].term = 5 => IsWhole(part[w[j].node][w[j].form])
        <3>1. JoinFiles(w[j], file[w[j].node][w[j].form], part[w[j].node][w[j].form])
            BY <2>1, JoinFacts, Zenon
        <3>2. w[j].at # "open" /\ (w[j].term = 5 => w[j].term \in {4, 5})
            OBVIOUS
        <3> QED BY <3>1, <3>2, Zenon DEF JoinFiles
    <2> QED BY <2>2, <2>3 DEF Readable
<1> QED BY <1>1, JoinsSound, PTL

\* The lock a worker thinks it holds is the one it holds, and no worker computes
\* or ends with it (lib/big/code.c:635-638, 533-536).
THEOREM LockKept == Spec => []LockDiscipline
<1>1. JInv => LockDiscipline
    <2> SUFFICES ASSUME JInv, NEW j \in Worker
                 PROVE  /\ w[j].lock_held <=> lock = j
                        /\ w[j].at \in {"mul", "drop", "close", "idle"} => lock # j
        BY DEF LockDiscipline
    <2>1. LockOK(w[j], lock = j)
        BY LockFacts
    <2> QED BY <2>1, Zenon DEF LockOK
<1> QED BY <1>1, JoinsSound, PTL

-----------------------------------------------------------------------------
(* Nothing committed is taken back.                                        *)

FileKept(n, f) ==
    ~IsLeaf(n) /\ file[n][f] # NoFile /\ file'[n][f] # NoFile =>
        /\ Len(file'[n][f].body) >= Len(file[n][f].body)
        /\ IsWhole(file[n][f]) => IsWhole(file'[n][f])

PartKept(n, f) ==
    IsWhole(part[n][f]) => \/ part'[n][f] = part[n][f]
                           \/ file[n][f] # NoFile /\ file[n][f].body = Numbers

LEMMA SameFileKept ==
    ASSUME JInv, NEW n \in Node, NEW f \in Forms, file'[n][f] = file[n][f]
    PROVE  FileKept(n, f)
<1>1. file[n][f] \in File \cup {NoFile}
    BY DEF JInv, FilesInv, FilesTyped
<1>2. file[n][f] # NoFile => Len(file[n][f].body) \in Nat
    BY <1>1, FileFacts
<1> QED BY <1>2 DEF FileKept

LEMMA FilesNotTakenBack ==
    ASSUME JInv, NEW j \in Worker, WorkerStep(j), NEW n \in Node, NEW f \in Forms
    PROVE  FileKept(n, f)
<1> DEFINE s == w[j]
<1>1. SUFFICES ASSUME file'[n][f] # file[n][f] PROVE FileKept(n, f)
    BY SameFileKept
<1>2. file \in [Node -> [Forms -> File \cup {NoFile}]]
    BY DEF JInv, FilesInv, FilesTyped
<1>3. CASE Open(j)
    <2>1. \E v : /\ file' = [file EXCEPT ![s.node][JoinForm(s.node)] = v]
                 /\ file[s.node][JoinForm(s.node)] # NoFile =>
                        v = file[s.node][JoinForm(s.node)]
        BY <1>3, Zenon DEF Open
    <2>2. file[n][f] = NoFile
        BY <1>1, <1>2, <2>1
    <2> QED BY <2>2 DEF FileKept
<1>4. CASE WriteNumber(j)
    <2> DEFINE v == [file[s.node][s.form] EXCEPT !.body = Append(@, s.x)]
    <2>1. /\ file' = [file EXCEPT ![s.node][s.form] = v] /\ j \in Busy
          /\ s.at = "write" /\ s.term \in {1, 2, 5}
        BY <1>4 DEF WriteNumber, Busy
    <2>2. n = s.node /\ f = s.form /\ file'[n][f] = v
        <3> HIDE DEF v
        <3> QED BY <1>1, <1>2, <2>1
    <2>3. file[n][f] # NoFile => file[n][f] \in File
        BY <1>2
    <2>4. SUFFICES ASSUME file[n][f] \in File PROVE FileKept(n, f)
        BY <2>3 DEF FileKept
    <2> DEFINE old == file[n][f]
    <2>5. v.body = Append(old.body, s.x) /\ v.magic = old.magic
        BY <2>2, <2>4, Zenon DEF File
    <2>6. Len(v.body) = Len(old.body) + 1 /\ Len(old.body) \in Nat
        <3>1. s.x \in Values
            BY <2>1, WorkerFacts
        <3>2. old.body \in Seq(Values)
            <4>1. PICK k \in 0 .. 3 : old.body = SubSeq(Numbers, 1, k)
                BY <2>4 DEF File
            <4>2. Numbers \in Seq(Values) /\ Len(Numbers) = 3
                BY DEF Numbers, Values
            <4>3. SubSeq(Numbers, 1, k) \in Seq(Values)
                BY <4>2, PrefixElements, Zenon
            <4> QED BY <4>1, <4>3
        <3> HIDE DEF old, v
        <3> QED BY <2>5, <3>1, <3>2, AppendElements
    <2>7. FilesInv'
        BY <1>4, WriteStep
    <2>8. v \in File \cup {NoFile}
        <3>1. file' \in [Node -> [Forms -> File \cup {NoFile}]]
            BY <2>7 DEF FilesInv, FilesTyped
        <3> HIDE DEF v, old
        <3>2. file'[n][f] \in File \cup {NoFile}
            BY <3>1
        <3> QED BY <2>2, <3>2, Zenon
    <2>9. Len(file'[n][f].body) >= Len(old.body)
        <3> HIDE DEF v, old
        <3> QED BY <2>2, <2>6
    <2>10. file'[n][f] # NoFile => (IsWhole(old) => IsWhole(file'[n][f]))
        <3> HIDE DEF v, old
        <3> QED BY <2>2, <2>5 DEF IsWhole
    <2> QED BY <2>9, <2>10 DEF FileKept
<1>5. CASE Create(j)
    BY <1>1, <1>2, <1>5 DEF Create, FileKept
<1>6. CASE SavePiece(j)
    BY <1>1, <1>2, <1>6 DEF SavePiece, FileKept
<1>7. CASE Close(j)
    <2> DEFINE v == [file[s.node][s.form] EXCEPT !.magic = TRUE]
    <2>1. file' = [file EXCEPT ![s.node][s.form] = v]
        BY <1>7 DEF Close
    <2>2. n = s.node /\ f = s.form /\ file'[n][f] = v
        <3> HIDE DEF v
        <3> QED BY <1>1, <1>2, <2>1
    <2>3. SUFFICES ASSUME file[n][f] \in File PROVE FileKept(n, f)
        BY <1>2 DEF FileKept
    <2>4. v.body = file[n][f].body /\ v.magic
        BY <2>2, <2>3 DEF File
    <2>5. Len(file[n][f].body) \in Nat
        BY <2>3, FileFacts
    <2> HIDE DEF v
    <2> QED BY <2>2, <2>4, <2>5 DEF FileKept, IsWhole
<1>8. CASE DeleteLeft(j) \/ DeleteRight(j)
    <2>1. j \in Busy /\ Deleting(s)
        BY <1>8, Zenon DEF DeleteLeft, DeleteRight, Delete, Deleting, Busy
    <2>2. PICK c \in Kids(s.node) :
            file' = [file EXCEPT ![c] = Deleted(c, s.form)] /\ part' = part
        BY <1>8, <2>1, DeletingFacts DEF DeleteLeft, DeleteRight, Delete
    <2>3. file'[n][f] = NoFile
        <3> DEFINE o == s.node
                   g == s.form
        <3>1. o \in Node /\ g \in Forms /\ c \in Kids(o)
              /\ file' = [file EXCEPT ![c] = Deleted(c, g)] /\ part' = part
            BY <2>1, <2>2, DeletingFacts
        <3> HIDE DEF o, g, s
        <3>2. Gone(c)
            BY <3>1, DeletedFacts
        <3> QED BY <1>1, <3>2 DEF Gone
    <2> QED BY <2>3 DEF FileKept
<1>9. CASE Acquire(j) \/ LoadPair(j) \/ Multiply(j) \/ SavePart(j) \/ DropPart(j)
    BY <1>1, <1>9 DEF Acquire, LoadPair, Multiply, SavePart, DropPart
<1> QED BY <1>3, <1>4, <1>5, <1>6, <1>7, <1>8, <1>9 DEF WorkerStep

LEMMA PartsNotTakenBack ==
    ASSUME JInv, NEW j \in Worker, WorkerStep(j), NEW n \in Node, NEW f \in Forms
    PROVE  PartKept(n, f)
<1> DEFINE s == w[j]
<1>1. SUFFICES ASSUME part'[n][f] # part[n][f] PROVE PartKept(n, f)
    BY DEF PartKept
<1>2. part \in [Node -> [Forms -> Part \cup {NoFile}]]
    BY DEF JInv, FilesInv, FilesTyped
<1>3. CASE Create(j) \/ SavePart(j)
    <2>1. j \in Busy /\ s.at # "open" /\ s.at \in {"create", "write"}
        BY <1>3 DEF Create, SavePart, Busy
    <2>2. PICK v : part' = [part EXCEPT ![s.node][s.form] = v]
        BY <1>1, <1>3 DEF Create, SavePart
    <2>3. n = s.node /\ f = s.form
        BY <1>1, <1>2, <2>2
    <2>4. ~IsLeaf(s.node) /\ s.term = 3
        <3>1. CASE Create(j)
            <4>1. ~IsLeaf(s.node) /\ s.at = "create"
                BY <1>1, <3>1 DEF Create
            <4>2. JoinMemory(s)
                BY <2>1, <4>1, WorkerFacts DEF WorkerOK
            <4> QED BY <4>1, <4>2, Zenon DEF JoinMemory
        <3>2. CASE SavePart(j)
            <4>1. s.term = 3 /\ s.term # 0
                BY <3>2 DEF SavePart
            <4> QED BY <2>1, <4>1, JoinFacts, Zenon
        <3> QED BY <1>3, <3>1, <3>2
    <2>5. JoinFiles(s, file[n][f], part[n][f])
        BY <2>1, <2>3, <2>4, WorkerFacts DEF WorkerOK
    <2>6. ~IsWhole(part[n][f])
        BY <2>1, <2>4, <2>5, Zenon DEF JoinFiles
    <2> QED BY <2>6 DEF PartKept
<1>4. CASE DropPart(j)
    <2>1. /\ j \in Busy /\ s.at = "drop"
          /\ part' = [part EXCEPT ![s.node][s.form] = NoFile]
        BY <1>4 DEF DropPart, Busy
    <2>2. n = s.node /\ f = s.form
        BY <1>1, <1>2, <2>1
    <2>3. JoinMemory(s) /\ JoinFiles(s, file[n][f], part[n][f])
        BY <2>1, <2>2, JoinFacts, Zenon
    <2>4. s.term = 6 /\ file[n][f] # NoFile
          /\ file[n][f].body = First(Committed(s.term))
        BY <2>1, <2>3, Zenon DEF JoinMemory, JoinFiles
    <2>5. Committed(6) = 3
        BY DEF Committed
    <2> QED BY <2>4, <2>5, FirstFacts DEF PartKept
<1>5. CASE ~(Create(j) \/ SavePart(j) \/ DropPart(j))
    <2>1. part' = part
        BY <1>5, Zenon
           DEF WorkerStep, Open, Acquire, LoadPair, Multiply, WriteNumber, SavePiece,
               Close, DeleteLeft, DeleteRight, Delete
    <2> QED BY <1>1, <2>1
<1> QED BY <1>3, <1>4, <1>5

\* What a join has committed, its numbers and its checkpoint, stays until the
\* file goes as a whole (lib/big/code.c:122-129, 325-326).
THEOREM CommittedStays == Spec => CommittedKept
<1>1. JInv /\ [Next]_vars =>
        \A n \in Node, f \in Forms : FileKept(n, f) /\ PartKept(n, f)
    <2> SUFFICES ASSUME JInv, [Next]_vars, NEW n \in Node, NEW f \in Forms
                 PROVE  FileKept(n, f) /\ PartKept(n, f)
        OBVIOUS
    <2>1. CASE UNCHANGED <<file, part>>
        BY <2>1, SameFileKept DEF PartKept
    <2>2. CASE \E j \in Worker : WorkerStep(j)
        BY <2>2, FilesNotTakenBack, PartsNotTakenBack
    <2> QED BY <2>1, <2>2 DEF Next, vars, Start, Die, Crash, Restart, Done
<1>2. JInv /\ [Next]_vars =>
        [\A n \in Node, f \in Forms :
            /\ ~IsLeaf(n) /\ file[n][f] # NoFile /\ file'[n][f] # NoFile =>
                    /\ Len(file'[n][f].body) >= Len(file[n][f].body)
                    /\ IsWhole(file[n][f]) => IsWhole(file'[n][f])
            /\ IsWhole(part[n][f]) =>
                    \/ part'[n][f] = part[n][f]
                    \/ file[n][f] # NoFile /\ file[n][f].body = Numbers]_vars
    BY <1>1 DEF FileKept, PartKept
<1> QED BY <1>2, JoinsSound, PTL DEF Spec, CommittedKept

-----------------------------------------------------------------------------
(* The abstract cache.                                                     *)

LEMMA CacheStep ==
    ASSUME JInv, [Next]_vars
    PROVE  [Cache!Next]_{n \in Node : IsStored(n)}
<1> DEFINE stored == {n \in Node : IsStored(n)}
<1>1. CASE Unmoved
    <2>1. stored' = stored
        BY <1>1 DEF Unmoved
    <2> QED BY <2>1
<1>2. ASSUME NEW j \in Busy, Adds(j) PROVE Cache!Next
    <2>1. PICK o \in Node : o = w[j].node
        BY WorkerFacts
    <2>2. ~IsStored(o) /\ \A k \in Kids(o) : IsStored(k)
        BY <1>2, <2>1 DEF Adds, JInv, CacheInv, InputsThere
    <2>3. stored' = stored \cup {o}
        BY <1>2, <2>1 DEF Adds
    <2>4. Cache!Kids(o) = Kids(o) /\ Kids(o) \subseteq Node
        BY DEF Cache!Kids, Kids
    <2>5. Cache!Store(o)
        BY <2>1, <2>2, <2>3, <2>4 DEF Cache!Store
    <2> QED BY <2>5 DEF Cache!Next
<1>3. ASSUME NEW j \in Busy, NEW c \in Node, Takes(j, c)
      PROVE  Cache!Next \/ stored' = stored
    <2>1. PICK o \in Node : o = w[j].node
        BY WorkerFacts
    <2>2. IsStored(o) /\ c \in Kids(o)
        BY <1>3, <2>1, DeletingFacts DEF Takes
    <2>3. c # Root /\ SubSeq(c, 1, Len(c) - 1) = o
        BY <2>1, <2>2, KidFacts
    <2>4. CASE IsStored(c)' <=> IsStored(c)
        <3>1. stored' = stored
            BY <1>3, <2>4 DEF Takes
        <3> QED BY <3>1
    <2>5. CASE ~(IsStored(c)' <=> IsStored(c))
        <3>1. IsStored(c) /\ stored' = stored \ {c}
            BY <1>3, <2>5 DEF Takes
        <3>2. Cache!Drop(c)
            BY <2>1, <2>2, <2>3, <3>1 DEF Cache!Drop, Cache!Root, Cache!Parent, Root
        <3> QED BY <3>2 DEF Cache!Next
    <2> QED BY <2>4, <2>5
<1> QED BY <1>1, <1>2, <1>3, CacheMoves

\* Whatever dies, resumes or deletes, results come and go as ResultCache allows:
\* stored once their inputs are, dropped once their parent's is there.
THEOREM JoinsImplementCache == Spec => Cache!Safety
<1>1. Init => Cache!Init
    <2> SUFFICES ASSUME Init, NEW n \in Node, IsStored(n) PROVE n \in Shared
        BY DEF Cache!Init
    <2>1. PICK pieces \in [Shared -> LeftBehind] :
            file = [m \in Node |->
                        [sig   |-> IF m \in Shared THEN pieces[m] ELSE NoFile,
                         union |-> NoFile]]
        BY DEF Init
    <2>2. file[n] = [sig |-> IF n \in Shared THEN pieces[n] ELSE NoFile,
                     union |-> NoFile]
        BY <2>1
    <2>3. n \notin Shared => file[n]["sig"] = NoFile
        BY <2>2
    <2>4. file[n]["union"] = NoFile
        BY <2>2
    <2> QED BY <2>3, <2>4, PartFacts DEF IsStored, SigIsStored
<1> QED BY <1>1, CacheStep, JoinsSound, PTL DEF Spec, Cache!Safety

=============================================================================
