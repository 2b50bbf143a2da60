----------------------------- MODULE CommonLemmas -----------------------------
(***************************************************************************)
(* Facts that the proofs of several modules share: about positions in a    *)
(* tree, finite sequences of turns; that a finite set has a least element  *)
(* under any strict order, such as the order of a walk; induction over the *)
(* numbers; and powers of two and sums over a finite set, which are both   *)
(* defined by recursion, so that it takes induction to show that the       *)
(* definition has a solution.                                              *)
(***************************************************************************)
EXTENDS Bits, Sequences, FiniteSets, FiniteSetTheorems, SequenceTheorems,
        WellFoundedInduction, TLAPS

-----------------------------------------------------------------------------
(* Positions.                                                              *)

\* A prefix of a sequence, element by element.
LEMMA PrefixElements ==
    ASSUME NEW S, NEW s \in Seq(S), NEW k \in 0 .. Len(s)
    PROVE  /\ SubSeq(s, 1, k) \in Seq(S)
           /\ Len(SubSeq(s, 1, k)) = k
           /\ \A i \in 1 .. k : SubSeq(s, 1, k)[i] = s[i]
<1>1. Len(s) \in Nat /\ k \in Nat
    OBVIOUS
<1>2. \A i \in 1 .. k : s[i] \in S
    BY <1>1, ElementOfSeq
<1>3. 1 \in Int /\ k \in Int
    BY <1>1
<1>4. /\ SubSeq(s, 1, k) \in Seq(S)
      /\ Len(SubSeq(s, 1, k)) = IF 1 <= k THEN k - 1 + 1 ELSE 0
      /\ \A i \in 1 .. k - 1 + 1 : SubSeq(s, 1, k)[i] = s[1 + i - 1]
    BY <1>2, <1>3, SubSeqProperties
<1> QED BY <1>1, <1>4

\* A prefix of a prefix is a prefix.
LEMMA PrefixOfPrefix ==
    ASSUME NEW S, NEW s \in Seq(S), NEW k \in 0 .. Len(s), NEW i \in 0 .. k
    PROVE  SubSeq(SubSeq(s, 1, k), 1, i) = SubSeq(s, 1, i)
<1>1. Len(s) \in Nat /\ k \in Nat /\ i \in Nat /\ i \in 0 .. Len(s)
    OBVIOUS
<1> DEFINE p == SubSeq(s, 1, k)
           a == SubSeq(p, 1, i)
           b == SubSeq(s, 1, i)
<1>2. p \in Seq(S) /\ Len(p) = k /\ \A j \in 1 .. k : p[j] = s[j]
    BY PrefixElements
<1>3. b \in Seq(S) /\ Len(b) = i /\ \A j \in 1 .. i : b[j] = s[j]
    BY <1>1, PrefixElements
<1> HIDE DEF p
<1>4. a \in Seq(S) /\ Len(a) = i /\ \A j \in 1 .. i : a[j] = p[j]
    BY <1>1, <1>2, PrefixElements
<1> HIDE DEF a, b
<1>5. \A j \in 1 .. Len(a) : a[j] = b[j]
    BY <1>1, <1>2, <1>3, <1>4
<1>6. a = b
    BY <1>3, <1>4, <1>5, SeqEqual
<1> QED BY <1>6 DEF a, b, p

\* The whole of a sequence is its longest prefix, and the empty one its shortest.
LEMMA WholePrefix ==
    ASSUME NEW S, NEW s \in Seq(S)
    PROVE  SubSeq(s, 1, Len(s)) = s /\ SubSeq(s, 1, 0) = << >>
BY SubSeqFull, SubSeqEmpty

\* One turn further down.
LEMMA AppendElements ==
    ASSUME NEW S, NEW s \in Seq(S), NEW e \in S
    PROVE  /\ Append(s, e) \in Seq(S)
           /\ Len(Append(s, e)) = Len(s) + 1
           /\ \A i \in 1 .. Len(s) : Append(s, e)[i] = s[i]
           /\ Append(s, e)[Len(s) + 1] = e
BY AppendProperties

\* The prefixes of a position one turn further down are the position's own and
\* the position itself.
LEMMA PrefixOfAppend ==
    ASSUME NEW S, NEW s \in Seq(S), NEW e \in S, NEW k \in 0 .. Len(s)
    PROVE  SubSeq(Append(s, e), 1, k) = SubSeq(s, 1, k)
<1> DEFINE t == Append(s, e)
           a == SubSeq(t, 1, k)
           b == SubSeq(s, 1, k)
<1>1. Len(s) \in Nat /\ k \in Nat
    OBVIOUS
<1>2. t \in Seq(S) /\ Len(t) = Len(s) + 1 /\ \A i \in 1 .. Len(s) : t[i] = s[i]
    BY AppendElements
<1>3. b \in Seq(S) /\ Len(b) = k /\ \A j \in 1 .. k : b[j] = s[j]
    BY PrefixElements
<1> HIDE DEF t
<1>4. k \in 0 .. Len(t)
    BY <1>1, <1>2
<1>5. a \in Seq(S) /\ Len(a) = k /\ \A j \in 1 .. k : a[j] = t[j]
    BY <1>2, <1>4, PrefixElements
<1> HIDE DEF a, b
<1>6. \A j \in 1 .. Len(a) : a[j] = b[j]
    BY <1>1, <1>2, <1>3, <1>5
<1>7. a = b
    BY <1>3, <1>5, <1>6, SeqEqual
<1> QED BY <1>7 DEF a, b, t

\* A position other than the root is one turn below its parent.
LEMMA AppendToParent ==
    ASSUME NEW S, NEW s \in Seq(S), s # << >>
    PROVE  /\ Len(s) - 1 \in 0 .. Len(s)
           /\ s[Len(s)] \in S
           /\ Append(SubSeq(s, 1, Len(s) - 1), s[Len(s)]) = s
<1>1. Len(s) \in Nat \ {0}
    BY EmptySeq
<1>2. Len(s) - 1 \in 0 .. Len(s) /\ Len(s) \in 1 .. Len(s)
    BY <1>1
<1> DEFINE p == SubSeq(s, 1, Len(s) - 1)
           e == s[Len(s)]
           t == Append(p, e)
<1>3. p \in Seq(S) /\ Len(p) = Len(s) - 1 /\ \A i \in 1 .. Len(s) - 1 : p[i] = s[i]
    BY <1>2, PrefixElements
<1>4. e \in S
    BY <1>2, ElementOfSeq
<1> HIDE DEF p, e
<1>5. /\ t \in Seq(S) /\ Len(t) = Len(p) + 1
      /\ \A i \in 1 .. Len(p) : t[i] = p[i]
      /\ t[Len(p) + 1] = e
    BY <1>3, <1>4, AppendElements
<1> HIDE DEF t
<1>6. Len(t) = Len(s)
    BY <1>1, <1>3, <1>5
<1>7. ASSUME NEW i \in 1 .. Len(t) PROVE t[i] = s[i]
    <2>1. CASE i = Len(s)
        BY <2>1, <1>1, <1>3, <1>5 DEF e
    <2>2. CASE i # Len(s)
        <3>1. i \in 1 .. Len(s) - 1
            BY <2>2, <1>1, <1>6
        <3> QED BY <3>1, <1>3, <1>5
    <2> QED BY <2>1, <2>2
<1>8. t = s
    BY <1>5, <1>6, <1>7, SeqEqual
<1> QED BY <1>2, <1>4, <1>8 DEF p, e, t

\* A finite set has an element that no other comes before, in any strict order.
LEMMA FirstExists ==
    ASSUME NEW S, IsFiniteSet(S), S # {}, NEW R,
           \A x \in S : <<x, x>> \notin R,
           \A x, y, z \in S : <<x, y>> \in R /\ <<y, z>> \in R => <<x, z>> \in R
    PROVE  \E x \in S : \A y \in S : <<y, x>> \notin R
<1> DEFINE Down(x) == {y \in S : <<y, x>> \in R}
           T == {Down(x) : x \in S}
<1>1. T \subseteq FiniteSubsetsOf(S) /\ T # {}
    <2>1. FiniteSubsetsOf(S) = SUBSET S
        BY FS_FiniteSubsetsOfFinite
    <2>2. \A x \in S : Down(x) \in SUBSET S
        OBVIOUS
    <2> HIDE DEF Down
    <2> QED BY <2>1, <2>2
<1>2. PICK D \in T : \A E \in T : <<E, D>> \notin StrictSubsetOrdering(S)
    <2> HIDE DEF T
    <2> QED BY <1>1, FS_StrictSubsetOrderingWellFounded, WFMin
<1>3. PICK x \in S : D = Down(x)
    BY <1>2
<1>4. SUFFICES ASSUME NEW y \in S, <<y, x>> \in R PROVE FALSE
    BY <1>3
<1>5. Down(y) \subseteq Down(x)
    BY <1>4
<1>6. y \in Down(x) /\ y \notin Down(y)
    BY <1>4
<1>7. <<Down(y), Down(x)>> \in StrictSubsetOrdering(S)
    <2>1. Down(y) \in SUBSET S /\ Down(x) \in SUBSET S
        OBVIOUS
    <2>2. Down(y) # Down(x)
        BY <1>6
    <2> HIDE DEF Down
    <2> QED BY <2>1, <2>2, <1>5 DEF StrictSubsetOrdering
<1>8. Down(y) \in T
    OBVIOUS
<1> QED BY <1>2, <1>3, <1>7, <1>8

-----------------------------------------------------------------------------
(* Induction.                                                              *)

\* A set of natural numbers that is not empty has a least element.
LEMMA LeastNumber ==
    ASSUME NEW S, S \subseteq Nat, S # {}
    PROVE  \E m \in S : \A k \in S : m <= k
<1>1. PICK n \in S : TRUE
    OBVIOUS
<1> DEFINE T == {k \in S : k <= n}
           R == {p \in Nat \X Nat : p[1] < p[2]}
<1>2. \A x, y \in Nat : <<x, y>> \in R <=> x < y
    OBVIOUS
<1>0. n \in Nat /\ 0 \in Int /\ n \in Int
    BY <1>1
<1>t. \A k : k \in T <=> k \in S /\ k <= n
    OBVIOUS
<1> HIDE DEF T
<1>s. \A k \in S : k \in Nat
    OBVIOUS
<1>3. T \subseteq 0 .. n
    <2>1. ASSUME NEW k \in T PROVE k \in 0 .. n
        <3>1. k \in Nat /\ k <= n
            BY <1>t, <1>s
        <3> QED BY <1>0, <3>1
    <2> QED BY <2>1
<1>4. IsFiniteSet(T)
    <2>1. IsFiniteSet(0 .. n)
        BY <1>0, FS_Interval
    <2> QED BY <1>3, <2>1, FS_Subset
<1>5. n \in T /\ T \subseteq Nat /\ T \subseteq S
    <2>1. n <= n
        BY <1>0
    <2> QED BY <1>1, <1>t, <1>s, <2>1
<1>6. /\ \A x \in T : <<x, x>> \notin R
      /\ \A x, y, z \in T : <<x, y>> \in R /\ <<y, z>> \in R => <<x, z>> \in R
    <2> HIDE DEF R
    <2>1. ASSUME NEW x \in T, NEW y \in T, NEW z \in T
          PROVE  /\ <<x, x>> \notin R
                 /\ <<x, y>> \in R /\ <<y, z>> \in R => <<x, z>> \in R
        <3>1. x \in Nat /\ y \in Nat /\ z \in Nat
            BY <1>5
        <3> QED BY <1>2, <3>1
    <2> QED BY <2>1
<1>7. \E x \in T : \A y \in T : <<y, x>> \notin R
    <2> HIDE DEF R
    <2>1. T # {}
        BY <1>5
    <2> QED BY <1>4, <1>6, <2>1, FirstExists
<1>8. PICK m \in T : \A y \in T : <<y, m>> \notin R
    BY <1>7
<1>9. \A y \in T : m <= y
    <2>1. ASSUME NEW y \in T PROVE m <= y
        <3>1. m \in Nat /\ y \in Nat /\ <<y, m>> \notin R
            BY <1>5, <1>8
        <3> HIDE DEF R
        <3>2. ~(y < m)
            BY <1>2, <3>1
        <3> QED BY <3>1, <3>2
    <2> QED BY <2>1
<1>10. ASSUME NEW k \in S PROVE m <= k
    <2>1. m \in Nat /\ m <= n /\ k \in Nat
        BY <1>8, <1>5, <1>t, <1>s
    <2>2. k <= n => m <= k
        BY <1>9, <1>t
    <2> QED BY <1>0, <2>1, <2>2
<1> QED BY <1>5, <1>8, <1>10

\* Induction over the numbers, in terms of a set.
LEMMA SetInduction ==
    ASSUME NEW S, 0 \in S, \A n \in Nat : n \in S => n + 1 \in S
    PROVE  Nat \subseteq S
<1> SUFFICES ASSUME Nat \ S # {} PROVE FALSE
    OBVIOUS
<1>1. PICK m \in Nat \ S : \A k \in Nat \ S : m <= k
    <2> DEFINE T == Nat \ S
    <2>1. T \subseteq Nat /\ T # {}
        OBVIOUS
    <2> HIDE DEF T
    <2>2. \E m \in T : \A k \in T : m <= k
        BY <2>1, LeastNumber
    <2> QED BY <2>2 DEF T
<1>2. m # 0 /\ m \in Nat
    BY <1>1
<1>3. m - 1 \in Nat /\ m - 1 \in S
    BY <1>1, <1>2
<1> QED BY <1>1, <1>3

-----------------------------------------------------------------------------
(* Powers of two.                                                          *)

\* Powers is the function its recursion describes: one as far as any number is
\* made by induction, and they agree.
LEMMA PowersRecursion ==
    /\ Powers \in [Nat -> Nat]
    /\ Powers[0] = 1
    /\ \A k \in Nat : Powers[k + 1] = 2 * Powers[k]
<1> DEFINE Solves(f, n) == /\ f \in [0 .. n -> Nat]
                           /\ f[0] = 1
                           /\ \A k \in 1 .. n : f[k] = 2 * f[k - 1]
           S == {n \in Nat : \E f \in [0 .. n -> Nat] : Solves(f, n)}
<1>1. 0 \in S
    <2>1. Solves([k \in 0 .. 0 |-> 1], 0)
        OBVIOUS
    <2> QED BY <2>1
<1>2. ASSUME NEW n \in Nat, n \in S PROVE n + 1 \in S
    <2>1. PICK f \in [0 .. n -> Nat] : Solves(f, n)
        BY <1>2
    <2> DEFINE g == [k \in 0 .. n + 1 |-> IF k = n + 1 THEN 2 * f[n] ELSE f[k]]
    <2>2. g \in [0 .. n + 1 -> Nat]
        <3>1. ASSUME NEW k \in 0 .. n + 1
              PROVE  (IF k = n + 1 THEN 2 * f[n] ELSE f[k]) \in Nat
            BY <2>1
        <3> QED BY <3>1
    <2>3. g[0] = 1
        BY <2>1
    <2>4. ASSUME NEW k \in 1 .. n + 1 PROVE g[k] = 2 * g[k - 1]
        <3>1. k - 1 \in 0 .. n /\ k \in 0 .. n + 1 /\ k - 1 # n + 1
            OBVIOUS
        <3>2. g[k - 1] = f[k - 1]
            BY <3>1
        <3>3. CASE k = n + 1
            BY <3>1, <3>2, <3>3
        <3>4. CASE k # n + 1
            <4>1. k \in 1 .. n
                BY <3>4
            <4> QED BY <2>1, <3>1, <3>2, <3>4, <4>1
        <3> QED BY <3>3, <3>4
    <2>5. Solves(g, n + 1)
        BY <2>2, <2>3, <2>4
    <2>6. n + 1 \in Nat
        OBVIOUS
    <2> HIDE DEF g, Solves
    <2> QED BY <2>2, <2>5, <2>6
<1>3. Nat \subseteq S
    <2> HIDE DEF S
    <2> QED BY <1>1, <1>2, SetInduction
<1>4. ASSUME NEW n \in Nat, NEW m \in Nat, NEW f, NEW g, Solves(f, n), Solves(g, m)
      PROVE  \A k \in Nat : k <= n /\ k <= m => f[k] = g[k]
    <2> DEFINE E == {k \in Nat : k <= n /\ k <= m => f[k] = g[k]}
    <2>1. 0 \in E
        BY <1>4
    <2>2. ASSUME NEW k \in Nat, k \in E PROVE k + 1 \in E
        <3> SUFFICES ASSUME k + 1 <= n /\ k + 1 <= m
                     PROVE  f[k + 1] = g[k + 1]
            OBVIOUS
        <3>1. k + 1 \in 1 .. n /\ k + 1 \in 1 .. m /\ (k + 1) - 1 = k
            OBVIOUS
        <3>2. f[k + 1] = 2 * f[k] /\ g[k + 1] = 2 * g[k]
            BY <1>4, <3>1
        <3>3. f[k] = g[k]
            BY <2>2
        <3> QED BY <3>2, <3>3
    <2>3. Nat \subseteq E
        <3> HIDE DEF E
        <3> QED BY <2>1, <2>2, SetInduction
    <2> QED BY <2>3
<1> DEFINE F(n) == CHOOSE f \in [0 .. n -> Nat] : Solves(f, n)
           P == [n \in Nat |-> F(n)[n]]
<1>5. \A n \in Nat : Solves(F(n), n)
    <2>1. \A n \in Nat : \E f \in [0 .. n -> Nat] : Solves(f, n)
        BY <1>3
    <2> HIDE DEF Solves
    <2> QED BY <2>1
<1> HIDE DEF F
<1>6. P \in [Nat -> Nat]
    <2>1. \A n \in Nat : F(n)[n] \in Nat
        BY <1>5
    <2> QED BY <2>1
<1>7. P[0] = 1
    BY <1>5
<1>8. ASSUME NEW k \in Nat PROVE P[k + 1] = 2 * P[k]
    <2>1. k + 1 \in Nat /\ k + 1 \in 1 .. k + 1 /\ (k + 1) - 1 = k
        OBVIOUS
    <2>2. F(k + 1)[k + 1] = 2 * F(k + 1)[k]
        BY <1>5, <2>1
    <2>3. F(k + 1)[k] = F(k)[k]
        <3>1. k <= k + 1 /\ k <= k
            OBVIOUS
        <3>2. Solves(F(k + 1), k + 1) /\ Solves(F(k), k)
            BY <1>5, <2>1
        <3> HIDE DEF Solves
        <3> QED BY <1>4, <2>1, <3>1, <3>2
    <2> QED BY <2>1, <2>2, <2>3
<1> HIDE DEF P
<1> DEFINE Recursive(f) == f = [k \in Nat |-> IF k = 0 THEN 1 ELSE 2 * f[k - 1]]
<1>9. Recursive(P)
    <2> DEFINE Q == [k \in Nat |-> IF k = 0 THEN 1 ELSE 2 * P[k - 1]]
    <2>1. ASSUME NEW k \in Nat PROVE P[k] = Q[k]
        <3>1. CASE k = 0
            BY <1>7, <3>1
        <3>2. CASE k # 0
            <4>1. k - 1 \in Nat /\ (k - 1) + 1 = k
                BY <3>2
            <4> QED BY <1>8, <3>2, <4>1
        <3> QED BY <3>1, <3>2
    <2> QED BY <1>6, <2>1
<1>10. Powers = CHOOSE f : Recursive(f)
    BY DEF Powers
<1>11. Recursive(Powers)
    <2> HIDE DEF Recursive
    <2> QED BY <1>9, <1>10
<1>12. Powers = [k \in Nat |-> IF k = 0 THEN 1 ELSE 2 * Powers[k - 1]]
    BY <1>11
<1> HIDE DEF Recursive
<1>13. Powers[0] = 1
    BY <1>12
<1>14. \A k \in Nat : Powers[k + 1] = 2 * Powers[k]
    <2>1. \A k \in Nat : k + 1 \in Nat /\ k + 1 # 0 /\ (k + 1) - 1 = k
        OBVIOUS
    <2>2. \A k \in Nat : Powers[k] = IF k = 0 THEN 1 ELSE 2 * Powers[k - 1]
        BY <1>12
    <2> QED BY <2>1, <2>2
<1>15. Powers \in [Nat -> Nat]
    <2> DEFINE N == {k \in Nat : Powers[k] \in Nat}
    <2>1. 0 \in N
        BY <1>13
    <2>2. ASSUME NEW k \in Nat, k \in N PROVE k + 1 \in N
        BY <1>14, <2>2
    <2>3. Nat \subseteq N
        <3> HIDE DEF N
        <3> QED BY <2>1, <2>2, SetInduction
    <2>4. \A k \in Nat : Powers[k] \in Nat
        BY <2>3
    <2> QED BY <1>12, <2>4
<1> QED BY <1>13, <1>14, <1>15

\* A power is positive, and the next one is twice as much.
LEMMA PowerDoubles ==
    /\ B(0) = 1
    /\ \A k \in Nat : B(k) \in Nat \ {0} /\ B(k + 1) = 2 * B(k)
<1>1. /\ \A k \in Nat : Powers[k] \in Nat
      /\ Powers[0] = 1
      /\ \A k \in Nat : Powers[k + 1] = 2 * Powers[k]
    BY PowersRecursion
<1> DEFINE N == {k \in Nat : Powers[k] # 0}
<1>2. 0 \in N
    BY <1>1
<1>3. ASSUME NEW k \in Nat, k \in N PROVE k + 1 \in N
    <2>1. Powers[k] \in Nat /\ Powers[k] # 0 /\ Powers[k + 1] = 2 * Powers[k]
        BY <1>1, <1>3
    <2> QED BY <2>1
<1>4. Nat \subseteq N
    <2> HIDE DEF N
    <2> QED BY <1>2, <1>3, SetInduction
<1>5. \A k \in Nat : Powers[k] # 0
    BY <1>4
<1> QED BY <1>1, <1>5 DEF B

\* Powers grow, and faster than their exponents.
LEMMA PowerOrder ==
    /\ \A j, k \in Nat : j < k => 2 * B(j) <= B(k) /\ B(j) < B(k)
    /\ \A k \in Nat : k < B(k)
<1>1. \A k \in Nat : B(k) \in Nat \ {0} /\ B(k + 1) = 2 * B(k)
    BY PowerDoubles
<1>2. ASSUME NEW j \in Nat, NEW k \in Nat, j < k PROVE 2 * B(j) <= B(k)
    <2> DEFINE N == {d \in Nat : 2 * B(j) <= B(j + 1 + d)}
    <2>1. 0 \in N
        BY <1>1
    <2>2. ASSUME NEW d \in Nat, d \in N PROVE d + 1 \in N
        <3>1. j + 1 + d \in Nat /\ j + 1 + (d + 1) = (j + 1 + d) + 1
            OBVIOUS
        <3>2. B(j + 1 + (d + 1)) = 2 * B(j + 1 + d) /\ B(j + 1 + d) \in Nat
            BY <1>1, <3>1
        <3>3. 2 * B(j) <= B(j + 1 + d) /\ B(j) \in Nat
            BY <1>1, <2>2
        <3>4. d + 1 \in Nat /\ 2 * B(j) <= B(j + 1 + (d + 1))
            BY <3>2, <3>3
        <3> QED BY <3>4
    <2>3. Nat \subseteq N
        <3> HIDE DEF N
        <3> QED BY <2>1, <2>2, SetInduction
    <2>4. k - j - 1 \in Nat /\ j + 1 + (k - j - 1) = k
        BY <1>2
    <2>5. 2 * B(j) <= B(j + 1 + (k - j - 1))
        BY <2>3, <2>4
    <2> QED BY <2>4, <2>5
<1>3. \A j, k \in Nat : j < k => B(j) < B(k)
    <2>1. ASSUME NEW j \in Nat, NEW k \in Nat, j < k PROVE B(j) < B(k)
        <3>1. 2 * B(j) <= B(k) /\ B(j) \in Nat \ {0} /\ B(k) \in Nat
            BY <1>1, <1>2, <2>1
        <3> QED BY <3>1
    <2> QED BY <2>1
<1>4. \A k \in Nat : k < B(k)
    <2> DEFINE N == {k \in Nat : k < B(k)}
    <2>1. 0 \in N
        BY <1>1
    <2>2. ASSUME NEW k \in Nat, k \in N PROVE k + 1 \in N
        <3>1. k < B(k) /\ B(k) \in Nat \ {0} /\ B(k + 1) = 2 * B(k)
            BY <1>1, <2>2
        <3> QED BY <3>1
    <2>3. Nat \subseteq N
        <3> HIDE DEF N
        <3> QED BY <2>1, <2>2, SetInduction
    <2> QED BY <2>3
<1> QED BY <1>2, <1>3, <1>4

\* Of two powers, the order of the exponents is the order of the powers.
LEMMA PowerInjective ==
    ASSUME NEW j \in Nat, NEW k \in Nat
    PROVE  /\ B(j) = B(k) => j = k
           /\ B(j) < B(k) => j < k
           /\ B(j) <= B(k) <=> j <= k
<1>1. B(j) \in Nat /\ B(k) \in Nat
    BY PowerDoubles
<1>2. /\ j < k => B(j) < B(k)
      /\ k < j => B(k) < B(j)
    BY PowerOrder
<1>3. j < k \/ j = k \/ k < j
    OBVIOUS
<1> QED BY <1>1, <1>2, <1>3

\* The exponents add up.
LEMMA PowerSum ==
    ASSUME NEW j \in Nat, NEW k \in Nat
    PROVE  B(j + k) = B(j) * B(k)
<1>1. B(0) = 1 /\ \A i \in Nat : B(i) \in Nat \ {0} /\ B(i + 1) = 2 * B(i)
    BY PowerDoubles
<1> DEFINE N == {i \in Nat : B(j + i) = B(j) * B(i)}
<1>2. 0 \in N
    <2>1. j + 0 = j /\ B(j) \in Nat
        BY <1>1
    <2> QED BY <1>1, <2>1
<1>3. ASSUME NEW i \in Nat, i \in N PROVE i + 1 \in N
    <2>1. j + i \in Nat /\ j + (i + 1) = (j + i) + 1
        OBVIOUS
    <2>2. B(j + (i + 1)) = 2 * B(j + i) /\ B(i + 1) = 2 * B(i)
        BY <1>1, <2>1
    <2>3. B(j + i) = B(j) * B(i)
        BY <1>3
    <2>4. B(j) \in Nat /\ B(i) \in Nat
        BY <1>1
    <2>5. \A x, y \in Nat : 2 * (x * y) = x * (2 * y)
        OBVIOUS
    <2>6. B(j + (i + 1)) = B(j) * B(i + 1)
        BY <2>2, <2>3, <2>4, <2>5
    <2> QED BY <2>6
<1>4. Nat \subseteq N
    <2> HIDE DEF N
    <2> QED BY <1>2, <1>3, SetInduction
<1> QED BY <1>4

-----------------------------------------------------------------------------
(* Sums over a finite set, in whatever order its members are chosen.       *)

LEMMA SomeMember ==
    ASSUME NEW T, Cardinality(T) # 0
    PROVE  T # {}
BY FS_EmptySet

\* A set of sets that has the empty one, and one more member wherever it has
\* what is left without it, has every subset of a finite set.
LEMMA SubsetInduction ==
    ASSUME NEW S, IsFiniteSet(S), NEW X, {} \in X,
           \A T \in SUBSET S : T # {} /\ (\A x \in T : T \ {x} \in X) => T \in X
    PROVE  SUBSET S \subseteq X
<1> DEFINE N == {n \in Nat : \A T \in SUBSET S : Cardinality(T) = n => T \in X}
<1>1. \A T \in SUBSET S : IsFiniteSet(T) /\ Cardinality(T) \in Nat
    BY FS_Subset, FS_CardinalityType
<1>2. 0 \in N
    BY <1>1, FS_EmptySet
<1>3. ASSUME NEW n \in Nat, n \in N PROVE n + 1 \in N
    <2> SUFFICES ASSUME NEW T \in SUBSET S, Cardinality(T) = n + 1 PROVE T \in X
        OBVIOUS
    <2>1. T # {}
        <3>1. Cardinality(T) # 0
            OBVIOUS
        <3> QED BY <3>1, SomeMember, ZenonT(30)
    <2>2. ASSUME NEW x \in T PROVE T \ {x} \in X
        <3>1. Cardinality(T \ {x}) = n
            BY <1>1, FS_RemoveElement
        <3> QED BY <1>3, <3>1
    <2> QED BY <2>1, <2>2
<1>4. Nat \subseteq N
    <2> HIDE DEF N
    <2> QED BY <1>2, <1>3, SetInduction
<1> QED BY <1>1, <1>4

Chosen(T) == CHOOSE x \in T : TRUE

\* h sums f over each subset of S, as a fold that adds does.
Sums(h, f, S) ==
    h = [T \in SUBSET S |-> IF T = {} THEN 0 ELSE f[Chosen(T)] + h[T \ {Chosen(T)}]]

LEMMA SumsAt ==
    ASSUME NEW f, NEW S, NEW h, Sums(h, f, S)
    PROVE  /\ h[{}] = 0
           /\ \A T \in SUBSET S : T # {} =>
                /\ Chosen(T) \in T
                /\ T \ {Chosen(T)} \in SUBSET S
                /\ h[T] = f[Chosen(T)] + h[T \ {Chosen(T)}]
<1>1. h[{}] = 0
    <2>1. {} \in SUBSET S
        OBVIOUS
    <2> QED BY <2>1 DEF Sums
<1>2. \A T \in SUBSET S : T # {} => Chosen(T) \in T
    BY DEF Chosen
<1>3. \A T \in SUBSET S : T # {} => h[T] = f[Chosen(T)] + h[T \ {Chosen(T)}]
    <2> DEFINE F(T) == IF T = {} THEN 0 ELSE f[Chosen(T)] + h[T \ {Chosen(T)}]
    <2>1. h = [T \in SUBSET S |-> F(T)]
        BY DEF Sums
    <2>2. \A T \in SUBSET S : h[T] = F(T)
        <3> HIDE DEF F
        <3> QED BY <2>1
    <2> QED BY <2>2
<1> QED BY <1>1, <1>2, <1>3

\* Every function on a finite set can be summed.
LEMMA SumsExist ==
    ASSUME NEW f, NEW S, IsFiniteSet(S)
    PROVE  \E h : Sums(h, f, S)
<1> DEFINE More(h, T) == IF T = {} THEN 0 ELSE f[Chosen(T)] + h[T \ {Chosen(T)}]
           UpTo(h, n) == h = [T \in SUBSET S |->
                                IF Cardinality(T) <= n THEN More(h, T) ELSE 0]
           Summed(n) == \E h : UpTo(h, n)
           N == {n \in Nat : Summed(n)}
<1>1. \A T \in SUBSET S : /\ IsFiniteSet(T) /\ Cardinality(T) \in Nat
                          /\ Cardinality(T) <= Cardinality(S)
                          /\ Cardinality(T) = 0 <=> T = {}
    BY FS_Subset, FS_CardinalityType, FS_EmptySet
<1>2. 0 \in N
    <2> DEFINE h == [T \in SUBSET S |-> 0]
    <2>1. \A T \in SUBSET S : Cardinality(T) <= 0 => More(h, T) = 0
        BY <1>1
    <2>2. UpTo(h, 0)
        <3> HIDE DEF More
        <3> QED BY <2>1
    <2> QED BY <2>2
<1>3. ASSUME NEW n \in Nat, n \in N PROVE n + 1 \in N
    <2>1. PICK h : UpTo(h, n)
        BY <1>3
    <2> DEFINE g == [T \in SUBSET S |-> IF Cardinality(T) <= n + 1 THEN More(h, T) ELSE 0]
    <2>2. ASSUME NEW T \in SUBSET S, Cardinality(T) <= n + 1
          PROVE  More(h, T) = More(g, T)
        <3>1. CASE T = {}
            BY <3>1
        <3>2. CASE T # {}
            <4> DEFINE R == T \ {Chosen(T)}
            <4>1. Chosen(T) \in T
                BY <3>2 DEF Chosen
            <4>2. R \in SUBSET S /\ Cardinality(R) = Cardinality(T) - 1
                BY <4>1, <1>1, FS_RemoveElement
            <4>3. Cardinality(R) <= n /\ Cardinality(R) <= n + 1 /\ Cardinality(R) \in Nat
                BY <1>1, <2>2, <4>2
            <4>4. h[R] = More(h, R)
                <5> HIDE DEF R, More
                <5> QED BY <2>1, <4>2, <4>3
            <4>5. g[R] = More(h, R)
                <5> HIDE DEF R, More
                <5> QED BY <4>2, <4>3
            <4> HIDE DEF g
            <4>6. h[R] = g[R]
                BY <4>4, <4>5
            <4> QED BY <3>2, <4>6
        <3> QED BY <3>1, <3>2
    <2>3. UpTo(g, n + 1)
        <3>1. \A T \in SUBSET S :
                (IF Cardinality(T) <= n + 1 THEN More(h, T) ELSE 0)
                    = IF Cardinality(T) <= n + 1 THEN More(g, T) ELSE 0
            BY <2>2
        <3> DEFINE G(T) == IF Cardinality(T) <= n + 1 THEN More(g, T) ELSE 0
                   H(T) == IF Cardinality(T) <= n + 1 THEN More(h, T) ELSE 0
        <3>2. g = [T \in SUBSET S |-> H(T)]
            OBVIOUS
        <3>3. \A T \in SUBSET S : H(T) = G(T)
            BY <3>1
        <3> HIDE DEF g, G, H, More
        <3>4. g = [T \in SUBSET S |-> G(T)]
            BY <3>2, <3>3
        <3> QED BY <3>4 DEF G
    <2>4. \E q : UpTo(q, n + 1)
        <3> HIDE DEF g, UpTo
        <3> WITNESS g
        <3> QED BY <2>3
    <2>5. Summed(n + 1)
        BY <2>4
    <2> HIDE DEF Summed
    <2> QED BY <2>5
<1>4. Nat \subseteq N
    <2> HIDE DEF N
    <2> QED BY <1>2, <1>3, SetInduction
<1>5. Cardinality(S) \in Nat
    BY FS_CardinalityType
<1>6. PICK h : UpTo(h, Cardinality(S))
    BY <1>4, <1>5
<1>7. h = [T \in SUBSET S |-> More(h, T)]
    <2>1. \A T \in SUBSET S : Cardinality(T) <= Cardinality(S)
        BY <1>1
    <2> HIDE DEF More
    <2> QED BY <1>6, <2>1
<1>8. Sums(h, f, S)
    BY <1>7 DEF Sums
<1> QED BY <1>8

\* A sum of naturals is one, and no less than a sum of no more, term by term.
LEMMA SumsOrdered ==
    ASSUME NEW S, IsFiniteSet(S), NEW f, NEW g, \A x \in S : f[x] \in Nat /\ g[x] \in Nat,
           \A x \in S : f[x] <= g[x], NEW h, Sums(h, f, S), NEW k, Sums(k, g, S)
    PROVE  h[S] \in Nat /\ k[S] \in Nat /\ h[S] <= k[S]
<1> DEFINE X == {T \in SUBSET S : h[T] \in Nat /\ k[T] \in Nat /\ h[T] <= k[T]}
<1>h. /\ h[{}] = 0
      /\ \A T \in SUBSET S : T # {} =>
            Chosen(T) \in T /\ h[T] = f[Chosen(T)] + h[T \ {Chosen(T)}]
    BY SumsAt
<1>k. /\ k[{}] = 0
      /\ \A T \in SUBSET S : T # {} => k[T] = g[Chosen(T)] + k[T \ {Chosen(T)}]
    <2>1. Sums(k, g, S)
        OBVIOUS
    <2> QED BY ONLY <2>1, SumsAt
<1>1. {} \in X
    BY <1>h, <1>k
<1>2. ASSUME NEW T \in SUBSET S, T # {}, \A x \in T : T \ {x} \in X PROVE T \in X
    <2>1. PICK x : x = Chosen(T)
        OBVIOUS
    <2>2. x \in T /\ h[T] = f[x] + h[T \ {x}]
        BY <1>2, <2>1, <1>h
    <2>3. k[T] = g[x] + k[T \ {x}]
        BY <1>2, <2>1, <1>k
    <2>4. T \ {x} \in X
        BY <1>2, <2>2
    <2>5. f[x] \in Nat /\ g[x] \in Nat /\ f[x] <= g[x]
        BY <2>2
    <2> QED BY <2>2, <2>3, <2>4, <2>5
<1>3. SUBSET S \subseteq X
    <2> HIDE DEF X
    <2> QED BY <1>1, <1>2, SubsetInduction
<1> QED BY <1>3

=============================================================================
