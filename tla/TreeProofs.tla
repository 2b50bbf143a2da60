----------------------------- MODULE TreeProofs -----------------------------
(***************************************************************************)
(* Theorems about Tree, for every size of a leaf, every number of bits     *)
(* left to the chain and every size of a run: the two children of a node   *)
(* split its range, ranges nest, no two ranges share a file, and the tree  *)
(* the dashboard builds for itself is the same.                            *)
(*                                                                         *)
(* What is used of powers of two is in CommonLemmas; from there on, a      *)
(* range is a matter of multiples, and the invariant of one node says what *)
(* its first index is a multiple of.                                       *)
(***************************************************************************)
EXTENDS MCTree, CommonLemmas

-----------------------------------------------------------------------------
(* Top powers.                                                             *)

\* The width of a number says between which powers it lies.
LEMMA WidthBounds ==
    ASSUME NEW k \in Nat \ {0}
    PROVE  /\ BitWidth(k) \in Nat \ {0}
           /\ TopSpan(k) \in Nat
           /\ TopSpan(k) + 1 = BitWidth(k)
           /\ B(TopSpan(k)) <= k
           /\ k < B(BitWidth(k))
           /\ B(BitWidth(k)) = 2 * B(TopSpan(k))
<1>1. B(0) = 1 /\ \A i \in Nat : B(i) \in Nat \ {0} /\ B(i + 1) = 2 * B(i)
    BY PowerDoubles
<1> DEFINE S == {w \in Nat : k < B(w)}
           Wide(w) == k < B(w) /\ (w = 0 \/ B(w - 1) <= k)
<1>2. k \in S /\ S \subseteq Nat
    BY PowerOrder
<1>3. PICK m \in S : \A w \in S : m <= w
    <2> HIDE DEF S
    <2>1. S # {}
        BY <1>2
    <2> QED BY <1>2, <2>1, LeastNumber
<1>4. m \in Nat /\ k < B(m) /\ m <= k
    BY <1>2, <1>3
<1>5. m \in 0 .. k /\ Wide(m)
    <2>1. CASE m = 0
        BY <1>4, <2>1
    <2>2. CASE m # 0
        <3>1. m - 1 \in Nat /\ ~(m <= m - 1)
            BY <1>4, <2>2
        <3>2. m - 1 \notin S
            BY <1>3, <3>1
        <3>3. ~(k < B(m - 1)) /\ B(m - 1) \in Nat
            BY <1>1, <3>1, <3>2
        <3>4. B(m - 1) <= k
            BY <3>3
        <3> QED BY <1>4, <3>4
    <2> QED BY <2>1, <2>2
<1> DEFINE w == BitWidth(k)
<1>6. w \in 0 .. k /\ Wide(w)
    <2>1. BitWidth(k) = CHOOSE v \in 0 .. k : Wide(v)
        BY DEF BitWidth
    <2> HIDE DEF Wide
    <2> QED BY <1>5, <2>1
<1> HIDE DEF w
<1>7. w # 0
    BY <1>1, <1>6
<1>8. w - 1 \in Nat /\ w \in Nat \ {0} /\ (w - 1) + 1 = w /\ B(w - 1) <= k /\ k < B(w)
    BY <1>6, <1>7
<1>9. B(w) = 2 * B(w - 1)
    BY <1>1, <1>8
<1> QED BY <1>8, <1>9 DEF TopSpan, w

\* A power is the top power of exactly one span.
LEMMA TopOfPower ==
    ASSUME NEW k \in Nat
    PROVE  B(k) \in Nat \ {0} /\ TopSpan(B(k)) = k
<1>1. B(k) \in Nat \ {0}
    BY PowerDoubles
<1> DEFINE t == TopSpan(B(k))
<1>2. t \in Nat /\ B(t) <= B(k) /\ B(k) < B(t + 1)
    BY <1>1, WidthBounds
<1> HIDE DEF t
<1>3. t <= k
    BY <1>2, PowerInjective
<1>4. k < t + 1
    <2>1. t + 1 \in Nat
        BY <1>2
    <2> QED BY <1>2, <2>1, PowerInjective
<1> QED BY <1>1, <1>2, <1>3, <1>4 DEF t

-----------------------------------------------------------------------------
(* Multiples.                                                              *)

Multiple(x, d) == \E q \in Nat : x = q * d

\* What sums and differences of multiples are multiples of.
LEMMA MultipleSums ==
    ASSUME NEW d \in Nat \ {0}
    PROVE  /\ Multiple(0, d) /\ Multiple(d, d) /\ Multiple(2 * d, d)
           /\ \A x, y : Multiple(x, d) /\ Multiple(y, d) => Multiple(x + y, d)
           /\ \A x, y : Multiple(x, d) /\ Multiple(y, d) /\ y <= x
                        => Multiple(x - y, d)
<1>1. Multiple(0, d) /\ Multiple(d, d) /\ Multiple(2 * d, d)
    <2>1. 0 = 0 * d /\ d = 1 * d /\ 2 * d = 2 * d
        OBVIOUS
    <2> QED BY <2>1 DEF Multiple
<1>2. ASSUME NEW x, NEW y, Multiple(x, d), Multiple(y, d)
      PROVE  Multiple(x + y, d)
    <2>1. PICK p \in Nat : x = p * d
        BY <1>2 DEF Multiple
    <2>2. PICK q \in Nat : y = q * d
        BY <1>2 DEF Multiple
    <2>3. x + y = (p + q) * d /\ p + q \in Nat
        BY <2>1, <2>2
    <2> QED BY <2>3 DEF Multiple
<1>3. ASSUME NEW x, NEW y, Multiple(x, d), Multiple(y, d), y <= x
      PROVE  Multiple(x - y, d)
    <2>1. PICK p \in Nat : x = p * d
        BY <1>3 DEF Multiple
    <2>2. PICK q \in Nat : y = q * d
        BY <1>3 DEF Multiple
    <2>3. q <= p
        <3> SUFFICES ASSUME p + 1 <= q PROVE FALSE
            BY <2>1, <2>2
        <3>1. (p + 1) * d <= q * d
            OBVIOUS
        <3>2. (p + 1) * d = p * d + d /\ p * d \in Nat /\ q * d \in Nat
            OBVIOUS
        <3> QED BY <1>3, <2>1, <2>2, <3>1, <3>2
    <2>4. x - y = (p - q) * d /\ p - q \in Nat
        BY <2>1, <2>2, <2>3
    <2> QED BY <2>4 DEF Multiple
<1> QED BY <1>1, <1>2, <1>3

\* Two multiples of d are the same or at least d apart.
LEMMA MultipleStep ==
    ASSUME NEW d \in Nat \ {0}, NEW x \in Nat, NEW y \in Nat,
           Multiple(x, d), Multiple(y, d), x < y
    PROVE  x + d <= y
<1>1. PICK p \in Nat : x = p * d
    BY DEF Multiple
<1>2. PICK q \in Nat : y = q * d
    BY DEF Multiple
<1>3. p < q
    <2> SUFFICES ASSUME q <= p PROVE FALSE
        BY <1>1, <1>2
    <2>1. q * d <= p * d
        OBVIOUS
    <2> QED BY <1>1, <1>2, <2>1
<1>4. (p + 1) * d <= q * d
    BY <1>3
<1>5. (p + 1) * d = p * d + d
    OBVIOUS
<1> QED BY <1>1, <1>2, <1>4, <1>5

\* A multiple of a multiple.
LEMMA MultipleTransitive ==
    ASSUME NEW d \in Nat, NEW e \in Nat, NEW x, Multiple(e, d), Multiple(x, e)
    PROVE  Multiple(x, d)
<1>1. PICK p \in Nat : e = p * d
    BY DEF Multiple
<1>2. PICK q \in Nat : x = q * e
    BY DEF Multiple
<1>3. q * (p * d) = (q * p) * d /\ q * p \in Nat
    OBVIOUS
<1> QED BY <1>1, <1>2, <1>3 DEF Multiple

\* A power of two is a multiple of every smaller one.
LEMMA PowerMultiple ==
    ASSUME NEW j \in Nat, NEW k \in Nat, j <= k
    PROVE  Multiple(B(k), B(j))
<1>1. k - j \in Nat /\ (k - j) + j = k
    OBVIOUS
<1>2. B(k) = B(k - j) * B(j)
    BY <1>1, PowerSum
<1>3. B(k - j) \in Nat
    BY <1>1, PowerDoubles
<1> QED BY <1>2, <1>3 DEF Multiple

\* What is left of a number is less than the divisor, and the rest a multiple.
LEMMA Remainders ==
    ASSUME NEW d \in Nat \ {0}, NEW x \in Nat
    PROVE  /\ x % d \in 0 .. d - 1
           /\ x % d <= x
           /\ Multiple(x - (x % d), d)
           /\ x % d = 0 <=> Multiple(x, d)
<1> DEFINE q == x \div d
           r == x % d
<1>1. q \in Int /\ r \in 0 .. d - 1 /\ x = d * q + r
    OBVIOUS
<1> HIDE DEF q, r
<1>2. q \in Nat
    <2> SUFFICES ASSUME q <= -1 PROVE FALSE
        BY <1>1
    <2>1. d * q <= -d
        BY <1>1
    <2> QED BY <1>1, <2>1
<1>3. d * q \in Nat /\ d * q = q * d
    BY <1>2
<1>4. r \in Nat /\ r <= x /\ x - r = q * d
    BY <1>1, <1>3
<1>5. Multiple(x - r, d)
    BY <1>2, <1>4 DEF Multiple
<1>6. r = 0 => Multiple(x, d)
    <2>1. ASSUME r = 0 PROVE x = q * d
        BY <1>1, <1>3, <2>1
    <2> QED BY <1>2, <2>1 DEF Multiple
<1>7. Multiple(x, d) => r = 0
    <2> SUFFICES ASSUME Multiple(x, d), r # 0 PROVE FALSE
        OBVIOUS
    <2>1. x - r \in Nat /\ x - r < x
        BY <1>1, <1>4
    <2>2. (x - r) + d <= x
        BY <1>5, <2>1, MultipleStep
    <2> QED BY <1>1, <1>4, <2>2
<1> QED BY <1>1, <1>4, <1>5, <1>6, <1>7 DEF r

\* Quotients are rounded up no further than to a bound that is whole.
LEMMA QuotientUp ==
    ASSUME NEW d \in Nat \ {0}, NEW x \in Nat, NEW m \in Nat, x <= m * d
    PROVE  (x + d - 1) \div d <= m
<1> DEFINE y == x + d - 1
           q == y \div d
<1>1. y \in Nat
    OBVIOUS
<1> HIDE DEF y
<1>2. q \in Int /\ d * q <= y
    BY <1>1
<1> HIDE DEF q
<1>3. SUFFICES ASSUME m + 1 <= q PROVE FALSE
    BY <1>2 DEF y, q
<1>4. d * (m + 1) <= d * q
    BY <1>2, <1>3
<1>5. d * (m + 1) = m * d + d
    OBVIOUS
<1> QED BY <1>2, <1>4, <1>5 DEF y

-----------------------------------------------------------------------------
(* One run: how far it goes and the span of its chunks.                    *)

RunOK(m, c) ==
    /\ m \in Nat \ {0}
    /\ c \in Nat
    /\ PieceSpan <= c
    /\ Multiple(m, B(PieceSpan))
    /\ m = B(c) \/ m = 2 * B(c) \/ 2 * B(c) < m
    /\ m <= B(ChainBits) * B(c)

\* What get_index_max and tree_chunk_span make of any size.
LEMMA RunOfSize ==
    ASSUME NEW s \in Nat \ {0}
    PROVE  /\ RunOK(GetIndexMax(s), TreeChunkSpan(GetIndexMax(s)))
           /\ PieceSpan < BitWidth(GetIndexMax(s))
<1> DEFINE p == B(PieceSpan)
           x == 32 * s + 4
           m == GetIndexMax(s)
<1>1. p \in Nat \ {0}
    BY PieceSpanAssumption, PowerDoubles
<1>2. x \in Nat \ {0}
    OBVIOUS
<1>3. m = IF x % p = 0 THEN x ELSE x + p - (x % p)
    BY DEF GetIndexMax
<1> HIDE DEF p, x, m
<1>4. x % p \in 0 .. p - 1 /\ x % p <= x /\ Multiple(x - (x % p), p)
      /\ (x % p = 0 <=> Multiple(x, p))
    BY <1>1, <1>2, Remainders
<1>5. m \in Nat \ {0} /\ Multiple(m, p)
    <2>1. CASE x % p = 0
        BY <1>2, <1>3, <1>4, <2>1
    <2>2. CASE x % p # 0
        <3>1. m = (x - (x % p)) + p
            BY <1>1, <1>2, <1>3, <1>4, <2>2
        <3>2. Multiple((x - (x % p)) + p, p)
            BY <1>1, <1>4, MultipleSums
        <3>3. m \in Nat \ {0}
            BY <1>1, <1>2, <1>4, <3>1
        <3> QED BY <3>1, <3>2, <3>3
    <2> QED BY <2>1, <2>2
<1>6. p <= m
    <2>1. Multiple(0, p) /\ 0 < m /\ m \in Nat /\ 0 \in Nat
        BY <1>1, <1>5, MultipleSums
    <2>2. 0 + p <= m
        BY <1>1, <1>5, <2>1, MultipleStep
    <2> QED BY <1>1, <2>2
<1> DEFINE w == BitWidth(m)
           t == TopSpan(m)
<1>7. w \in Nat \ {0} /\ t \in Nat /\ t + 1 = w /\ B(t) <= m /\ m < B(w)
      /\ B(w) = 2 * B(t)
    BY <1>5, WidthBounds
<1> DEFINE bits == w - PieceSpan
           least == IF bits > ChainBits THEN ChainBits ELSE bits
           c == TreeChunkSpan(m)
<1>8. c = w - least
    BY DEF TreeChunkSpan
<1> HIDE DEF w, t, c
<1>9. PieceSpan < w
    <2>1. B(PieceSpan) < B(w)
        <3>1. B(w) \in Nat
            BY <1>7, PowerDoubles
        <3> QED BY <1>1, <1>5, <1>6, <1>7, <3>1 DEF p
    <2> QED BY <1>7, <2>1, PieceSpanAssumption, PowerInjective
<1>10. /\ least \in Nat \ {0} /\ least <= ChainBits /\ c \in Nat /\ PieceSpan <= c
       /\ c + least = w
       /\ least = 1 => c = PieceSpan
    BY <1>7, <1>8, <1>9, PieceSpanAssumption, ChainBitsAssumption
<1>11. m <= B(ChainBits) * B(c)
    <2>1. B(w) = B(c) * B(least)
        BY <1>10, PowerSum
    <2>2. B(least) <= B(ChainBits)
        BY <1>10, ChainBitsAssumption, PowerInjective
    <2>3. B(c) \in Nat /\ B(least) \in Nat /\ B(ChainBits) \in Nat
        BY <1>10, ChainBitsAssumption, PowerDoubles
    <2>4. \A i, j, k \in Nat : j <= k => i * j <= k * i
        OBVIOUS
    <2>5. B(c) * B(least) <= B(ChainBits) * B(c)
        BY <2>2, <2>3, <2>4
    <2>6. B(ChainBits) * B(c) \in Nat
        BY <2>3
    <2>7. B(w) \in Nat
        BY <1>7, PowerDoubles
    <2> QED BY <1>5, <1>7, <2>1, <2>5, <2>6, <2>7
<1>12. m = B(c) \/ m = 2 * B(c) \/ 2 * B(c) < m
    <2>1. CASE least = 1
        <3>1. c = PieceSpan /\ t = c
            BY <1>7, <1>10, <2>1
        <3>2. m < 2 * p
            BY <1>7, <3>1 DEF p
        <3>3. m = p
            <4> SUFFICES ASSUME p < m PROVE FALSE
                BY <1>1, <1>5, <1>6
            <4>1. Multiple(p, p)
                BY <1>1, MultipleSums
            <4>2. p + p <= m
                BY <1>1, <1>5, <4>1, MultipleStep
            <4> QED BY <1>1, <1>5, <3>2, <4>2
        <3> QED BY <3>1, <3>3 DEF p
    <2>2. CASE least # 1
        <3>1. c < t
            BY <1>7, <1>10, <2>2
        <3>2. 2 * B(c) <= B(t) /\ B(t) \in Nat /\ B(c) \in Nat
            BY <1>7, <1>10, <3>1, PowerOrder, PowerDoubles
        <3> QED BY <1>5, <1>7, <3>2
    <2> QED BY <2>1, <2>2
<1>13. RunOK(m, c)
    BY <1>5, <1>10, <1>11, <1>12 DEF RunOK, p
<1> QED BY <1>9, <1>13 DEF m, c, w

-----------------------------------------------------------------------------
(* The invariant of one node of a run over 1 .. m with chunks of span c.   *)

\* A span begins at a multiple of its own width; only the first may be of two
\* chunks.
SpanOK(n, m, c) ==
    LET k == TopSpan(n.remainder)
    IN  /\ n.type = "span"
        /\ n.remainder = B(k)
        /\ PieceSpan <= k /\ k <= c + 1
        /\ k = c + 1 => n.i_0 = 1
        /\ Multiple(n.i_0 - 1, B(k))
        /\ n.i_0 - 1 + n.remainder <= m

\* A big node is what is left at the end of a run's last chunk once wider spans
\* have been taken from it.
BigOK(n, m, c) ==
    /\ n.type = "big"
    /\ n.i_0 - 1 + n.remainder = m
    /\ n.remainder < B(c)
    /\ ~IsPowerOfTwo(n.remainder)
    /\ Multiple(n.remainder, B(PieceSpan))
    /\ Multiple(n.i_0 - 1, B(TopSpan(n.remainder) + 1))
    /\ m - (m % B(c)) <= n.i_0 - 1

\* A chain is a prefix of the run: of whole chunks, or all of it.
ChainOK(n, m, c) ==
    /\ n.type = "chain"
    /\ n.i_0 = 1
    /\ n.level = 0
    /\ 2 * B(c) < n.remainder
    /\ n.remainder <= m
    /\ n.remainder = m \/ Multiple(n.remainder, B(c))

NodeOK(n, m, c) ==
    /\ n \in NodeRecord
    /\ n.chunk_span = c
    /\ SpanOK(n, m, c) \/ BigOK(n, m, c) \/ ChainOK(n, m, c)

\* The fields of a node.
LEMMA NodeFields ==
    ASSUME NEW n \in NodeRecord
    PROVE  /\ n.type \in {"span", "big", "chain"}
           /\ n.i_0 \in Nat \ {0} /\ n.remainder \in Nat \ {0}
           /\ n.level \in Nat /\ n.chunk_span \in Nat
BY DEF NodeRecord

\* node_span_create makes a span.
LEMMA SpanMade ==
    ASSUME NEW m, NEW c, RunOK(m, c),
           NEW i_0 \in Nat \ {0}, NEW k \in Nat, NEW level \in Nat,
           PieceSpan <= k, k <= c + 1, k = c + 1 => i_0 = 1,
           Multiple(i_0 - 1, B(k)), i_0 - 1 + B(k) <= m
    PROVE  LET n == NodeSpanCreate(i_0, k, level, c)
           IN  /\ NodeOK(n, m, c) /\ SpanOK(n, m, c)
               /\ n.i_0 = i_0 /\ n.remainder = B(k) /\ n.level = level
               /\ TopSpan(n.remainder) = k
<1> DEFINE n == NodeSpanCreate(i_0, k, level, c)
<1>1. c \in Nat /\ B(k) \in Nat \ {0} /\ TopSpan(B(k)) = k
    BY TopOfPower DEF RunOK
<1>2. n \in NodeRecord /\ n.type = "span" /\ n.i_0 = i_0 /\ n.remainder = B(k)
      /\ n.level = level /\ n.chunk_span = c
    <2> DEFINE r == B(k)
    <2>1. n = MakeNode("span", i_0, r, level, c) /\ r \in Nat \ {0}
        BY <1>1 DEF NodeSpanCreate
    <2> HIDE DEF n, r
    <2>2. n \in NodeRecord /\ n.type = "span" /\ n.i_0 = i_0 /\ n.remainder = r
          /\ n.level = level /\ n.chunk_span = c
        BY <1>1, <2>1 DEF MakeNode, NodeRecord
    <2> QED BY <2>2 DEF r
<1> HIDE DEF n
<1>3. SpanOK(n, m, c)
    BY <1>1, <1>2 DEF SpanOK
<1> QED BY <1>1, <1>2, <1>3 DEF NodeOK, n

\* What node_big_create makes of the end of a run is a span when it is a power of
\* two, and else a big node.
LEMMA BigMade ==
    ASSUME NEW m, NEW c, RunOK(m, c),
           NEW i_0 \in Nat \ {0}, NEW r \in Nat \ {0}, NEW level \in Nat,
           i_0 - 1 + r = m, r < B(c), Multiple(r, B(PieceSpan)),
           Multiple(i_0 - 1, B(TopSpan(r) + 1)), m - (m % B(c)) <= i_0 - 1
    PROVE  LET n == NodeBigCreate(i_0, r, level, c)
           IN  /\ NodeOK(n, m, c)
               /\ n.i_0 = i_0 /\ n.remainder = r /\ n.level = level
               /\ n.type \in {"span", "big"}
               /\ n.type = "span" <=> IsPowerOfTwo(r)
<1> DEFINE k == TopSpan(r)
           p == B(PieceSpan)
<1>1. c \in Nat /\ m \in Nat /\ p \in Nat \ {0} /\ PieceSpan \in Nat /\ B(c) \in Nat
    BY PieceSpanAssumption, PowerDoubles DEF RunOK
<1>2. k \in Nat /\ k + 1 \in Nat /\ B(k) <= r /\ B(k) \in Nat \ {0}
      /\ r < B(k + 1)
    BY WidthBounds, PowerDoubles
<1>3. p <= r
    <2>1. Multiple(0, p) /\ 0 < r /\ 0 \in Nat /\ r \in Nat
        BY <1>1, MultipleSums
    <2>2. 0 + p <= r
        BY <1>1, <2>1, MultipleStep
    <2> QED BY <1>1, <2>2
<1>4. PieceSpan <= k
    <2>1. p < B(k + 1)
        <3>1. B(k + 1) \in Nat
            BY <1>2, PowerDoubles
        <3> QED BY <1>1, <1>2, <1>3, <3>1
    <2>2. PieceSpan < k + 1
        BY <1>1, <1>2, <2>1, PowerInjective
    <2> QED BY <1>1, <1>2, <2>2
<1>5. k < c
    <2>1. B(k) < B(c)
        BY <1>1, <1>2
    <2> QED BY <1>1, <1>2, <2>1, PowerInjective
<1>6. CASE IsPowerOfTwo(r)
    <2>1. r = B(k)
        BY <1>6 DEF IsPowerOfTwo
    <2>2. Multiple(B(k + 1), B(k))
        <3>1. k <= k + 1
            BY <1>2
        <3> QED BY <1>2, <3>1, PowerMultiple
    <2>3. Multiple(i_0 - 1, B(k))
        <3>1. B(k + 1) \in Nat
            BY <1>2, PowerDoubles
        <3> QED BY <1>2, <2>2, <3>1, MultipleTransitive
    <2> DEFINE n == NodeSpanCreate(i_0, k, level, c)
    <2>4. k <= c + 1 /\ k # c + 1 /\ i_0 - 1 + B(k) <= m
        BY <1>1, <1>2, <1>5, <2>1
    <2>5. /\ NodeOK(n, m, c) /\ SpanOK(n, m, c)
          /\ n.i_0 = i_0 /\ n.remainder = B(k) /\ n.level = level
        BY <1>2, <1>4, <2>3, <2>4, SpanMade
    <2>6. NodeBigCreate(i_0, r, level, c) = n
        BY <1>6 DEF NodeBigCreate
    <2>7. n.type = "span"
        BY <2>5 DEF SpanOK
    <2> HIDE DEF n, k
    <2> QED BY <1>6, <2>1, <2>5, <2>6, <2>7
<1>7. CASE ~IsPowerOfTwo(r)
    <2> DEFINE n == MakeNode("big", i_0, r, level, c)
    <2>1. n \in NodeRecord /\ n.type = "big" /\ n.i_0 = i_0 /\ n.remainder = r
          /\ n.level = level /\ n.chunk_span = c
        BY <1>1 DEF MakeNode, NodeRecord
    <2>2. NodeBigCreate(i_0, r, level, c) = n
        BY <1>7 DEF NodeBigCreate
    <2> HIDE DEF n
    <2>3. BigOK(n, m, c)
        BY <1>7, <2>1 DEF BigOK
    <2>4. NodeOK(n, m, c)
        BY <2>1, <2>3 DEF NodeOK
    <2> QED BY <1>7, <2>1, <2>2, <2>4
<1> QED BY <1>6, <1>7

\* What node_chunked_create makes of a prefix of the run is a chunk, two, or a
\* chain.
LEMMA ChunkedMade ==
    ASSUME NEW m, NEW c, RunOK(m, c), NEW r \in Nat \ {0}, r <= m,
           r = B(c) \/ r = 2 * B(c) \/ 2 * B(c) < r,
           r = m \/ Multiple(r, B(c))
    PROVE  LET n == NodeChunkedCreate(1, r, c, 0)
           IN  /\ NodeOK(n, m, c)
               /\ n.i_0 = 1 /\ n.remainder = r /\ n.level = 0
               /\ n.type \in {"span", "chain"}
               /\ n.type = "span" => r = B(c) \/ r = B(c + 1)
<1> DEFINE n == NodeChunkedCreate(1, r, c, 0)
<1>1. c \in Nat /\ c + 1 \in Nat /\ PieceSpan \in Nat /\ PieceSpan <= c /\ m \in Nat
    BY PieceSpanAssumption DEF RunOK
<1>2. B(c) \in Nat \ {0} /\ B(c + 1) = 2 * B(c) /\ B(c + 1) \in Nat \ {0}
    BY <1>1, PowerDoubles
<1>3. Multiple(1 - 1, B(c)) /\ Multiple(1 - 1, B(c + 1)) /\ 1 - 1 = 0
    <2>1. 1 - 1 = 0 /\ Multiple(0, B(c)) /\ Multiple(0, B(c + 1))
        BY <1>2, MultipleSums
    <2> QED BY <2>1
<1>4. CASE r = B(c)
    <2> DEFINE k == c
    <2>1. n = NodeSpanCreate(1, c, 0, c)
        BY <1>4 DEF NodeChunkedCreate
    <2>2. PieceSpan <= c /\ c <= c + 1 /\ c # c + 1 /\ 1 - 1 + B(c) <= m
        BY <1>1, <1>2, <1>4
    <2>3. 1 \in Nat \ {0} /\ 0 \in Nat
        OBVIOUS
    <2>4. NodeOK(n, m, c) /\ SpanOK(n, m, c) /\ n.i_0 = 1 /\ n.remainder = B(c)
          /\ n.level = 0
        BY <1>1, <1>3, <2>1, <2>2, <2>3, SpanMade
    <2> HIDE DEF n
    <2>5. n.type = "span"
        BY <2>4 DEF SpanOK
    <2> QED BY <1>4, <2>4, <2>5 DEF n
<1>5. CASE r = 2 * B(c)
    <2>1. n = NodeSpanCreate(1, c + 1, 0, c)
        <3>1. r # B(c)
            BY <1>2, <1>5
        <3> QED BY <1>5, <3>1 DEF NodeChunkedCreate
    <2>2. PieceSpan <= c + 1 /\ c + 1 <= c + 1 /\ 1 - 1 + B(c + 1) <= m
        BY <1>1, <1>2, <1>5
    <2>3. 1 \in Nat \ {0} /\ 0 \in Nat
        OBVIOUS
    <2>4. NodeOK(n, m, c) /\ SpanOK(n, m, c) /\ n.i_0 = 1 /\ n.remainder = B(c + 1)
          /\ n.level = 0
        BY <1>1, <1>3, <2>1, <2>2, <2>3, SpanMade
    <2> HIDE DEF n
    <2>5. n.type = "span"
        BY <2>4 DEF SpanOK
    <2> QED BY <1>2, <1>5, <2>4, <2>5 DEF n
<1>6. CASE 2 * B(c) < r
    <2>1. n = MakeNode("chain", 1, r, 0, c)
        <3>1. r # B(c) /\ r # 2 * B(c)
            BY <1>2, <1>6
        <3> QED BY <3>1 DEF NodeChunkedCreate
    <2>2. 1 \in Nat \ {0} /\ 0 \in Nat
        OBVIOUS
    <2>3. n \in NodeRecord /\ n.type = "chain" /\ n.i_0 = 1 /\ n.remainder = r
          /\ n.level = 0 /\ n.chunk_span = c
        BY <1>1, <2>1, <2>2 DEF MakeNode, NodeRecord
    <2> HIDE DEF n
    <2>4. ChainOK(n, m, c)
        BY <1>6, <2>3 DEF ChainOK
    <2>5. NodeOK(n, m, c)
        BY <2>3, <2>4 DEF NodeOK
    <2> QED BY <2>3, <2>5 DEF n
<1> QED BY <1>4, <1>5, <1>6

-----------------------------------------------------------------------------
(* The children of a node.                                                 *)

\* What node_expand promises of the two children.
Split(n, l, r) ==
    /\ l.i_0 = n.i_0
    /\ r.i_0 = l.i_0 + l.remainder
    /\ l.remainder + r.remainder = n.remainder

\* The halves of a span.
LEMMA SpanChildren ==
    ASSUME NEW m, NEW c, RunOK(m, c), NEW n, NodeOK(n, m, c), SpanOK(n, m, c),
           ~NodeIsLeaf(n)
    PROVE  /\ TopSpan(n.remainder) \in Nat /\ TopSpan(n.remainder) - 1 \in Nat
           /\ \A index \in 0 .. 1 :
                LET ch == NodeExpandSpan(n, index)
                IN  /\ NodeOK(ch, m, c) /\ SpanOK(ch, m, c)
                    /\ ch.i_0 = n.i_0 + index * B(TopSpan(n.remainder) - 1)
                    /\ ch.remainder = B(TopSpan(n.remainder) - 1)
                    /\ TopSpan(ch.remainder) = TopSpan(n.remainder) - 1
                    /\ ch.level = n.level + 1
           /\ Split(n, NodeExpandSpan(n, 0), NodeExpandSpan(n, 1))
<1> DEFINE k == TopSpan(n.remainder)
           h == k - 1
           b == B(h)
           a == n.i_0
<1>1. /\ a \in Nat \ {0} /\ n.remainder \in Nat \ {0} /\ n.level \in Nat
      /\ n.chunk_span = c /\ c \in Nat /\ m \in Nat
    BY NodeFields DEF NodeOK, RunOK
<1>2. /\ n.type = "span" /\ n.remainder = B(k) /\ PieceSpan <= k /\ k <= c + 1
      /\ k = c + 1 => a = 1
      /\ Multiple(a - 1, B(k)) /\ a - 1 + n.remainder <= m
    BY DEF SpanOK
<1>3. k \in Nat /\ PieceSpan \in Nat
    BY <1>1, WidthBounds, PieceSpanAssumption
<1>4. k # PieceSpan
    BY <1>2 DEF NodeIsLeaf
<1> HIDE DEF k
<1>5. h \in Nat /\ h + 1 = k /\ PieceSpan <= h /\ h <= c + 1 /\ h # c + 1
    BY <1>1, <1>2, <1>3, <1>4
<1>6. b \in Nat \ {0} /\ B(k) = 2 * b
    BY <1>5, PowerDoubles
<1>7. Multiple(a - 1, b)
    <2>1. Multiple(B(k), b)
        <3>1. h <= k
            BY <1>5
        <3> QED BY <1>3, <1>5, <3>1, PowerMultiple
    <2>2. B(k) \in Nat
        BY <1>6
    <2> HIDE DEF b
    <2> QED BY <1>2, <1>6, <2>1, <2>2, MultipleTransitive
<1> HIDE DEF h, b, a
<1>8. ASSUME NEW index \in 0 .. 1
      PROVE  LET ch == NodeExpandSpan(n, index)
             IN  /\ NodeOK(ch, m, c) /\ SpanOK(ch, m, c)
                 /\ ch.i_0 = a + index * b /\ ch.remainder = b /\ ch.level = n.level + 1
                 /\ TopSpan(ch.remainder) = h
    <2> DEFINE ch == NodeExpandSpan(n, index)
               x == a + index * b
               level == n.level + 1
    <2>1. x \in Nat \ {0} /\ level \in Nat
        BY <1>1, <1>6
    <2>2. Multiple(x - 1, b)
        <3>1. CASE index = 0
            <4>1. x - 1 = a - 1
                BY <1>1, <1>6, <3>1
            <4> HIDE DEF x
            <4> QED BY <1>7, <4>1
        <3>2. CASE index = 1
            <4>1. x - 1 = (a - 1) + b
                BY <1>1, <1>6, <3>2
            <4>2. Multiple((a - 1) + b, b)
                BY <1>6, <1>7, MultipleSums
            <4> HIDE DEF x
            <4> QED BY <4>1, <4>2
        <3> QED BY <3>1, <3>2
    <2>3. x - 1 + b <= m
        BY <1>1, <1>2, <1>6 DEF a
    <2>4. ch = NodeSpanCreate(x, h, level, c)
        BY <1>1 DEF NodeExpandSpan, a, b, h, k
    <2> HIDE DEF ch, x, level
    <2>5. NodeOK(ch, m, c) /\ SpanOK(ch, m, c)
          /\ ch.i_0 = x /\ ch.remainder = B(h) /\ ch.level = level
          /\ TopSpan(ch.remainder) = h
        BY <1>1, <1>5, <2>1, <2>2, <2>3, <2>4, SpanMade DEF b
    <2> QED BY <2>5 DEF ch, x, level, b
<1>9. Split(n, NodeExpandSpan(n, 0), NodeExpandSpan(n, 1))
    <2> DEFINE l == NodeExpandSpan(n, 0)
               r == NodeExpandSpan(n, 1)
    <2>1. l.i_0 = a + 0 * b /\ l.remainder = b /\ r.i_0 = a + 1 * b /\ r.remainder = b
        BY <1>8
    <2> HIDE DEF l, r
    <2>2. l.i_0 = a /\ r.i_0 = l.i_0 + l.remainder /\ l.remainder + r.remainder = n.remainder
        BY <1>1, <1>2, <1>6, <2>1
    <2> QED BY <2>2 DEF Split, l, r, a
<1> QED BY <1>3, <1>5, <1>8, <1>9 DEF k, h, b, a

\* The widest span of a big node, and what it leaves.
LEMMA BigChildren ==
    ASSUME NEW m, NEW c, RunOK(m, c), NEW n, NodeOK(n, m, c), BigOK(n, m, c)
    PROVE  LET l == NodeExpandBig(n, 0)
               r == NodeExpandBig(n, 1)
           IN  /\ NodeOK(l, m, c) /\ SpanOK(l, m, c)
               /\ l.i_0 = n.i_0
               /\ l.remainder = B(TopSpan(n.remainder))
               /\ TopSpan(l.remainder) = TopSpan(n.remainder)
               /\ l.level = n.level + 1
               /\ NodeOK(r, m, c)
               /\ r.i_0 = n.i_0 + B(TopSpan(n.remainder))
               /\ r.remainder = n.remainder - B(TopSpan(n.remainder))
               /\ r.level = n.level + 1
               /\ r.type \in {"span", "big"}
               /\ r.type = "span" <=> IsPowerOfTwo(r.remainder)
               /\ Split(n, l, r)
<1> DEFINE x == n.remainder
           a == n.i_0
           k == TopSpan(x)
           b == B(k)
           y == x - b
           j == TopSpan(y)
           level == n.level + 1
           l == NodeExpandBig(n, 0)
           r == NodeExpandBig(n, 1)
<1>1. /\ a \in Nat \ {0} /\ x \in Nat \ {0} /\ n.level \in Nat /\ level \in Nat
      /\ n.chunk_span = c /\ c \in Nat /\ m \in Nat /\ B(c) \in Nat \ {0}
      /\ PieceSpan \in Nat /\ B(PieceSpan) \in Nat \ {0}
    BY NodeFields, PowerDoubles, PieceSpanAssumption DEF NodeOK, RunOK
<1>2. /\ a - 1 + x = m /\ x < B(c) /\ x # b /\ Multiple(x, B(PieceSpan))
      /\ Multiple(a - 1, B(k + 1)) /\ m - (m % B(c)) <= a - 1
    BY DEF BigOK, IsPowerOfTwo
<1>3. k \in Nat /\ k + 1 \in Nat /\ b <= x /\ x < 2 * b
    BY <1>1, WidthBounds
<1> HIDE DEF k
<1>4. b \in Nat \ {0} /\ B(k + 1) = 2 * b /\ B(k + 1) \in Nat \ {0}
    BY <1>3, PowerDoubles
<1>5. k < c
    <2>1. b < B(c)
        BY <1>1, <1>2, <1>3, <1>4
    <2> QED BY <1>1, <1>3, <2>1, PowerInjective
<1>6. PieceSpan <= k
    <2>1. B(PieceSpan) <= x
        <3>1. Multiple(0, B(PieceSpan)) /\ 0 < x /\ 0 \in Nat
            BY <1>1, MultipleSums
        <3> HIDE DEF x
        <3>2. 0 + B(PieceSpan) <= x
            BY <1>1, <1>2, <3>1, MultipleStep
        <3> QED BY <1>1, <3>2
    <2>2. B(PieceSpan) < B(k + 1)
        BY <1>1, <1>3, <1>4, <2>1
    <2>3. PieceSpan < k + 1
        BY <1>1, <1>3, <2>2, PowerInjective
    <2> QED BY <1>1, <1>3, <2>3
<1>7. Multiple(a - 1, b)
    <2>1. Multiple(B(k + 1), b)
        <3>1. k <= k + 1
            BY <1>3
        <3> QED BY <1>3, <3>1, PowerMultiple
    <2> HIDE DEF b, a
    <2> QED BY <1>2, <1>4, <2>1, MultipleTransitive
<1>8. l = NodeSpanCreate(a, k, level, c)
    BY <1>1 DEF NodeExpandBig, k
<1>9. r = NodeBigCreate(a + b, y, level, c)
    BY <1>1 DEF NodeExpandBig, k
<1> HIDE DEF x, a, b, l, r, level
<1>10. y \in Nat \ {0} /\ y < b /\ y < B(c) /\ a + b \in Nat \ {0}
       /\ (a + b) - 1 + y = m /\ m - (m % B(c)) <= (a + b) - 1
    <2> DEFINE q == m - (m % B(c))
    <2> HIDE DEF q
    <2>1. q <= a - 1 => q <= (a + b) - 1
        <3>1. q \in Int
            <4>1. m % B(c) \in Int
                BY <1>1
            <4> QED BY <1>1, <4>1 DEF q
        <3> QED BY <1>1, <1>4, <3>1
    <2>2. y \in Nat \ {0} /\ y < b /\ y < B(c) /\ a + b \in Nat \ {0}
          /\ (a + b) - 1 + y = m
        BY <1>1, <1>2, <1>3, <1>4
    <2> QED BY <1>2, <2>1, <2>2 DEF q
<1>11. j \in Nat /\ j + 1 \in Nat /\ B(j) <= y
    BY <1>10, WidthBounds
<1> HIDE DEF y, j
<1>12. j < k
    <2>1. B(j) < B(k)
        <3>1. B(j) \in Nat
            BY <1>11, PowerDoubles
        <3> QED BY <1>4, <1>10, <1>11, <3>1 DEF b
    <2> QED BY <1>3, <1>11, <2>1, PowerInjective
<1>13. Multiple(y, B(PieceSpan))
    <2>1. Multiple(b, B(PieceSpan))
        BY <1>1, <1>3, <1>6, PowerMultiple DEF b
    <2> QED BY <1>1, <1>2, <1>3, <2>1, MultipleSums DEF y
<1>14. Multiple((a + b) - 1, B(j + 1))
    <2>1. Multiple((a + b) - 1, b)
        <3>1. (a + b) - 1 = (a - 1) + b
            BY <1>1, <1>4
        <3>2. Multiple((a - 1) + b, b)
            BY <1>4, <1>7, MultipleSums
        <3> QED BY <3>1, <3>2
    <2>2. Multiple(b, B(j + 1))
        <3>1. j + 1 <= k
            BY <1>3, <1>11, <1>12
        <3> QED BY <1>3, <1>11, <3>1, PowerMultiple DEF b
    <2>3. B(j + 1) \in Nat
        BY <1>11, PowerDoubles
    <2> QED BY <1>4, <2>1, <2>2, <2>3, MultipleTransitive
<1>15. /\ NodeOK(l, m, c) /\ SpanOK(l, m, c)
       /\ l.i_0 = a /\ l.remainder = b /\ l.level = level /\ TopSpan(l.remainder) = k
    <2>1. k <= c + 1 /\ k # c + 1 /\ a - 1 + B(k) <= m
        BY <1>1, <1>2, <1>3, <1>4, <1>5 DEF b
    <2> QED BY <1>1, <1>3, <1>6, <1>7, <1>8, <2>1, SpanMade DEF b
<1>16. /\ NodeOK(r, m, c)
       /\ r.i_0 = a + b /\ r.remainder = y /\ r.level = level
       /\ r.type \in {"span", "big"}
       /\ r.type = "span" <=> IsPowerOfTwo(r.remainder)
    <2> DEFINE i == a + b
    <2>1. i \in Nat \ {0} /\ i - 1 + y = m /\ m - (m % B(c)) <= i - 1
        BY <1>10
    <2>2. Multiple(i - 1, B(TopSpan(y) + 1))
        BY <1>14 DEF j
    <2>3. r = NodeBigCreate(i, y, level, c)
        BY <1>9
    <2>4. y \in Nat \ {0} /\ y < B(c) /\ level \in Nat
        BY <1>1, <1>10
    <2> HIDE DEF i
    <2>5. /\ NodeOK(r, m, c)
          /\ r.i_0 = i /\ r.remainder = y /\ r.level = level
          /\ r.type \in {"span", "big"}
          /\ r.type = "span" <=> IsPowerOfTwo(y)
        BY <1>13, <2>1, <2>2, <2>3, <2>4, BigMade
    <2> QED BY <2>5 DEF i
<1>17. Split(n, l, r)
    <2>1. l.remainder + r.remainder = x /\ r.i_0 = l.i_0 + l.remainder
        BY <1>1, <1>4, <1>15, <1>16 DEF y
    <2> QED BY <1>15, <2>1 DEF Split, a, x
<1> QED BY <1>15, <1>16, <1>17 DEF l, r, a, b, x, y, k, level

\* What a chain folds, and what it folds it onto.
LEMMA ChainChildren ==
    ASSUME NEW m, NEW c, RunOK(m, c), NEW n, NodeOK(n, m, c), ChainOK(n, m, c)
    PROVE  LET l == NodeExpandChain(n, 0)
               r == NodeExpandChain(n, 1)
               chunk == NodeChainChunk(n)
           IN  /\ chunk \in Nat \ {0} /\ chunk <= B(c)
               /\ n.remainder - chunk \in Nat \ {0}
               /\ Multiple(n.remainder - chunk, B(c))
               /\ NodeOK(l, m, c)
               /\ l.i_0 = n.i_0 /\ l.remainder = n.remainder - chunk /\ l.level = 0
               /\ NodeOK(r, m, c)
               /\ r.i_0 = n.i_0 + (n.remainder - chunk) /\ r.remainder = chunk
               /\ r.level = 0
               /\ Split(n, l, r)
<1> DEFINE x == n.remainder
           d == B(c)
           tail == x % d
           chunk == NodeChainChunk(n)
           prefix == x - chunk
           l == NodeExpandChain(n, 0)
           r == NodeExpandChain(n, 1)
<1>1. /\ x \in Nat \ {0} /\ n.chunk_span = c /\ c \in Nat /\ m \in Nat \ {0}
      /\ d \in Nat \ {0} /\ PieceSpan \in Nat /\ PieceSpan <= c
      /\ B(PieceSpan) \in Nat \ {0} /\ Multiple(m, B(PieceSpan))
    BY NodeFields, PowerDoubles, PieceSpanAssumption DEF NodeOK, RunOK
<1>2. /\ n.i_0 = 1 /\ 2 * d < x /\ x <= m
      /\ x = m \/ Multiple(x, d)
    BY DEF ChainOK
<1>3. chunk = IF tail # 0 THEN tail ELSE d
    BY <1>1 DEF NodeChainChunk
<1>4. l = NodeChunkedCreate(1, prefix, c, 0)
    BY <1>1, <1>2 DEF NodeExpandChain
<1>5. r = IF chunk = d THEN NodeSpanCreate(1 + prefix, c, 0, c)
          ELSE NodeBigCreate(1 + prefix, chunk, 0, c)
    BY <1>1, <1>2 DEF NodeExpandChain
<1> HIDE DEF x, d, chunk, l, r
<1>6. tail \in 0 .. d - 1 /\ tail <= x /\ Multiple(x - tail, d)
      /\ (tail = 0 <=> Multiple(x, d))
    BY <1>1, Remainders
<1> HIDE DEF tail
<1>7. chunk \in Nat \ {0} /\ chunk <= d /\ (chunk # d => chunk = tail /\ chunk < d /\ tail # 0)
    BY <1>1, <1>3, <1>6
<1>8. prefix \in Nat \ {0} /\ d < prefix /\ prefix <= m /\ 1 + prefix \in Nat \ {0}
    BY <1>1, <1>2, <1>7
<1>9. Multiple(prefix, d)
    <2>1. CASE tail = 0
        <3>1. chunk = d /\ Multiple(x, d) /\ Multiple(d, d) /\ d <= x
            BY <1>1, <1>2, <1>3, <1>6, <2>1, MultipleSums
        <3> QED BY <1>1, <3>1, MultipleSums
    <2>2. CASE tail # 0
        BY <1>3, <1>6, <2>2
    <2> QED BY <2>1, <2>2
<1> HIDE DEF prefix
<1>10. d + d <= prefix
    <2>1. Multiple(d, d)
        BY <1>1, MultipleSums
    <2> QED BY <1>1, <1>8, <1>9, <2>1, MultipleStep
<1>11. NodeOK(l, m, c) /\ l.i_0 = 1 /\ l.remainder = prefix /\ l.level = 0
    <2>1. prefix = B(c) \/ prefix = 2 * B(c) \/ 2 * B(c) < prefix
        BY <1>1, <1>8, <1>10 DEF d
    <2> QED BY <1>4, <1>8, <1>9, <2>1, ChunkedMade DEF d
<1>12. NodeOK(r, m, c) /\ r.i_0 = 1 + prefix /\ r.remainder = chunk /\ r.level = 0
    <2> DEFINE i == 1 + prefix
    <2>1. i \in Nat \ {0} /\ i - 1 = prefix
        BY <1>8
    <2>2. prefix + chunk = x
        BY <1>1, <1>7 DEF prefix
    <2>3. 0 \in Nat
        OBVIOUS
    <2> HIDE DEF i
    <2>4. CASE chunk = d
        <3>1. c <= c + 1 /\ c # c + 1 /\ i - 1 + d <= m /\ Multiple(i - 1, d)
            BY <1>1, <1>2, <1>8, <1>9, <2>1, <2>2, <2>4
        <3>2. r = NodeSpanCreate(i, c, 0, c)
            BY <1>5, <2>4 DEF i
        <3>3. NodeOK(r, m, c) /\ r.i_0 = i /\ r.remainder = d /\ r.level = 0
            BY <1>1, <2>1, <2>3, <3>1, <3>2, SpanMade DEF d
        <3> QED BY <2>4, <3>3 DEF i
    <2>5. CASE chunk # d
        <3> DEFINE k == TopSpan(chunk)
        <3>1. chunk = tail /\ chunk < d /\ ~Multiple(x, d) /\ x = m
            BY <1>2, <1>6, <1>7, <2>5
        <3>2. i - 1 + chunk = m
            BY <2>1, <2>2, <3>1
        <3>3. m - (m % B(c)) <= i - 1
            <4>1. m - tail = prefix
                BY <1>1, <1>7, <1>8, <2>2, <3>1
            <4>2. m - (m % B(c)) = m - tail
                BY <3>1 DEF tail, d
            <4> QED BY <1>8, <2>1, <4>1, <4>2
        <3>4. k \in Nat /\ B(k) <= chunk /\ B(k) \in Nat /\ k + 1 \in Nat
              /\ B(k + 1) \in Nat
            BY <1>7, WidthBounds, PowerDoubles
        <3> HIDE DEF k
        <3>5. k + 1 <= c
            <4>1. B(k) < B(c)
                BY <1>1, <1>7, <3>1, <3>4 DEF d
            <4>2. k < c
                BY <1>1, <3>4, <4>1, PowerInjective
            <4> QED BY <1>1, <3>4, <4>2
        <3>6. Multiple(i - 1, B(k + 1))
            <4>1. Multiple(d, B(k + 1))
                BY <1>1, <3>4, <3>5, PowerMultiple DEF d
            <4>2. Multiple(prefix, B(k + 1))
                BY <1>1, <1>9, <3>4, <4>1, MultipleTransitive
            <4> QED BY <2>1, <4>2
        <3>7. Multiple(chunk, B(PieceSpan))
            <4>1. Multiple(d, B(PieceSpan))
                BY <1>1, PowerMultiple DEF d
            <4>2. Multiple(prefix, B(PieceSpan))
                BY <1>1, <1>9, <4>1, MultipleTransitive
            <4>3. chunk = m - prefix /\ prefix <= m
                BY <1>1, <1>7, <1>8, <2>2, <3>1
            <4>4. Multiple(m - prefix, B(PieceSpan))
                BY <1>1, <4>2, <4>3, MultipleSums
            <4> QED BY <4>3, <4>4
        <3>8. r = NodeBigCreate(i, chunk, 0, c)
            BY <1>5, <2>5 DEF i
        <3>9. chunk < B(c) /\ Multiple(i - 1, B(TopSpan(chunk) + 1))
            BY <3>1, <3>6 DEF d, k
        <3>10. NodeOK(r, m, c) /\ r.i_0 = i /\ r.remainder = chunk /\ r.level = 0
            BY <1>7, <2>1, <2>3, <3>2, <3>3, <3>7, <3>8, <3>9, BigMade
        <3> QED BY <3>10 DEF i
    <2> QED BY <2>4, <2>5
<1>13. Split(n, l, r)
    <2>1. prefix + chunk = x
        BY <1>1, <1>7 DEF prefix
    <2> QED BY <1>2, <1>11, <1>12, <2>1 DEF Split, x
<1>14. Multiple(prefix, B(c)) /\ chunk <= B(c) /\ prefix \in Nat \ {0}
    BY <1>7, <1>8, <1>9 DEF d
<1> QED BY <1>2, <1>7, <1>11, <1>12, <1>13, <1>14 DEF l, r, chunk, prefix, x

\* Whichever it is, a node splits into two of the same run.
LEMMA ChildrenOK ==
    ASSUME NEW m, NEW c, RunOK(m, c), NEW n, NodeOK(n, m, c), ~NodeIsLeaf(n)
    PROVE  /\ NodeOK(NodeExpand(n, 0), m, c) /\ NodeOK(NodeExpand(n, 1), m, c)
           /\ Split(n, NodeExpand(n, 0), NodeExpand(n, 1))
<1>1. CASE SpanOK(n, m, c)
    <2>1. n.type = "span"
        BY <1>1 DEF SpanOK
    <2>2. \A index \in 0 .. 1 : NodeExpand(n, index) = NodeExpandSpan(n, index)
        BY <2>1 DEF NodeExpand
    <2>3. 0 \in 0 .. 1 /\ 1 \in 0 .. 1
        OBVIOUS
    <2>4. /\ \A index \in 0 .. 1 : NodeOK(NodeExpandSpan(n, index), m, c)
          /\ Split(n, NodeExpandSpan(n, 0), NodeExpandSpan(n, 1))
        BY <1>1, SpanChildren
    <2> QED BY <2>2, <2>3, <2>4
<1>2. CASE BigOK(n, m, c)
    <2>1. n.type = "big"
        BY <1>2 DEF BigOK
    <2>2. NodeExpand(n, 0) = NodeExpandBig(n, 0) /\ NodeExpand(n, 1) = NodeExpandBig(n, 1)
        BY <2>1 DEF NodeExpand
    <2>3. /\ NodeOK(NodeExpandBig(n, 0), m, c) /\ NodeOK(NodeExpandBig(n, 1), m, c)
          /\ Split(n, NodeExpandBig(n, 0), NodeExpandBig(n, 1))
        BY <1>2, BigChildren
    <2> QED BY <2>2, <2>3
<1>3. CASE ChainOK(n, m, c)
    <2>1. n.type = "chain"
        BY <1>3 DEF ChainOK
    <2>2. /\ NodeExpand(n, 0) = NodeExpandChain(n, 0)
          /\ NodeExpand(n, 1) = NodeExpandChain(n, 1)
        BY <2>1 DEF NodeExpand
    <2>3. /\ NodeOK(NodeExpandChain(n, 0), m, c) /\ NodeOK(NodeExpandChain(n, 1), m, c)
          /\ Split(n, NodeExpandChain(n, 0), NodeExpandChain(n, 1))
        BY <1>3, ChainChildren
    <2> QED BY <2>2, <2>3
<1> QED BY <1>1, <1>2, <1>3 DEF NodeOK

-----------------------------------------------------------------------------
(* Two nodes of one run.                                                   *)

\* Their ranges do not overlap, or one is inside of the other.
Nested(n, p) ==
    \/ n.i_0 + n.remainder <= p.i_0
    \/ p.i_0 + p.remainder <= n.i_0
    \/ p.i_0 <= n.i_0 /\ n.i_0 + n.remainder <= p.i_0 + p.remainder
    \/ n.i_0 <= p.i_0 /\ p.i_0 + p.remainder <= n.i_0 + n.remainder

\* A block of width d that starts at a multiple of d does not straddle the ends of
\* a range that are multiples of d.
LEMMA BlockNests ==
    ASSUME NEW d \in Nat \ {0}, NEW a \in Nat, NEW b \in Nat, NEW e \in Nat,
           Multiple(a, d), Multiple(b, d), Multiple(e, d)
    PROVE  a + d <= b \/ (b <= a /\ a + d <= e) \/ e <= a
<1>1. a < b => a + d <= b
    BY MultipleStep
<1>2. a < e => a + d <= e
    BY MultipleStep
<1> QED BY <1>1, <1>2

\* The numbers of a node: a is the index before its first, x how many it has.
LEMMA NodeNumbers ==
    ASSUME NEW m, NEW c, RunOK(m, c), NEW n, NodeOK(n, m, c)
    PROVE  /\ n.i_0 \in Nat \ {0} /\ n.remainder \in Nat \ {0} /\ n.i_0 - 1 \in Nat
           /\ m \in Nat \ {0} /\ c \in Nat /\ B(c) \in Nat \ {0}
           /\ TopSpan(n.remainder) \in Nat
           /\ B(TopSpan(n.remainder)) \in Nat \ {0}
           /\ B(TopSpan(n.remainder) + 1) \in Nat \ {0}
           /\ n.remainder < B(TopSpan(n.remainder) + 1)
           /\ n.i_0 - 1 + n.remainder <= m
<1>1. n.i_0 \in Nat \ {0} /\ n.remainder \in Nat \ {0} /\ n.i_0 - 1 \in Nat
      /\ m \in Nat \ {0} /\ c \in Nat
    BY NodeFields DEF NodeOK, RunOK
<1>2. TopSpan(n.remainder) \in Nat /\ TopSpan(n.remainder) + 1 \in Nat
      /\ n.remainder < B(TopSpan(n.remainder) + 1)
    BY <1>1, WidthBounds
<1>3. n.i_0 - 1 + n.remainder <= m
    <2>1. CASE SpanOK(n, m, c)
        BY <2>1 DEF SpanOK
    <2>2. CASE BigOK(n, m, c)
        BY <1>1, <2>2 DEF BigOK
    <2>3. CASE ChainOK(n, m, c)
        BY <1>1, <2>3 DEF ChainOK
    <2> QED BY <2>1, <2>2, <2>3 DEF NodeOK
<1> QED BY <1>1, <1>2, <1>3, PowerDoubles

\* Two spans are blocks of powers of two.
LEMMA SpansNest ==
    ASSUME NEW m, NEW c, RunOK(m, c),
           NEW n, NodeOK(n, m, c), SpanOK(n, m, c),
           NEW p, NodeOK(p, m, c), SpanOK(p, m, c),
           TopSpan(n.remainder) <= TopSpan(p.remainder)
    PROVE  Nested(n, p)
<1> DEFINE j == TopSpan(n.remainder)
           k == TopSpan(p.remainder)
           d == B(j)
           a == n.i_0 - 1
           b == p.i_0 - 1
           e == b + p.remainder
<1>1. /\ j \in Nat /\ k \in Nat /\ d \in Nat \ {0} /\ B(k) \in Nat \ {0}
      /\ a \in Nat /\ b \in Nat /\ e \in Nat /\ p.remainder \in Nat
      /\ n.i_0 = a + 1 /\ p.i_0 = b + 1
    BY NodeNumbers
<1>2. n.remainder = d /\ p.remainder = B(k) /\ Multiple(a, d) /\ Multiple(b, B(k))
    BY DEF SpanOK
<1> HIDE DEF d, k, j, a, b
<1>3. Multiple(B(k), d)
    BY <1>1, PowerMultiple DEF d, j, k
<1>4. Multiple(b, d)
    BY <1>1, <1>2, <1>3, MultipleTransitive
<1>5. Multiple(e, d)
    BY <1>1, <1>2, <1>3, <1>4, MultipleSums
<1> HIDE DEF e
<1>6. a + d <= b \/ (b <= a /\ a + d <= e) \/ e <= a
    BY <1>1, <1>2, <1>4, <1>5, BlockNests
<1> QED BY <1>1, <1>2, <1>6 DEF Nested, e

\* A span and the end of the run.
LEMMA SpanBigNest ==
    ASSUME NEW m, NEW c, RunOK(m, c),
           NEW n, NodeOK(n, m, c), SpanOK(n, m, c),
           NEW p, NodeOK(p, m, c), BigOK(p, m, c)
    PROVE  Nested(n, p)
<1> DEFINE j == TopSpan(n.remainder)
           k == TopSpan(p.remainder) + 1
           d == B(j)
           a == n.i_0 - 1
           b == p.i_0 - 1
           y == p.remainder
<1>1. /\ j \in Nat /\ k \in Nat /\ d \in Nat \ {0} /\ B(k) \in Nat \ {0}
      /\ a \in Nat /\ b \in Nat /\ y \in Nat /\ m \in Nat
      /\ n.i_0 = a + 1 /\ p.i_0 = b + 1 /\ y < B(k)
    BY NodeNumbers
<1>2. n.remainder = d /\ Multiple(a, d) /\ a + d <= m
    BY DEF SpanOK
<1>3. b + y = m /\ Multiple(b, B(k))
    BY DEF BigOK
<1> HIDE DEF d, k, j, a, b, y
<1>4. SUFFICES ASSUME a < b, b < a + d PROVE FALSE
    BY <1>1, <1>2, <1>3 DEF Nested, y
<1>5. CASE j <= k
    <2>1. Multiple(b, d)
        <3>1. Multiple(B(k), d)
            BY <1>1, <1>5, PowerMultiple DEF d
        <3> QED BY <1>1, <1>3, <3>1, MultipleTransitive
    <2>2. a + d <= b
        BY <1>1, <1>2, <1>4, <2>1, MultipleStep
    <2> QED BY <1>1, <1>4, <2>2
<1>6. CASE k < j
    <2>1. Multiple(d, B(k))
        BY <1>1, <1>6, PowerMultiple DEF d
    <2>2. Multiple(a + d, B(k)) /\ a + d \in Nat
        <3>1. Multiple(a, B(k))
            BY <1>1, <1>2, <2>1, MultipleTransitive
        <3>2. Multiple(a + d, B(k))
            BY <1>1, <2>1, <3>1, MultipleSums
        <3>3. a + d \in Nat
            BY <1>1
        <3> QED BY <3>2, <3>3
    <2>3. b + B(k) <= a + d
        BY <1>1, <1>3, <1>4, <2>2, MultipleStep
    <2> QED BY <1>1, <1>2, <1>3, <2>3
<1> QED BY <1>1, <1>5, <1>6

\* A span and a prefix of the run.
LEMMA SpanChainNest ==
    ASSUME NEW m, NEW c, RunOK(m, c),
           NEW n, NodeOK(n, m, c), SpanOK(n, m, c),
           NEW p, NodeOK(p, m, c), ChainOK(p, m, c)
    PROVE  Nested(n, p)
<1> DEFINE j == TopSpan(n.remainder)
           d == B(j)
           a == n.i_0 - 1
           y == p.remainder
<1>1. /\ j \in Nat /\ d \in Nat \ {0} /\ a \in Nat /\ y \in Nat /\ m \in Nat
      /\ n.i_0 = a + 1 /\ c \in Nat /\ B(c) \in Nat \ {0}
    BY NodeNumbers
<1>2. /\ n.remainder = d /\ Multiple(a, d) /\ a + d <= m
      /\ j <= c + 1 /\ (j = c + 1 => n.i_0 = 1)
    BY DEF SpanOK
<1>3. p.i_0 = 1 /\ 2 * B(c) < y /\ (y = m \/ Multiple(y, B(c)))
    BY DEF ChainOK
<1> HIDE DEF d, j, a, y
<1>4. CASE y = m
    BY <1>1, <1>2, <1>3, <1>4 DEF Nested, y
<1>5. CASE j = c + 1
    <2>1. d = 2 * B(c)
        BY <1>1, <1>5, PowerDoubles DEF d
    <2> QED BY <1>1, <1>2, <1>3, <1>5, <2>1 DEF Nested, y
<1>6. CASE y # m /\ j # c + 1
    <2>1. Multiple(B(c), d)
        <3>1. j <= c
            BY <1>1, <1>2, <1>6
        <3> QED BY <1>1, <3>1, PowerMultiple DEF d
    <2>2. Multiple(y, d)
        BY <1>1, <1>3, <1>6, <2>1, MultipleTransitive
    <2>3. Multiple(0, d) /\ 0 \in Nat
        BY <1>1, MultipleSums
    <2>4. a + d <= 0 \/ (0 <= a /\ a + d <= y) \/ y <= a
        BY <1>1, <1>2, <2>2, <2>3, BlockNests
    <2> QED BY <1>1, <1>2, <1>3, <2>4 DEF Nested, y
<1> QED BY <1>4, <1>5, <1>6

\* A prefix of whole chunks ends before the last, partial one begins.
LEMMA ChainBigNest ==
    ASSUME NEW m, NEW c, RunOK(m, c),
           NEW n, NodeOK(n, m, c), ChainOK(n, m, c),
           NEW p, NodeOK(p, m, c), BigOK(p, m, c)
    PROVE  Nested(n, p)
<1> DEFINE d == B(c)
           b == p.i_0 - 1
           x == n.remainder
           q == m - (m % d)
<1>1. /\ d \in Nat \ {0} /\ b \in Nat /\ x \in Nat /\ m \in Nat
      /\ p.i_0 = b + 1 /\ p.remainder \in Nat
    BY NodeNumbers
<1>2. n.i_0 = 1 /\ x <= m /\ (x = m \/ Multiple(x, d))
    BY DEF ChainOK
<1>3. b + p.remainder = m /\ q <= b
    BY DEF BigOK
<1> HIDE DEF d, b, x
<1>4. CASE x = m
    BY <1>1, <1>2, <1>3, <1>4 DEF Nested, x
<1>5. CASE x # m
    <2>1. m % d \in 0 .. d - 1 /\ m % d <= m /\ Multiple(q, d)
        BY <1>1, Remainders
    <2>2. q \in Nat /\ m < q + d
        BY <1>1, <2>1
    <2> HIDE DEF q
    <2>3. x <= q
        <3> SUFFICES ASSUME q < x PROVE FALSE
            BY <1>1, <2>2
        <3>1. q + d <= x
            BY <1>1, <1>2, <1>5, <2>1, <2>2, MultipleStep
        <3> QED BY <1>1, <1>2, <2>2, <3>1
    <2> QED BY <1>1, <1>2, <1>3, <2>2, <2>3 DEF Nested, x
<1> QED BY <1>4, <1>5

\* Any two nodes.
LEMMA NodesNest ==
    ASSUME NEW m, NEW c, RunOK(m, c), NEW n, NodeOK(n, m, c), NEW p, NodeOK(p, m, c)
    PROVE  Nested(n, p)
<1>1. Nested(n, p) <=> Nested(p, n)
    BY DEF Nested
<1>2. /\ n.i_0 \in Nat \ {0} /\ n.remainder \in Nat \ {0}
      /\ p.i_0 \in Nat \ {0} /\ p.remainder \in Nat \ {0}
      /\ TopSpan(n.remainder) \in Nat /\ TopSpan(p.remainder) \in Nat
      /\ m \in Nat
    BY NodeNumbers
<1>3. CASE SpanOK(n, m, c)
    <2>1. CASE SpanOK(p, m, c)
        <3>1. \/ TopSpan(n.remainder) <= TopSpan(p.remainder)
              \/ TopSpan(p.remainder) <= TopSpan(n.remainder)
            BY <1>2
        <3> QED BY <1>1, <1>3, <2>1, <3>1, SpansNest
    <2>2. CASE BigOK(p, m, c)
        BY <1>3, <2>2, SpanBigNest
    <2>3. CASE ChainOK(p, m, c)
        BY <1>3, <2>3, SpanChainNest
    <2> QED BY <2>1, <2>2, <2>3 DEF NodeOK
<1>4. CASE BigOK(n, m, c)
    <2>1. CASE SpanOK(p, m, c)
        BY <1>1, <1>4, <2>1, SpanBigNest
    <2>2. CASE BigOK(p, m, c)
        <3>1. n.i_0 - 1 + n.remainder = m /\ p.i_0 - 1 + p.remainder = m
            BY <1>4, <2>2 DEF BigOK
        <3> QED BY <1>2, <3>1 DEF Nested
    <2>3. CASE ChainOK(p, m, c)
        BY <1>1, <1>4, <2>3, ChainBigNest
    <2> QED BY <2>1, <2>2, <2>3 DEF NodeOK
<1>5. CASE ChainOK(n, m, c)
    <2>1. CASE SpanOK(p, m, c)
        BY <1>1, <1>5, <2>1, SpanChainNest
    <2>2. CASE BigOK(p, m, c)
        BY <1>5, <2>2, ChainBigNest
    <2>3. CASE ChainOK(p, m, c)
        <3>1. n.i_0 = 1 /\ p.i_0 = 1
            BY <1>5, <2>3 DEF ChainOK
        <3> QED BY <1>2, <3>1 DEF Nested
    <2> QED BY <2>1, <2>2, <2>3 DEF NodeOK
<1> QED BY <1>3, <1>4, <1>5 DEF NodeOK

-----------------------------------------------------------------------------
(* The files of a node.                                                    *)

\* Only a chain is wider than two chunks.
LEMMA WideIsChain ==
    ASSUME NEW m, NEW c, RunOK(m, c), NEW n, NodeOK(n, m, c)
    PROVE  2 * B(c) < n.remainder <=> ChainOK(n, m, c)
<1>1. n.remainder \in Nat /\ c \in Nat /\ c + 1 \in Nat /\ B(c) \in Nat \ {0}
      /\ TopSpan(n.remainder) \in Nat /\ B(TopSpan(n.remainder)) \in Nat
    BY NodeNumbers
<1>2. B(c + 1) = 2 * B(c)
    BY <1>1, PowerDoubles
<1>3. SpanOK(n, m, c) => n.remainder <= 2 * B(c) /\ n.type = "span"
    <2> SUFFICES ASSUME SpanOK(n, m, c)
                 PROVE  n.remainder <= 2 * B(c) /\ n.type = "span"
        OBVIOUS
    <2>1. n.remainder = B(TopSpan(n.remainder)) /\ TopSpan(n.remainder) <= c + 1
          /\ n.type = "span"
        BY DEF SpanOK
    <2>2. B(TopSpan(n.remainder)) <= B(c + 1)
        BY <1>1, <2>1, PowerInjective
    <2> QED BY <1>2, <2>1, <2>2
<1>4. BigOK(n, m, c) => n.remainder <= 2 * B(c) /\ n.type = "big"
    BY <1>1 DEF BigOK
<1>5. ChainOK(n, m, c) => 2 * B(c) < n.remainder /\ n.type = "chain"
    BY DEF ChainOK
<1> QED BY <1>1, <1>3, <1>4, <1>5 DEF NodeOK

\* Whatever its type, a node is looked for as node_big_create would, and a span under
\* its own span.
LEMMA TestedNames ==
    ASSUME NEW m, NEW c, RunOK(m, c), NEW n, NodeOK(n, m, c)
    PROVE  /\ PathsTested(n) = BigPaths(n.i_0, n.remainder, n.level, c)
           /\ SpanOK(n, m, c) =>
                PathsTested(n) = SpanPaths(n.i_0, TopSpan(n.remainder), n.level, c)
           /\ PathsWritten(n) \subseteq PathsTested(n)
<1>1. n.chunk_span = c
    BY DEF NodeOK
<1>2. CASE SpanOK(n, m, c)
    <2>1. n.type = "span" /\ n.remainder = B(TopSpan(n.remainder))
        BY <1>2 DEF SpanOK
    <2>2. IsPowerOfTwo(n.remainder)
        BY <2>1 DEF IsPowerOfTwo
    <2>3. PathsTested(n) = SpanPaths(n.i_0, TopSpan(n.remainder), n.level, c)
        BY <1>1, <2>1 DEF PathsTested
    <2>4. BigPaths(n.i_0, n.remainder, n.level, c)
            = SpanPaths(n.i_0, TopSpan(n.remainder), n.level, c)
        BY <2>2 DEF BigPaths
    <2>5. PathsWritten(n) \subseteq PathsTested(n)
        BY <1>1, <2>1, <2>3 DEF PathsWritten, SpanPaths
    <2> QED BY <2>3, <2>4, <2>5
<1>3. CASE ~SpanOK(n, m, c)
    <2>1. n.type # "span"
        BY <1>3 DEF NodeOK, BigOK, ChainOK
    <2>2. PathsTested(n) = BigPaths(n.i_0, n.remainder, n.level, c)
        BY <1>1, <2>1 DEF PathsTested
    <2>3. PathsWritten(n) = {UnionPath(n.i_0, n.remainder, n.level, c)}
        BY <1>1, <2>1 DEF PathsWritten
    <2>4. UnionPath(n.i_0, n.remainder, n.level, c) \in
            BigPaths(n.i_0, n.remainder, n.level, c)
        <3>1. CASE IsPowerOfTwo(n.remainder)
            <4>1. n.remainder = B(TopSpan(n.remainder))
                BY <3>1 DEF IsPowerOfTwo
            <4> QED BY <3>1, <4>1 DEF BigPaths, SpanPaths
        <3>2. CASE ~IsPowerOfTwo(n.remainder)
            BY <3>2 DEF BigPaths
        <3> QED BY <3>1, <3>2
    <2> QED BY <1>3, <2>2, <2>3, <2>4
<1> QED BY <1>2, <1>3

\* What the name of a file says of the node it is for: a signed piece gives its
\* start and span, a chain its end, and any other result both ends.
LEMMA NameSays ==
    ASSUME NEW m, NEW c, RunOK(m, c), NEW n, NodeOK(n, m, c), NEW f \in PathsTested(n)
    PROVE  \/ /\ f = <<"p", n.i_0, TopSpan(n.remainder)>>
              /\ n.remainder = B(TopSpan(n.remainder))
           \/ /\ f = <<"c", (n.remainder + B(c) - 1) \div B(c), n.i_0 + n.remainder - 1>>
              /\ n.i_0 = 1
           \/ f = <<"r", n.i_0, n.level, n.i_0 + n.remainder - 1>>
<1> DEFINE u == UnionPath(n.i_0, n.remainder, n.level, c)
           k == TopSpan(n.remainder)
<1>1. \/ f = SigPath(n.i_0, k) /\ n.remainder = B(k)
      \/ f = u
    <2>1. f \in BigPaths(n.i_0, n.remainder, n.level, c)
        BY TestedNames
    <2>2. CASE IsPowerOfTwo(n.remainder)
        <3>1. n.remainder = B(k)
            BY <2>2 DEF IsPowerOfTwo
        <3>2. f \in SpanPaths(n.i_0, k, n.level, c)
            BY <2>1, <2>2 DEF BigPaths
        <3> HIDE DEF k
        <3> QED BY <3>1, <3>2 DEF SpanPaths
    <2>3. CASE ~IsPowerOfTwo(n.remainder)
        BY <2>1, <2>3 DEF BigPaths
    <2> QED BY <2>2, <2>3
<1>2. CASE f = SigPath(n.i_0, k) /\ n.remainder = B(k)
    BY <1>2 DEF SigPath
<1>3. CASE f = u /\ 2 * B(c) < n.remainder
    <2>1. n.i_0 = 1
        BY <1>3, WideIsChain DEF ChainOK
    <2> QED BY <1>3, <2>1 DEF UnionPath
<1>4. CASE f = u /\ ~(2 * B(c) < n.remainder)
    <2>1. n.remainder \in Nat /\ B(c) \in Nat
        BY NodeNumbers
    <2>2. ~(n.remainder > 2 * B(c))
        BY <1>4, <2>1
    <2> QED BY <1>4, <2>2 DEF UnionPath
<1> QED BY <1>1, <1>2, <1>3, <1>4

\* No two ranges share a file.
LEMMA NamesDiffer ==
    ASSUME NEW m, NEW c, RunOK(m, c), NEW n, NodeOK(n, m, c), NEW p, NodeOK(p, m, c),
           PathsTested(n) \cap PathsTested(p) # {}
    PROVE  n.i_0 = p.i_0 /\ n.remainder = p.remainder
<1>1. PICK f : f \in PathsTested(n) /\ f \in PathsTested(p)
    OBVIOUS
<1>2. /\ n.i_0 \in Nat /\ n.remainder \in Nat
      /\ p.i_0 \in Nat /\ p.remainder \in Nat
    BY NodeNumbers
<1> DEFINE a == n.i_0
           b == p.i_0
           x == n.remainder
           y == p.remainder
<1>3. \/ f = <<"p", a, TopSpan(x)>> /\ x = B(TopSpan(x))
      \/ f = <<"c", (x + B(c) - 1) \div B(c), a + x - 1>> /\ a = 1
      \/ f = <<"r", a, n.level, a + x - 1>>
    BY <1>1, NameSays
<1>4. \/ f = <<"p", b, TopSpan(y)>> /\ y = B(TopSpan(y))
      \/ f = <<"c", (y + B(c) - 1) \div B(c), b + y - 1>> /\ b = 1
      \/ f = <<"r", b, p.level, b + y - 1>>
    BY <1>1, NameSays
<1> HIDE DEF a, b, x, y
<1>5. \/ f[1] = "p" /\ f[2] = a /\ f[3] = TopSpan(x) /\ x = B(TopSpan(x))
      \/ f[1] = "c" /\ f[3] = a + x - 1 /\ a = 1
      \/ f[1] = "r" /\ f[2] = a /\ f[4] = a + x - 1
    BY <1>3
<1>6. \/ f[1] = "p" /\ f[2] = b /\ f[3] = TopSpan(y) /\ y = B(TopSpan(y))
      \/ f[1] = "c" /\ f[3] = b + y - 1 /\ b = 1
      \/ f[1] = "r" /\ f[2] = b /\ f[4] = b + y - 1
    BY <1>4
<1>7. CASE f[1] = "p"
    BY <1>5, <1>6, <1>7 DEF a, b, x, y
<1>8. CASE f[1] # "p"
    <2>1. a = b /\ a + x - 1 = b + y - 1
        BY <1>5, <1>6, <1>8
    <2>2. x = y
        BY <1>2, <2>1 DEF a, b, x, y
    <2> QED BY <2>1, <2>2 DEF a, b, x, y
<1> QED BY <1>7, <1>8

\* Every part of the code looks for a child under the names the child's creation
\* tests.
LEMMA NamesMeet ==
    ASSUME NEW m, NEW c, RunOK(m, c), NEW n, NodeOK(n, m, c), ~NodeIsLeaf(n),
           NEW index \in 0 .. 1
    PROVE  /\ PathsJoined(n, index) = PathsTested(NodeExpand(n, index))
           /\ PathsSized(n, index) = PathsTested(NodeExpand(n, index))
<1> DEFINE ch == NodeExpand(n, index)
           x == n.remainder
           k == TopSpan(x)
           up == n.level + 1
<1>1. n.chunk_span = c
    BY DEF NodeOK
<1>2. x \in Nat /\ B(c) \in Nat /\ k \in Nat /\ B(k) \in Nat /\ n.i_0 \in Nat
    BY NodeNumbers
<1>3. ~ChainOK(n, m, c) => LevelChild(n.level, x, c) = up
    <2> SUFFICES ASSUME ~ChainOK(n, m, c) PROVE LevelChild(n.level, x, c) = up
        OBVIOUS
    <2>1. ~(2 * B(c) < x)
        BY WideIsChain
    <2>2. ~(x > 2 * B(c))
        BY <1>2, <2>1
    <2> QED BY <2>2 DEF LevelChild
<1>4. ChainOK(n, m, c) => LevelChild(n.level, x, c) = 0
    <2> SUFFICES ASSUME ChainOK(n, m, c) PROVE LevelChild(n.level, x, c) = 0
        OBVIOUS
    <2>1. x > 2 * B(c)
        BY <1>2 DEF ChainOK
    <2> QED BY <2>1 DEF LevelChild
<1>5. CASE SpanOK(n, m, c)
    <2>1. n.type = "span" /\ ~ChainOK(n, m, c)
        BY <1>5 DEF SpanOK, ChainOK
    <2>2. ch = NodeExpandSpan(n, index)
        BY <2>1 DEF NodeExpand
    <2>3. /\ NodeOK(ch, m, c) /\ SpanOK(ch, m, c)
          /\ ch.i_0 = n.i_0 + index * B(k - 1) /\ TopSpan(ch.remainder) = k - 1
          /\ ch.level = up
        BY <1>5, <2>2, SpanChildren
    <2> HIDE DEF ch
    <2>4. PathsTested(ch) = SpanPaths(n.i_0 + index * B(k - 1), k - 1, up, c)
        BY <2>3, TestedNames
    <2>5. PathsJoined(n, index) = SpanPaths(n.i_0 + index * B(k - 1), k - 1, up, c)
        BY <1>1, <1>3, <2>1 DEF PathsJoined
    <2>6. PathsSized(n, index) = SpanPaths(n.i_0 + index * B(k - 1), k - 1, up, c)
        BY <1>1, <2>1 DEF PathsSized
    <2> QED BY <2>4, <2>5, <2>6 DEF ch
<1>6. CASE BigOK(n, m, c)
    <2>1. n.type = "big" /\ ~ChainOK(n, m, c)
        BY <1>6 DEF BigOK, ChainOK
    <2>2. ch = NodeExpandBig(n, index)
        BY <2>1 DEF NodeExpand
    <2>3. CASE index = 0
        <3>1. /\ NodeOK(ch, m, c) /\ SpanOK(ch, m, c)
              /\ ch.i_0 = n.i_0 /\ TopSpan(ch.remainder) = k /\ ch.level = up
            BY <1>6, <2>2, <2>3, BigChildren
        <3> HIDE DEF ch
        <3>2. PathsTested(ch) = SpanPaths(n.i_0, k, up, c)
            BY <3>1, TestedNames
        <3>3. PathsJoined(n, index) = SpanPaths(n.i_0, k, up, c)
            BY <1>1, <1>3, <2>1, <2>3 DEF PathsJoined
        <3>4. PathsSized(n, index) = SpanPaths(n.i_0, k, up, c)
            BY <1>1, <2>1, <2>3 DEF PathsSized
        <3> QED BY <3>2, <3>3, <3>4 DEF ch
    <2>4. CASE index = 1
        <3>1. /\ NodeOK(ch, m, c)
              /\ ch.i_0 = n.i_0 + B(k) /\ ch.remainder = x - B(k) /\ ch.level = up
            BY <1>6, <2>2, <2>4, BigChildren
        <3> HIDE DEF ch
        <3>2. PathsTested(ch) = BigPaths(n.i_0 + B(k), x - B(k), up, c)
            BY <3>1, TestedNames
        <3>3. PathsJoined(n, index) = BigPaths(n.i_0 + B(k), x - B(k), up, c)
            BY <1>1, <1>3, <2>1, <2>4 DEF PathsJoined
        <3>4. PathsSized(n, index) = BigPaths(n.i_0 + B(k), x - B(k), up, c)
            BY <1>1, <2>1, <2>4 DEF PathsSized
        <3> QED BY <3>2, <3>3, <3>4 DEF ch
    <2> QED BY <2>3, <2>4
<1>7. CASE ChainOK(n, m, c)
    <2> DEFINE cut == x - NodeChainChunk(n)
    <2>1. n.type = "chain"
        BY <1>7 DEF ChainOK
    <2>2. ch = NodeExpandChain(n, index)
        BY <2>1 DEF NodeExpand
    <2>3. NodeChainChunk(n) \in Nat
        BY <1>7, ChainChildren
    <2>4. CASE index = 0
        <3>1. NodeOK(ch, m, c) /\ ch.i_0 = n.i_0 /\ ch.remainder = cut /\ ch.level = 0
            BY <1>7, <2>2, <2>4, ChainChildren
        <3> HIDE DEF ch
        <3>2. PathsTested(ch) = BigPaths(n.i_0, cut, 0, c)
            BY <3>1, TestedNames
        <3>3. PathsJoined(n, index) = BigPaths(n.i_0, cut, 0, c)
            BY <1>1, <1>4, <1>7, <2>1, <2>4 DEF PathsJoined
        <3>4. PathsSized(n, index) = BigPaths(n.i_0, cut, 0, c)
            BY <1>1, <2>1, <2>4 DEF PathsSized
        <3> QED BY <3>2, <3>3, <3>4 DEF ch
    <2>5. CASE index = 1
        <3>1. NodeOK(ch, m, c) /\ ch.i_0 = n.i_0 + cut
              /\ ch.remainder = NodeChainChunk(n) /\ ch.level = 0
            BY <1>7, <2>2, <2>5, ChainChildren
        <3>2. x - cut = NodeChainChunk(n)
            BY <1>2, <2>3
        <3> HIDE DEF ch
        <3>3. PathsTested(ch) = BigPaths(n.i_0 + cut, x - cut, 0, c)
            BY <3>1, <3>2, TestedNames
        <3>4. PathsJoined(n, index) = BigPaths(n.i_0 + cut, x - cut, 0, c)
            BY <1>1, <1>4, <1>7, <2>1, <2>5 DEF PathsJoined
        <3>5. PathsSized(n, index) = BigPaths(n.i_0 + cut, x - cut, 0, c)
            BY <1>1, <2>1, <2>5 DEF PathsSized
        <3> QED BY <3>3, <3>4, <3>5 DEF ch
    <2> QED BY <2>4, <2>5
<1> QED BY <1>5, <1>6, <1>7 DEF NodeOK

-----------------------------------------------------------------------------
(* The walk.                                                               *)

M == GetIndexMax(size)

C == TreeChunkSpan(M)

\* The inductive invariant: both cursors stand on nodes of the run.
CursorsOK ==
    /\ size \in 1 .. MaxSize
    /\ DOMAIN cursor = Cursors
    /\ \A k \in Cursors : NodeOK(cursor[k], M, C)

LEMMA RunAndRoot ==
    ASSUME size \in 1 .. MaxSize
    PROVE  /\ RunOK(M, C)
           /\ PieceSpan < BitWidth(M)
           /\ NodeOK(Root(size), M, C)
           /\ Root(size).i_0 = 1 /\ Root(size).remainder = M /\ Root(size).level = 0
<1>1. size \in Nat \ {0}
    BY MaxSizeAssumption
<1>2. RunOK(M, C) /\ PieceSpan < BitWidth(M)
    BY <1>1, RunOfSize DEF M, C
<1>3. M \in Nat \ {0} /\ M <= M /\ (M = B(C) \/ M = 2 * B(C) \/ 2 * B(C) < M)
    BY <1>2 DEF RunOK
<1>4. Root(size) = NodeChunkedCreate(1, M, C, 0)
    BY DEF Root, M, C
<1> QED BY <1>2, <1>3, <1>4, ChunkedMade

\* The walk never leaves the run's tree: the invariant behind the theorems below.
THEOREM WalkSound == Spec => []CursorsOK
<1>1. Init => CursorsOK
    <2> SUFFICES ASSUME Init PROVE CursorsOK
        OBVIOUS
    <2>1. size \in 1 .. MaxSize /\ cursor = [k \in Cursors |-> Root(size)]
        BY DEF Init
    <2>2. NodeOK(Root(size), M, C)
        BY <2>1, RunAndRoot
    <2> QED BY <2>1, <2>2 DEF CursorsOK
<1>2. CursorsOK /\ [Next]_vars => CursorsOK'
    <2> SUFFICES ASSUME CursorsOK, [Next]_vars PROVE CursorsOK'
        OBVIOUS
    <2>1. ASSUME NEW k \in Cursors, NEW index \in 0 .. 1, Descend(k, index)
          PROVE  CursorsOK'
        <3>1. /\ ~NodeIsLeaf(cursor[k]) /\ size' = size
              /\ cursor' = [cursor EXCEPT ![k] = NodeExpand(cursor[k], index)]
            BY <2>1 DEF Descend
        <3>2. RunOK(M, C)
            BY RunAndRoot DEF CursorsOK
        <3>3. NodeOK(NodeExpand(cursor[k], index), M, C)
            <4>1. /\ NodeOK(NodeExpand(cursor[k], 0), M, C)
                  /\ NodeOK(NodeExpand(cursor[k], 1), M, C)
                BY <3>1, <3>2, ChildrenOK DEF CursorsOK
            <4>2. index = 0 \/ index = 1
                OBVIOUS
            <4> QED BY <4>1, <4>2
        <3>4. M' = M /\ C' = C
            BY <3>1 DEF M, C
        <3>5. ASSUME NEW j \in Cursors PROVE NodeOK(cursor'[j], M, C)
            BY <3>1, <3>3 DEF CursorsOK
        <3>6. DOMAIN cursor' = Cursors /\ size' \in 1 .. MaxSize
            BY <3>1 DEF CursorsOK
        <3>7. \A j \in Cursors : NodeOK(cursor'[j], M', C')
            BY <3>4, <3>5
        <3>8. \A j \in Cursors : NodeOK(cursor[j], M, C)'
            BY <3>7
        <3> QED BY <3>6, <3>8 DEF CursorsOK
    <2>2. CASE UNCHANGED vars
        BY <2>2 DEF CursorsOK, vars, M, C
    <2> QED BY <2>1, <2>2 DEF Next
<1> QED BY <1>1, <1>2, PTL DEF Spec

\* The nodes of a walk have their types and all carry the run's chunk span.
THEOREM TypeCorrect == Spec => []TypeOK
<1>1. CursorsOK => TypeOK
    <2> SUFFICES ASSUME CursorsOK PROVE TypeOK
        OBVIOUS
    <2>1. NodeOK(Root(size), M, C)
        BY RunAndRoot DEF CursorsOK
    <2> QED BY <2>1 DEF CursorsOK, TypeOK, NodeOK
<1> QED BY <1>1, WalkSound, PTL

\* The assertions of node_span_create, node_chain_create and tree_chunk_span never
\* fail, and a chain folds at most 2^ChainBits chunks, all of them whole but the last.
THEOREM AssertionsHold == Spec => []AssertsHold
<1>1. CursorsOK => AssertsHold
    <2> SUFFICES ASSUME CursorsOK PROVE AssertsHold
        OBVIOUS
    <2>1. RunOK(M, C) /\ BitWidth(GetIndexMax(size)) > PieceSpan
        <3>1. PieceSpan < BitWidth(M) /\ M \in Nat \ {0} /\ RunOK(M, C)
            BY RunAndRoot DEF CursorsOK, RunOK
        <3>2. BitWidth(M) \in Nat /\ PieceSpan \in Nat
            BY <3>1, WidthBounds, PieceSpanAssumption
        <3> QED BY <3>1, <3>2 DEF M
    <2>2. ASSUME NEW n, NodeOK(n, M, C)
          PROVE  /\ n.type = "span" => TopSpan(n.remainder) >= PieceSpan
                 /\ n.type = "big" => ~IsPowerOfTwo(n.remainder)
                 /\ n.type = "chain" =>
                     /\ n.remainder > 2 * B(n.chunk_span)
                     /\ NodeChainChunks(n) <= B(ChainBits)
                     /\ NodeExpand(n, 0).remainder % B(n.chunk_span) = 0
                     /\ NodeExpand(n, 1).remainder <= B(n.chunk_span)
        <3>1. /\ n.remainder \in Nat \ {0} /\ TopSpan(n.remainder) \in Nat
              /\ B(C) \in Nat \ {0} /\ n.chunk_span = C /\ PieceSpan \in Nat
            BY <2>1, <2>2, NodeNumbers, PieceSpanAssumption DEF NodeOK
        <3>2. CASE SpanOK(n, M, C)
            <4>1. n.type = "span" /\ PieceSpan <= TopSpan(n.remainder)
                BY <3>2 DEF SpanOK
            <4> QED BY <3>1, <4>1
        <3>3. CASE BigOK(n, M, C)
            BY <3>3 DEF BigOK
        <3>4. CASE ChainOK(n, M, C)
            <4> DEFINE d == B(C)
                       chunk == NodeChainChunk(n)
                       prefix == n.remainder - chunk
                       l == NodeExpand(n, 0)
                       r == NodeExpand(n, 1)
            <4>1. n.type = "chain" /\ 2 * d < n.remainder /\ n.remainder <= M
                BY <3>4 DEF ChainOK
            <4>2. /\ l.remainder = prefix /\ r.remainder = chunk /\ chunk <= d
                  /\ prefix \in Nat \ {0} /\ Multiple(prefix, d)
                <5>1. l = NodeExpandChain(n, 0) /\ r = NodeExpandChain(n, 1)
                    BY <4>1 DEF NodeExpand
                <5> QED BY <2>1, <2>2, <3>4, <5>1, ChainChildren
            <4>3. prefix % d = 0
                <5> HIDE DEF prefix, d
                <5>1. d \in Nat \ {0} /\ prefix \in Nat
                    BY <3>1, <4>2 DEF d
                <5> QED BY <4>2, <5>1, Remainders
            <4>4. NodeChainChunks(n) <= B(ChainBits)
                <5>1. B(ChainBits) \in Nat /\ M \in Nat /\ M <= B(ChainBits) * d
                    BY <2>1, ChainBitsAssumption, PowerDoubles DEF RunOK
                <5>2. n.remainder <= B(ChainBits) * d
                    <6>1. B(ChainBits) * d \in Nat
                        BY <3>1, <5>1
                    <6> HIDE DEF d
                    <6> QED BY <3>1, <4>1, <5>1, <6>1
                <5>3. NodeChainChunks(n) = (n.remainder + d - 1) \div d
                    BY <3>1 DEF NodeChainChunks
                <5> HIDE DEF d
                <5>4. d \in Nat \ {0}
                    BY <3>1 DEF d
                <5> QED BY <3>1, <5>1, <5>2, <5>3, <5>4, QuotientUp
            <4>5. n.remainder > 2 * d
                BY <3>1, <4>1
            <4> HIDE DEF d, prefix, chunk, l, r
            <4>6. l.remainder % d = 0 /\ r.remainder <= d
                BY <4>2, <4>3
            <4> QED BY <3>1, <4>1, <4>4, <4>5, <4>6 DEF d, l, r
        <3> QED BY <2>2, <3>2, <3>3, <3>4 DEF NodeOK
    <2>3. \A k \in Cursors : NodeOK(cursor[k], M, C)
        BY DEF CursorsOK
    <2> QED BY <2>1, <2>2, <2>3 DEF AssertsHold
<1> QED BY <1>1, WalkSound, PTL

\* A join fuses exactly its own range: its children split it at one point, in order.
THEOREM RangeSplits == Spec => []ChildrenSplitRange
<1>1. CursorsOK => ChildrenSplitRange
    <2> SUFFICES ASSUME CursorsOK PROVE ChildrenSplitRange
        OBVIOUS
    <2>1. RunOK(M, C)
        BY RunAndRoot DEF CursorsOK
    <2>2. ASSUME NEW n, NodeOK(n, M, C), ~NodeIsLeaf(n)
          PROVE  LET l == NodeExpand(n, 0)
                     r == NodeExpand(n, 1)
                 IN  /\ l.i_0 = n.i_0
                     /\ r.i_0 = l.i_0 + l.remainder
                     /\ l.remainder + r.remainder = n.remainder
                     /\ l.remainder > 0 /\ r.remainder > 0
        <3> DEFINE l == NodeExpand(n, 0)
                   r == NodeExpand(n, 1)
        <3>1. NodeOK(l, M, C) /\ NodeOK(r, M, C) /\ Split(n, l, r)
            BY <2>1, <2>2, ChildrenOK
        <3> HIDE DEF l, r
        <3>2. l.remainder \in Nat \ {0} /\ r.remainder \in Nat \ {0}
            BY <3>1, NodeFields DEF NodeOK
        <3>3. l.remainder > 0 /\ r.remainder > 0
            BY <3>2
        <3> QED BY <3>1, <3>3 DEF Split, l, r
    <2>3. \A k \in Expanded : NodeOK(cursor[k], M, C) /\ ~NodeIsLeaf(cursor[k])
        BY DEF CursorsOK, Expanded
    <2> QED BY <2>2, <2>3 DEF ChildrenSplitRange
<1> QED BY <1>1, WalkSound, PTL

\* Two nodes of one run are disjoint or one is inside of the other, however deep and
\* wherever they are.
THEOREM RangesNeverCross == Spec => []RangesNest
<1>1. CursorsOK => RangesNest
    <2> SUFFICES ASSUME CursorsOK PROVE RangesNest
        OBVIOUS
    <2> DEFINE n == cursor[1]
               p == cursor[2]
    <2>1. RunOK(M, C) /\ NodeOK(n, M, C) /\ NodeOK(p, M, C)
        BY RunAndRoot DEF CursorsOK, Cursors
    <2> HIDE DEF n, p
    <2>2. Nested(n, p)
        BY <2>1, NodesNest
    <2>3. n.i_0 \in Nat /\ n.remainder \in Nat /\ p.i_0 \in Nat /\ p.remainder \in Nat
        BY <2>1, NodeNumbers
    <2>4. ASSUME NEW a \in Nat, NEW x \in Nat, NEW b \in Nat, NEW y \in Nat,
                 \/ a + x <= b
                 \/ b + y <= a
                 \/ b <= a /\ a + x <= b + y
                 \/ a <= b /\ b + y <= a + x
          PROVE  LET I == a .. ((a + x) - 1)
                     J == b .. ((b + y) - 1)
                 IN  I \subseteq J \/ J \subseteq I \/ I \cap J = {}
        BY <2>4
    <2>5. Indices(n) \subseteq Indices(p) \/ Indices(p) \subseteq Indices(n)
          \/ Indices(n) \cap Indices(p) = {}
        <3> DEFINE a == n.i_0
                   x == n.remainder
                   b == p.i_0
                   y == p.remainder
        <3>1. a \in Nat /\ x \in Nat /\ b \in Nat /\ y \in Nat
            BY <2>3
        <3>2. Indices(n) = a .. ((a + x) - 1) /\ Indices(p) = b .. ((b + y) - 1)
            <4>1. a + x - 1 = (a + x) - 1 /\ b + y - 1 = (b + y) - 1
                BY <3>1
            <4> QED BY <4>1 DEF Indices
        <3>3. \/ a + x <= b
              \/ b + y <= a
              \/ b <= a /\ a + x <= b + y
              \/ a <= b /\ b + y <= a + x
            BY <2>2 DEF Nested
        <3> HIDE DEF a, b, x, y
        <3> QED BY <2>4, <3>1, <3>2, <3>3
    <2> QED BY <2>5 DEF RangesNest, n, p
<1> QED BY <1>1, WalkSound, PTL

\* Two different ranges of one run never share a cache file.
THEOREM FilesNeverShared == Spec => []NamesUnique
<1>1. CursorsOK => NamesUnique
    <2> SUFFICES ASSUME CursorsOK, PathsTested(cursor[1]) \cap PathsTested(cursor[2]) # {}
                 PROVE  Indices(cursor[1]) = Indices(cursor[2])
        BY DEF NamesUnique
    <2>1. RunOK(M, C) /\ NodeOK(cursor[1], M, C) /\ NodeOK(cursor[2], M, C)
        BY RunAndRoot DEF CursorsOK, Cursors
    <2>2. cursor[1].i_0 = cursor[2].i_0 /\ cursor[1].remainder = cursor[2].remainder
        BY <2>1, NamesDiffer
    <2> QED BY <2>2 DEF Indices
<1> QED BY <1>1, WalkSound, PTL

\* The four parts of the code that work out the name of a child's file agree on it.
THEOREM DerivationsAgree == Spec => []NamesAgree
<1>1. CursorsOK => NamesAgree
    <2> SUFFICES ASSUME CursorsOK PROVE NamesAgree
        OBVIOUS
    <2>1. /\ RunOK(M, C) /\ NodeOK(Root(size), M, C)
          /\ Root(size).i_0 = 1 /\ Root(size).remainder = M /\ Root(size).level = 0
        BY RunAndRoot DEF CursorsOK
    <2>2. PathsWritten(Root(size)) \subseteq PathsFinished(size)
        <3>1. PathsFinished(size) = BigPaths(1, M, 0, C)
            BY DEF PathsFinished, M, C
        <3> QED BY <2>1, <3>1, TestedNames
    <2>3. ASSUME NEW n, NodeOK(n, M, C), ~NodeIsLeaf(n), NEW index \in 0 .. 1
          PROVE  LET child == NodeExpand(n, index)
                 IN  /\ PathsWritten(child) \subseteq PathsTested(child)
                     /\ PathsJoined(n, index) = PathsTested(child)
                     /\ PathsSized(n, index) = PathsTested(child)
        <3> DEFINE child == NodeExpand(n, index)
        <3>1. NodeOK(child, M, C)
            <4>1. NodeOK(NodeExpand(n, 0), M, C) /\ NodeOK(NodeExpand(n, 1), M, C)
                BY <2>1, <2>3, ChildrenOK
            <4>2. index = 0 \/ index = 1
                OBVIOUS
            <4> QED BY <4>1, <4>2
        <3>2. PathsWritten(child) \subseteq PathsTested(child)
            BY <2>1, <3>1, TestedNames
        <3> QED BY <2>1, <2>3, <3>2, NamesMeet
    <2>4. \A k \in Expanded : NodeOK(cursor[k], M, C) /\ ~NodeIsLeaf(cursor[k])
        BY DEF CursorsOK, Expanded
    <2> QED BY <2>2, <2>3, <2>4 DEF NamesAgree
<1> QED BY <1>1, WalkSound, PTL

-----------------------------------------------------------------------------
(* The tree the dashboard builds.                                          *)

\* The dashboard measures with the powers the program measures with.
LEMMA SamePowers == \A k : D!B(k) = B(k)
BY DEF B, D!B, Powers, D!Powers

\* bit_length() - 1 is the span of a number.
LEMMA SameTopBit ==
    ASSUME NEW k \in Nat \ {0}
    PROVE  D!TopBit(k) = TopSpan(k)
<1> DEFINE Top(w) == B(w) <= k /\ k < B(w + 1)
<1>1. TopSpan(k) \in 0 .. k /\ Top(TopSpan(k))
    <2>1. TopSpan(k) < B(TopSpan(k)) /\ B(TopSpan(k)) \in Nat
        BY WidthBounds, PowerOrder, PowerDoubles
    <2> QED BY <2>1, WidthBounds
<1>2. ASSUME NEW v \in 0 .. k, NEW w \in 0 .. k, Top(v), Top(w)
      PROVE  v = w
    <2>1. v \in Nat /\ w \in Nat /\ v + 1 \in Nat /\ w + 1 \in Nat
        OBVIOUS
    <2>2. /\ B(v) \in Nat /\ B(w) \in Nat
          /\ B(v + 1) \in Nat /\ B(w + 1) \in Nat
        BY <2>1, PowerDoubles
    <2>3. B(v) < B(w + 1) /\ B(w) < B(v + 1)
        BY <1>2, <2>2
    <2>4. v < w + 1 /\ w < v + 1
        BY <2>1, <2>3, PowerInjective
    <2> QED BY <2>1, <2>4
<1>3. D!TopBit(k) = CHOOSE w \in 0 .. k : Top(w)
    BY SamePowers DEF D!TopBit
<1> HIDE DEF Top
<1> QED BY <1>1, <1>2, <1>3

\* Each builder describes the node that the constructor of the program makes of
\* the same arguments.
LEMMA ShownSpan ==
    ASSUME NEW i_0, NEW k \in Nat, NEW level, NEW c
    PROVE  Shown(NodeSpanCreate(i_0, k, level, c)) = D!BuildSpan(i_0, k, level)
<1> DEFINE w == B(k)
           n == MakeNode("span", i_0, w, level, c)
<1>1. TopSpan(w) = k /\ NodeSpanCreate(i_0, k, level, c) = n
    BY TopOfPower DEF NodeSpanCreate
<1> HIDE DEF w
<1>2. n.type = "span" /\ n.i_0 = i_0 /\ n.remainder = w /\ n.level = level
    BY DEF MakeNode
<1> HIDE DEF n
<1>3. Shown(n) = D!Shape("SPAN", i_0, level, k)
    BY <1>1, <1>2 DEF Shown
<1> QED BY <1>1, <1>3 DEF D!BuildSpan

LEMMA ShownBig ==
    ASSUME NEW i_0, NEW r \in Nat \ {0}, NEW level, NEW c
    PROVE  Shown(NodeBigCreate(i_0, r, level, c)) = D!BuildBig(i_0, r, level)
<1>1. D!TopBit(r) = TopSpan(r) /\ TopSpan(r) \in Nat
    BY SameTopBit, WidthBounds
<1>2. D!BuildBig(i_0, r, level) =
        IF IsPowerOfTwo(r) THEN D!BuildSpan(i_0, TopSpan(r), level)
        ELSE D!Shape("BIG", i_0, level, r)
    BY <1>1, SamePowers DEF D!BuildBig, IsPowerOfTwo
<1>3. CASE IsPowerOfTwo(r)
    BY <1>1, <1>2, <1>3, ShownSpan DEF NodeBigCreate
<1>4. CASE ~IsPowerOfTwo(r)
    <2> DEFINE n == MakeNode("big", i_0, r, level, c)
    <2>1. n.type = "big" /\ n.i_0 = i_0 /\ n.remainder = r /\ n.level = level
        BY DEF MakeNode
    <2>2. NodeBigCreate(i_0, r, level, c) = n
        BY <1>4 DEF NodeBigCreate
    <2> HIDE DEF n
    <2>3. Shown(n) = D!Shape("BIG", i_0, level, r)
        BY <2>1 DEF Shown
    <2> QED BY <1>2, <1>4, <2>2, <2>3
<1> QED BY <1>3, <1>4

LEMMA ShownChunked ==
    ASSUME NEW i_0, NEW r, NEW c \in Nat, NEW level
    PROVE  Shown(NodeChunkedCreate(i_0, r, c, level)) = D!BuildChunked(i_0, r, c, level)
<1>1. c + 1 \in Nat
    OBVIOUS
<1>2. CASE r = B(c)
    BY <1>2, ShownSpan, SamePowers DEF NodeChunkedCreate, D!BuildChunked
<1>3. CASE r # B(c) /\ r = 2 * B(c)
    BY <1>1, <1>3, ShownSpan, SamePowers DEF NodeChunkedCreate, D!BuildChunked
<1>4. CASE r # B(c) /\ r # 2 * B(c)
    <2> DEFINE n == MakeNode("chain", i_0, r, 0, c)
    <2>1. n.type = "chain" /\ n.i_0 = i_0 /\ n.remainder = r /\ n.chunk_span = c
        BY DEF MakeNode
    <2>2. NodeChunkedCreate(i_0, r, c, level) = n
        BY <1>4 DEF NodeChunkedCreate
    <2> HIDE DEF n
    <2>3. Shown(n) = D!Shape("CHAIN", i_0, (r + B(c) - 1) \div B(c), r)
        BY <2>1 DEF Shown, NodeChainChunks
    <2>4. D!BuildChunked(i_0, r, c, level) = D!BuildChain(i_0, r, c)
        BY <1>4, SamePowers DEF D!BuildChunked
    <2> QED BY <2>2, <2>3, <2>4, SamePowers DEF D!BuildChain
<1> QED BY <1>2, <1>3, <1>4

\* The dashboard expands a node into what it shows of the program's children, and
\* a leaf into nothing.
LEMMA ShownChildren ==
    ASSUME NEW m, NEW c, RunOK(m, c), NEW n, NodeOK(n, m, c)
    PROVE  D!Children(Shown(n), c) =
               IF NodeIsLeaf(n) THEN << >>
               ELSE << Shown(NodeExpand(n, 0)), Shown(NodeExpand(n, 1)) >>
<1> DEFINE s == Shown(n)
           k == TopSpan(n.remainder)
<1>1. /\ n.i_0 \in Nat \ {0} /\ n.remainder \in Nat \ {0} /\ n.level \in Nat
      /\ n.chunk_span = c /\ c \in Nat /\ B(c) \in Nat \ {0}
      /\ k \in Nat /\ B(k) \in Nat \ {0} /\ PieceSpan \in Nat
    BY NodeFields, NodeNumbers, PieceSpanAssumption DEF NodeOK
<1>2. CASE SpanOK(n, m, c)
    <2>1. s = D!Shape("SPAN", n.i_0, n.level, k) /\ n.type = "span"
          /\ n.remainder = B(k) /\ PieceSpan <= k
        BY <1>2 DEF Shown, SpanOK
    <2>2. NodeExpand(n, 0) = NodeExpandSpan(n, 0) /\ NodeExpand(n, 1) = NodeExpandSpan(n, 1)
        BY <2>1 DEF NodeExpand
    <2>3. NodeIsLeaf(n) <=> k = PieceSpan
        <3> HIDE DEF k
        <3> QED BY <1>1, <2>1, PowerInjective DEF NodeIsLeaf
    <2>4. /\ NodeExpandSpan(n, 0) =
                NodeSpanCreate(n.i_0 + 0 * B(k - 1), k - 1, n.level + 1, c)
          /\ NodeExpandSpan(n, 1) =
                NodeSpanCreate(n.i_0 + 1 * B(k - 1), k - 1, n.level + 1, c)
        BY <1>1 DEF NodeExpandSpan
    <2> HIDE DEF s, k
    <2>5. s.kind = "SPAN" /\ s.i0 = n.i_0 /\ s.n2 = k /\ s.level = n.level
        BY <2>1 DEF D!Shape
    <2>6. D!Children(s, c) = D!SpanChildren(s)
        BY <2>5 DEF D!Children
    <2>7. CASE k = PieceSpan
        <3>1. ~(k > PieceSpan)
            BY <1>1, <2>7
        <3>2. D!Children(s, c) = << >>
            BY <2>5, <2>6, <3>1 DEF D!SpanChildren
        <3> QED BY <2>3, <2>7, <3>2 DEF s
    <2>8. CASE k # PieceSpan
        <3>1. k > PieceSpan /\ k - 1 \in Nat
            BY <1>1, <2>1, <2>8
        <3> DEFINE half == B(k - 1)
        <3>2. half \in Nat \ {0}
            BY <3>1, PowerDoubles
        <3>3. D!Children(s, c) = << D!BuildSpan(n.i_0, k - 1, n.level + 1),
                                    D!BuildSpan(n.i_0 + half, k - 1, n.level + 1) >>
            BY <2>5, <2>6, <3>1, SamePowers DEF D!SpanChildren
        <3> HIDE DEF half
        <3>4. n.i_0 + 0 * half = n.i_0 /\ n.i_0 + 1 * half = n.i_0 + half
            BY <1>1, <3>2
        <3>5. /\ NodeExpand(n, 0) = NodeSpanCreate(n.i_0, k - 1, n.level + 1, c)
              /\ NodeExpand(n, 1) = NodeSpanCreate(n.i_0 + half, k - 1, n.level + 1, c)
            BY <2>2, <2>4, <3>4 DEF half
        <3>6. /\ Shown(NodeExpand(n, 0)) = D!BuildSpan(n.i_0, k - 1, n.level + 1)
              /\ Shown(NodeExpand(n, 1)) = D!BuildSpan(n.i_0 + half, k - 1, n.level + 1)
            BY <3>1, <3>5, ShownSpan
        <3> QED BY <2>3, <2>8, <3>3, <3>6 DEF s
    <2> QED BY <2>7, <2>8
<1>3. CASE BigOK(n, m, c)
    <2>1. s = D!Shape("BIG", n.i_0, n.level, n.remainder) /\ n.type = "big"
        BY <1>3 DEF Shown, BigOK
    <2>2. NodeExpand(n, 0) = NodeExpandBig(n, 0) /\ NodeExpand(n, 1) = NodeExpandBig(n, 1)
          /\ ~NodeIsLeaf(n)
        BY <2>1 DEF NodeExpand, NodeIsLeaf
    <2> DEFINE w == B(k)
               rest == n.remainder - w
    <2>3. /\ NodeExpandBig(n, 0) = NodeSpanCreate(n.i_0, k, n.level + 1, c)
          /\ NodeExpandBig(n, 1) = NodeBigCreate(n.i_0 + w, rest, n.level + 1, c)
        BY <1>1 DEF NodeExpandBig
    <2>4. rest \in Nat \ {0}
        <3>1. NodeExpandBig(n, 1).remainder = rest /\ NodeOK(NodeExpandBig(n, 1), m, c)
            BY <1>3, BigChildren
        <3> QED BY <3>1, NodeFields DEF NodeOK
    <2>5. D!TopBit(n.remainder) = k
        BY <1>1, SameTopBit
    <2> HIDE DEF s, k, w, rest
    <2>6. s.kind = "BIG" /\ s.i0 = n.i_0 /\ s.n2 = n.remainder /\ s.level = n.level
        BY <2>1 DEF D!Shape
    <2>7. D!Children(s, c) = D!BigChildren(s)
        BY <2>6 DEF D!Children
    <2>8. D!Children(s, c) = << D!BuildSpan(n.i_0, k, n.level + 1),
                                D!BuildBig(n.i_0 + w, rest, n.level + 1) >>
        BY <2>5, <2>6, <2>7, SamePowers DEF D!BigChildren, w, rest
    <2>9. /\ Shown(NodeExpandBig(n, 0)) = D!BuildSpan(n.i_0, k, n.level + 1)
          /\ Shown(NodeExpandBig(n, 1)) = D!BuildBig(n.i_0 + w, rest, n.level + 1)
        BY <1>1, <2>3, <2>4, ShownSpan, ShownBig
    <2> QED BY <2>2, <2>8, <2>9 DEF s
<1>4. CASE ChainOK(n, m, c)
    <2> DEFINE d == B(c)
               x == n.remainder
               chunk == NodeChainChunk(n)
               prefix == x - chunk
    <2>1. s = D!Shape("CHAIN", n.i_0, NodeChainChunks(n), x) /\ n.type = "chain"
        BY <1>4 DEF Shown, ChainOK
    <2>2. NodeExpand(n, 0) = NodeExpandChain(n, 0) /\ NodeExpand(n, 1) = NodeExpandChain(n, 1)
          /\ ~NodeIsLeaf(n)
        BY <2>1 DEF NodeExpand, NodeIsLeaf
    <2>3. NodeExpandChain(n, 0) = NodeChunkedCreate(n.i_0, prefix, c, 0)
        BY <1>1 DEF NodeExpandChain
    <2>4. NodeExpandChain(n, 1) =
              IF chunk = d THEN NodeSpanCreate(n.i_0 + prefix, c, 0, c)
              ELSE NodeBigCreate(n.i_0 + prefix, chunk, 0, c)
        BY <1>1 DEF NodeExpandChain
    <2>5. chunk \in Nat \ {0}
        BY <1>4, ChainChildren
    <2>6. chunk = D!ChunkFolded(x, c)
        BY <1>1, SamePowers DEF D!ChunkFolded, NodeChainChunk
    <2> HIDE DEF s, k, d, x, chunk, prefix
    <2>7. s.kind = "CHAIN" /\ s.i0 = n.i_0 /\ s.n2 = x
        BY <2>1 DEF D!Shape
    <2>8. D!Children(s, c) = D!ChainChildren(s, c)
        BY <2>7 DEF D!Children
    <2>9. D!Children(s, c) =
              << D!BuildChunked(n.i_0, prefix, c, 0),
                 IF chunk = d THEN D!BuildSpan(n.i_0 + prefix, c, 0)
                 ELSE D!BuildBig(n.i_0 + prefix, chunk, 0) >>
        BY <2>6, <2>7, <2>8, SamePowers DEF D!ChainChildren, prefix, d
    <2>10. Shown(NodeExpandChain(n, 0)) = D!BuildChunked(n.i_0, prefix, c, 0)
        BY <1>1, <2>3, ShownChunked
    <2>11. Shown(NodeExpandChain(n, 1)) =
               IF chunk = d THEN D!BuildSpan(n.i_0 + prefix, c, 0)
               ELSE D!BuildBig(n.i_0 + prefix, chunk, 0)
        BY <1>1, <2>4, <2>5, ShownSpan, ShownBig
    <2> QED BY <2>2, <2>9, <2>10, <2>11 DEF s
<1> QED BY <1>2, <1>3, <1>4 DEF NodeOK

\* At every node the dashboard's tree is the program's.
THEOREM DashboardRebuilds == Spec => []DashboardAgrees
<1>1. CursorsOK => DashboardAgrees
    <2> SUFFICES ASSUME CursorsOK PROVE DashboardAgrees
        OBVIOUS
    <2> DEFINE c == TreeChunkSpan(GetIndexMax(size))
    <2>1. size \in 1 .. MaxSize /\ RunOK(M, C) /\ M = GetIndexMax(size) /\ C = c
        BY RunAndRoot DEF CursorsOK, M, C
    <2>2. D!GetIndexMax(size) = GetIndexMax(size)
        BY SamePowers DEF D!GetIndexMax, D!PiecesPerLeaf, GetIndexMax
    <2>3. D!BuildChunked(1, GetIndexMax(size), c, 0) = Shown(Root(size))
        <3>1. c \in Nat
            BY <2>1 DEF RunOK
        <3> QED BY <3>1, ShownChunked DEF Root
    <2>4. ASSUME NEW j \in Cursors
          PROVE  D!Children(Shown(cursor[j]), c) =
                    IF NodeIsLeaf(cursor[j]) THEN << >>
                    ELSE << Shown(NodeExpand(cursor[j], 0)),
                            Shown(NodeExpand(cursor[j], 1)) >>
        BY <2>1, ShownChildren DEF CursorsOK
    <2> QED BY <2>2, <2>3, <2>4 DEF DashboardAgrees
<1> QED BY <1>1, WalkSound, PTL

=============================================================================
