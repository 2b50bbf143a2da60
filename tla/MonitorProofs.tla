---------------------------- MODULE MonitorProofs ----------------------------
(***************************************************************************)
(* Proofs about dashboard.py beside run.sh: what the dashboard has been    *)
(* fed is what the log it has read says of its last run.                   *)
(***************************************************************************)
EXTENDS Monitor, CommonLemmas

Configs == Config \cup {NoConfig, First}

Recs == {NoRecord, "config"} \cup Outcomes

Parts == [kind : {"newline", "head", "tail", "marker"},
          rec : Recs, config : Configs]

Texts == Seq(Parts)

Prefix(text, k) == SubSeq(text, 1, k)

-----------------------------------------------------------------------------
(* The records of a text, one part at a time.                              *)

\* g finds the records of the first n parts of a text.
Finds(g, text, n) ==
    /\ g[0] = << >>
    /\ \A k \in 1 .. n :
        g[k] = IF EndsRecord(text, k) THEN Append(g[k - 1], text[k]) ELSE g[k - 1]

LEMMA FindsTheSame ==
    ASSUME NEW t, NEW u, NEW n \in Nat, \A i \in 1 .. n : t[i] = u[i],
           NEW g, NEW h, Finds(g, t, n), Finds(h, u, n)
    PROVE  \A k \in 0 .. n : g[k] = h[k]
<1> DEFINE S == {k \in Nat : k <= n => g[k] = h[k]}
<1>1. 0 \in S
    BY DEF Finds
<1>2. ASSUME NEW k \in Nat, k \in S PROVE k + 1 \in S
    <2> SUFFICES ASSUME k + 1 <= n PROVE g[k + 1] = h[k + 1]
        OBVIOUS
    <2>1. g[k] = h[k]
        BY <1>2
    <2>2. k + 1 \in 1 .. n /\ (k + 1) - 1 = k
        OBVIOUS
    <2>3. t[k + 1] = u[k + 1] /\ (k + 1 > 1 => t[k] = u[k])
        OBVIOUS
    <2>4. EndsRecord(t, k + 1) <=> EndsRecord(u, k + 1)
        BY <2>2, <2>3 DEF EndsRecord
    <2> QED BY <2>1, <2>2, <2>3, <2>4 DEF Finds
<1>3. Nat \subseteq S
    BY <1>1, <1>2, SetInduction
<1> QED BY <1>3

\* The recursion that defines Records has a solution.
LEMMA RecordsFound ==
    ASSUME NEW t \in Texts
    PROVE  \E g \in [0 .. Len(t) -> Texts] :
                Finds(g, t, Len(t)) /\ Records(t) = g[Len(t)]
<1> DEFINE n == Len(t)
           S == {k \in Nat : k <= n => \E g \in [0 .. k -> Texts] : Finds(g, t, k)}
<1>1. n \in Nat /\ \A i \in 1 .. n : t[i] \in Parts
    BY ElementOfSeq DEF Texts
<1> HIDE DEF n
<1>2. 0 \in S
    <2> DEFINE g == [j \in 0 .. 0 |-> << >>]
    <2>1. g \in [0 .. 0 -> Texts] /\ Finds(g, t, 0)
        BY EmptySeq DEF Texts, Finds
    <2> QED BY <2>1
<1>3. ASSUME NEW k \in Nat, k \in S PROVE k + 1 \in S
    <2> SUFFICES ASSUME k + 1 <= n
                 PROVE  \E g \in [0 .. k + 1 -> Texts] : Finds(g, t, k + 1)
        OBVIOUS
    <2>1. PICK g \in [0 .. k -> Texts] : Finds(g, t, k)
        BY <1>1, <1>3
    <2> DEFINE e == IF EndsRecord(t, k + 1) THEN Append(g[k], t[k + 1]) ELSE g[k]
               h == [j \in 0 .. k + 1 |-> IF j = k + 1 THEN e ELSE g[j]]
    <2>2. g[k] \in Texts /\ t[k + 1] \in Parts
        BY <1>1
    <2>3. e \in Texts
        BY <2>2, AppendProperties DEF Texts
    <2> HIDE DEF e
    <2>4. h \in [0 .. k + 1 -> Texts]
        BY <2>3
    <2>5. h[k + 1] = e /\ \A j \in 0 .. k : h[j] = g[j]
        OBVIOUS
    <2> HIDE DEF h
    <2>6. h[0] = << >>
        BY <2>1, <2>5 DEF Finds
    <2>7. ASSUME NEW j \in 1 .. k + 1
          PROVE h[j] = IF EndsRecord(t, j) THEN Append(h[j - 1], t[j]) ELSE h[j - 1]
        <3>1. CASE j = k + 1
            <4>1. j - 1 = k /\ h[k] = g[k]
                BY <2>5, <3>1
            <4> QED BY <4>1, <2>5, <3>1 DEF e
        <3>2. CASE j # k + 1
            <4>1. j \in 1 .. k /\ j - 1 \in 0 .. k
                BY <3>2
            <4> QED BY <4>1, <2>1, <2>5 DEF Finds
        <3> QED BY <3>1, <3>2
    <2>8. Finds(h, t, k + 1)
        BY <2>6, <2>7 DEF Finds
    <2> QED BY <2>4, <2>8
<1>4. Nat \subseteq S
    BY <1>2, <1>3, SetInduction
<1>5. PICK g \in [0 .. n -> Texts] : Finds(g, t, n)
    BY <1>1, <1>4
<1> DEFINE Turn(h) == [j \in 0 .. n |->
                        IF j = 0 THEN << >>
                        ELSE IF EndsRecord(t, j) THEN Append(h[j - 1], t[j])
                        ELSE h[j - 1]]
           upTo == CHOOSE h : h = Turn(h)
<1>6. g = Turn(g)
    <2>1. ASSUME NEW j \in 0 .. n PROVE g[j] = Turn(g)[j]
        <3>1. j = 0 \/ j \in 1 .. n
            BY <1>1
        <3>2. j \in 1 .. n =>
                g[j] = IF EndsRecord(t, j) THEN Append(g[j - 1], t[j]) ELSE g[j - 1]
            BY <1>5 DEF Finds
        <3>3. g[0] = << >>
            BY <1>5 DEF Finds
        <3>4. j \in 1 .. n => j # 0
            OBVIOUS
        <3> QED BY <3>1, <3>2, <3>3, <3>4, Zenon
    <2>2. Turn(g) = [j \in 0 .. n |-> Turn(g)[j]] /\ g = [j \in 0 .. n |-> g[j]]
        BY <1>5
    <2> HIDE DEF Turn
    <2> QED BY <2>1, <2>2
<1>7. upTo = Turn(upTo)
    BY <1>6
<1>8. Records(t) = upTo[n]
    BY DEF Records, n
<1> HIDE DEF upTo
<1>9. Finds(upTo, t, n)
    <2>1. \A j \in 0 .. n : upTo[j] = Turn(upTo)[j]
        BY <1>7
    <2> QED BY <1>1, <2>1 DEF Finds
<1>10. upTo[n] = g[n]
    <2>1. \A k \in 0 .. n : upTo[k] = g[k]
        BY <1>1, <1>5, <1>9, FindsTheSame
    <2> QED BY <1>1, <2>1
<1> QED BY <1>5, <1>8, <1>10 DEF n

LEMMA RecordsOfNone == Records(<< >>) = << >>
<1>1. << >> \in Texts /\ Len(<< >>) = 0
    BY EmptySeq DEF Texts
<1>2. PICK g \in [0 .. 0 -> Texts] : Finds(g, << >>, 0) /\ Records(<< >>) = g[0]
    BY <1>1, RecordsFound
<1> QED BY <1>2 DEF Finds

LEMMA RecordsOfAppend ==
    ASSUME NEW t \in Texts, NEW p \in Parts
    PROVE  /\ Records(t) \in Texts
           /\ Records(Append(t, p)) =
                IF EndsRecord(Append(t, p), Len(t) + 1)
                THEN Append(Records(t), p) ELSE Records(t)
<1> DEFINE u == Append(t, p)
           n == Len(t)
<1>1. n \in Nat /\ u \in Texts /\ Len(u) = n + 1 /\ u[n + 1] = p
      /\ \A i \in 1 .. n : u[i] = t[i]
    BY AppendProperties DEF Texts
<1>2. PICK g \in [0 .. n -> Texts] : Finds(g, t, n) /\ Records(t) = g[n]
    BY RecordsFound
<1>3. PICK h \in [0 .. n + 1 -> Texts] : Finds(h, u, n + 1) /\ Records(u) = h[n + 1]
    BY <1>1, RecordsFound
<1> HIDE DEF u, n
<1>4. h[n] = g[n]
    <2>1. Finds(h, u, n)
        BY <1>1, <1>3 DEF Finds
    <2>2. /\ n \in Nat
          /\ \A i \in 1 .. n : t[i] = u[i]
          /\ Finds(g, t, n)
        BY <1>1, <1>2
    <2>3. \A k \in 0 .. n : g[k] = h[k]
        BY <2>1, <2>2, FindsTheSame
    <2> QED BY <1>1, <2>3
<1>5. h[n + 1] = IF EndsRecord(u, n + 1) THEN Append(h[n], u[n + 1]) ELSE h[n]
    <2>1. n + 1 \in 1 .. n + 1 /\ (n + 1) - 1 = n
        BY <1>1
    <2> QED BY <1>3, <2>1 DEF Finds
<1>6. Records(t) \in Texts
    BY <1>1, <1>2
<1> QED BY <1>1, <1>2, <1>3, <1>4, <1>5, <1>6 DEF u, n

\* The first parts of a text one longer are the first ones and one more.
LEMMA PrefixGrows ==
    ASSUME NEW t \in Texts, NEW k \in 0 .. Len(t), k < Len(t)
    PROVE  /\ Prefix(t, k) \in Texts
           /\ Len(Prefix(t, k)) = k
           /\ t[k + 1] \in Parts
           /\ Prefix(t, k + 1) = Append(Prefix(t, k), t[k + 1])
<1>1. Len(t) \in Nat /\ k \in Nat /\ k + 1 \in 1 .. Len(t) /\ k + 1 \in 0 .. Len(t)
    BY LenProperties DEF Texts
<1>2. t[k + 1] \in Parts
    BY <1>1, ElementOfSeq DEF Texts
<1> DEFINE p == SubSeq(t, 1, k)
           q == SubSeq(t, 1, k + 1)
           a == Append(p, t[k + 1])
<1>3. p \in Texts /\ Len(p) = k /\ \A i \in 1 .. k : p[i] = t[i]
    BY PrefixElements DEF Texts
<1>4. q \in Texts /\ Len(q) = k + 1 /\ \A i \in 1 .. k + 1 : q[i] = t[i]
    BY <1>1, PrefixElements DEF Texts
<1>5. /\ a \in Texts /\ Len(a) = k + 1 /\ a[k + 1] = t[k + 1]
      /\ \A i \in 1 .. k : a[i] = p[i]
    BY <1>2, <1>3, AppendElements DEF Texts
<1> HIDE DEF p, q, a
<1>6. \A i \in 1 .. k + 1 : q[i] = a[i]
    <2> SUFFICES ASSUME NEW i \in 1 .. k + 1 PROVE q[i] = a[i]
        OBVIOUS
    <2>1. i \in 1 .. k \/ i = k + 1
        BY <1>1
    <2> QED BY <2>1, <1>3, <1>4, <1>5
<1>7. q = a
    BY <1>1, <1>4, <1>5, <1>6, SeqEqual DEF Texts
<1> QED BY <1>2, <1>3, <1>7 DEF p, q, a, Prefix

-----------------------------------------------------------------------------
(* The last run of a text, one part at a time.                             *)

LastMarker(text) == SelectLastInSeq(text, IsMarker)

LEMMA LastMarkerFound ==
    ASSUME NEW t \in Texts
    PROVE  /\ LastMarker(t) \in 0 .. Len(t)
           /\ LastMarker(t) # 0 => IsMarker(t[LastMarker(t)])
           /\ \A i \in LastMarker(t) + 1 .. Len(t) : ~IsMarker(t[i])
<1> DEFINE n == Len(t)
           I == {i \in 1 .. n : IsMarker(t[i])}
<1>1. n \in Nat
    BY LenProperties DEF Texts
<1>2. LastMarker(t) = IF I # {} THEN Max(I) ELSE 0
    BY DEF LastMarker, SelectLastInSeq
<1> HIDE DEF n
<1>3. CASE I = {}
    <2>1. LastMarker(t) = 0
        BY <1>2, <1>3
    <2>2. \A i \in 1 .. n : ~IsMarker(t[i])
        BY <1>3
    <2> QED BY <1>1, <2>1, <2>2 DEF n
<1>4. CASE I # {}
    <2> DEFINE D == {n - i : i \in I}
    <2>1. D \subseteq Nat /\ D # {}
        BY <1>1, <1>4
    <2>2. PICK d \in D : \A e \in D : d <= e
        BY <2>1, LeastNumber
    <2>3. PICK m \in I : d = n - m
        BY <2>2
    <2>4. \A i \in I : m >= i
        <3> SUFFICES ASSUME NEW i \in I PROVE m >= i
            OBVIOUS
        <3>1. n - i \in D /\ n - m <= n - i
            BY <2>2, <2>3
        <3> QED BY <1>1, <3>1
    <2> DEFINE x == Max(I)
    <2>5. x \in I /\ \A i \in I : x >= i
        BY <2>4 DEF Max
    <2>6. LastMarker(t) = x
        BY <1>2, <1>4
    <2> HIDE DEF x
    <2>7. x \in 1 .. n /\ IsMarker(t[x])
        BY <2>5
    <2>8. \A i \in x + 1 .. n : ~IsMarker(t[i])
        <3> SUFFICES ASSUME NEW i \in x + 1 .. n, IsMarker(t[i]) PROVE FALSE
            OBVIOUS
        <3>1. i \in I
            BY <1>1, <2>7
        <3>2. x >= i
            BY <2>5, <3>1
        <3> QED BY <1>1, <2>7, <3>2
    <2> QED BY <1>1, <2>6, <2>7, <2>8 DEF n
<1> QED BY <1>3, <1>4

LEMMA LastMarkerIs ==
    ASSUME NEW t \in Texts, NEW m \in 0 .. Len(t),
           m # 0 => IsMarker(t[m]), \A i \in m + 1 .. Len(t) : ~IsMarker(t[i])
    PROVE  LastMarker(t) = m
<1> DEFINE x == LastMarker(t)
           n == Len(t)
<1>1. /\ n \in Nat /\ x \in 0 .. n /\ m \in 0 .. n
      /\ x # 0 => IsMarker(t[x])
      /\ \A i \in x + 1 .. n : ~IsMarker(t[i])
      /\ \A i \in m + 1 .. n : ~IsMarker(t[i])
    BY LastMarkerFound, LenProperties DEF Texts
<1> HIDE DEF x, n
<1>2. ~(x < m)
    <2> SUFFICES ASSUME x < m PROVE FALSE
        OBVIOUS
    <2>1. m \in x + 1 .. n /\ m # 0
        BY <1>1
    <2> QED BY <1>1, <2>1
<1>3. ~(m < x)
    <2> SUFFICES ASSUME m < x PROVE FALSE
        OBVIOUS
    <2>1. x \in m + 1 .. n /\ x # 0
        BY <1>1
    <2> QED BY <1>1, <2>1
<1>4. x = m
    BY <1>1, <1>2, <1>3
<1> QED BY <1>4 DEF x

LEMMA RunOfNone ==
    /\ << >> \in Texts /\ Len(<< >>) = 0
    /\ LastMarker(<< >>) = 0 /\ LastRun(<< >>) = << >> /\ RunBefore(<< >>) = << >>
<1>1. << >> \in Texts /\ Len(<< >>) = 0
    BY EmptySeq DEF Texts
<1>2. LastMarker(<< >>) = 0
    BY <1>1, LastMarkerFound
<1>3. SubSeq(<< >>, 0 + 1, 0) = << >>
    BY SubSeqEmpty
<1> QED BY <1>1, <1>2, <1>3 DEF LastRun, RunBefore, LastMarker

LEMMA RunOfAppend ==
    ASSUME NEW t \in Texts, NEW p \in Parts
    PROVE  /\ LastRun(t) \in Texts
           /\ IsMarker(p) => /\ LastRun(Append(t, p)) = << >>
                             /\ RunBefore(Append(t, p)) = LastRun(t)
           /\ ~IsMarker(p) => /\ LastRun(Append(t, p)) = Append(LastRun(t), p)
                              /\ RunBefore(Append(t, p)) = RunBefore(t)
<1> DEFINE u == Append(t, p)
           n == Len(t)
           m == LastMarker(t)
<1>1. /\ n \in Nat /\ u \in Texts /\ Len(u) = n + 1 /\ u[n + 1] = p
      /\ \A i \in 1 .. n : u[i] = t[i] /\ t[i] \in Parts
    BY AppendProperties, ElementOfSeq DEF Texts
<1>2. /\ m \in 0 .. n /\ (m # 0 => IsMarker(t[m]))
      /\ \A i \in m + 1 .. n : ~IsMarker(t[i])
    BY LastMarkerFound
<1>3. LastRun(t) = SubSeq(t, m + 1, n)
    BY DEF LastRun, LastMarker
<1>4. LastRun(u) = SubSeq(u, LastMarker(u) + 1, n + 1)
    BY <1>1 DEF LastRun, LastMarker
<1>5. RunBefore(u) = IF LastMarker(u) = 0 THEN << >>
                     ELSE LastRun(SubSeq(u, 1, LastMarker(u) - 1))
    BY DEF RunBefore, LastMarker
<1>6. RunBefore(t) = IF m = 0 THEN << >> ELSE LastRun(SubSeq(t, 1, m - 1))
    BY DEF RunBefore, LastMarker
<1>7. \A k \in 0 .. n : SubSeq(u, 1, k) = SubSeq(t, 1, k)
    BY PrefixOfAppend DEF Texts
<1>8. SubSeq(t, 1, n) = t
    BY SubSeqFull DEF Texts
<1>9. /\ SubSeq(t, m + 1, n) \in Texts
      /\ Len(SubSeq(t, m + 1, n)) = n - m
      /\ \A i \in 1 .. n - m : SubSeq(t, m + 1, n)[i] = t[m + i]
    <2>1. m + 1 \in Int /\ n \in Int /\ \A i \in m + 1 .. n : t[i] \in Parts
        BY <1>1, <1>2
    <2> HIDE DEF m, n
    <2> DEFINE r == SubSeq(t, m + 1, n)
    <2>2. /\ r \in Seq(Parts)
          /\ Len(r) = IF m + 1 <= n THEN n - (m + 1) + 1 ELSE 0
          /\ \A i \in 1 .. n - (m + 1) + 1 : r[i] = t[(m + 1) + i - 1]
        BY <2>1, SubSeqProperties
    <2> HIDE DEF r
    <2>3. Len(r) = n - m
        BY <1>1, <1>2, <2>2
    <2>4. \A i \in 1 .. n - m : r[i] = t[m + i]
        <3> SUFFICES ASSUME NEW i \in 1 .. n - m PROVE r[i] = t[m + i]
            OBVIOUS
        <3>1. i \in 1 .. n - (m + 1) + 1 /\ (m + 1) + i - 1 = m + i
            BY <1>1, <1>2
        <3> QED BY <2>2, <3>1
    <2> QED BY <2>2, <2>3, <2>4 DEF r, Texts
<1>10. CASE IsMarker(p)
    <2>1. LastMarker(u) = n + 1
        <3>1. n + 1 \in 0 .. Len(u) /\ \A i \in (n + 1) + 1 .. Len(u) : ~IsMarker(u[i])
            BY <1>1
        <3>2. IsMarker(u[n + 1])
            BY <1>1, <1>10
        <3> HIDE DEF u, n
        <3> QED BY <1>1, <3>1, <3>2, LastMarkerIs
    <2>2. SubSeq(u, (n + 1) + 1, n + 1) = << >>
        BY <1>1, SubSeqEmpty
    <2>3. (n + 1) - 1 = n /\ n + 1 # 0 /\ n \in 0 .. n
        BY <1>1
    <2>4. RunBefore(u) = LastRun(t)
        BY <1>5, <1>7, <1>8, <2>1, <2>3
    <2> QED BY <1>3, <1>4, <1>9, <1>10, <2>1, <2>2, <2>4
<1>11. CASE ~IsMarker(p)
    <2>1. LastMarker(u) = m
        <3>1. m \in 0 .. Len(u) /\ (m # 0 => IsMarker(u[m]))
            BY <1>1, <1>2
        <3>2. ASSUME NEW i \in m + 1 .. Len(u) PROVE ~IsMarker(u[i])
            <4>1. (i \in m + 1 .. n /\ u[i] = t[i]) \/ i = n + 1
                BY <1>1, <1>2
            <4> QED BY <1>1, <1>2, <1>11, <4>1
        <3> HIDE DEF u, m
        <3> QED BY <1>1, <3>1, <3>2, LastMarkerIs
    <2> DEFINE r == SubSeq(t, m + 1, n)
               a == Append(r, p)
               b == SubSeq(u, m + 1, n + 1)
    <2>2. /\ a \in Texts /\ Len(a) = n - m + 1 /\ a[n - m + 1] = p
          /\ \A i \in 1 .. n - m : a[i] = t[m + i]
        <3> HIDE DEF m, n, r
        <3>1. r \in Texts /\ Len(r) = n - m /\ \A i \in 1 .. n - m : r[i] = t[m + i]
            BY <1>9 DEF r
        <3> QED BY <3>1, AppendElements DEF Texts
    <2>3. /\ b \in Texts /\ Len(b) = n - m + 1
          /\ \A i \in 1 .. n - m + 1 : b[i] = u[m + i]
        <3> HIDE DEF m, n, u
        <3>1. m + 1 \in Int /\ n + 1 \in Int /\ \A i \in m + 1 .. n + 1 : u[i] \in Parts
            BY <1>1, <1>2, ElementOfSeq DEF Texts
        <3>2. /\ b \in Seq(Parts)
              /\ Len(b) = IF m + 1 <= n + 1 THEN (n + 1) - (m + 1) + 1 ELSE 0
              /\ \A i \in 1 .. (n + 1) - (m + 1) + 1 : b[i] = u[(m + 1) + i - 1]
            BY <3>1, SubSeqProperties
        <3> HIDE DEF b
        <3>3. Len(b) = n - m + 1
            BY <1>1, <1>2, <3>2
        <3>4. ASSUME NEW i \in 1 .. n - m + 1 PROVE b[i] = u[m + i]
            <4>1. i \in 1 .. (n + 1) - (m + 1) + 1 /\ (m + 1) + i - 1 = m + i
                BY <1>1, <1>2
            <4> QED BY <3>2, <4>1
        <3> QED BY <3>2, <3>3, <3>4 DEF Texts
    <2>4. a = b
        <3> HIDE DEF a, b, m, n, u
        <3>1. ASSUME NEW i \in 1 .. n - m + 1 PROVE a[i] = b[i]
            <4>1. CASE i = n - m + 1
                <5>1. m + i = n + 1
                    BY <1>1, <1>2, <4>1
                <5>2. a[i] = p
                    BY <2>2, <4>1
                <5>3. b[i] = u[m + i]
                    BY <2>3
                <5> QED BY <1>1, <5>1, <5>2, <5>3
            <4>2. CASE i # n - m + 1
                <5>1. i \in 1 .. n - m /\ m + i \in 1 .. n
                    BY <1>1, <1>2, <4>2
                <5> QED BY <1>1, <2>2, <2>3, <5>1
            <4> QED BY <4>1, <4>2
        <3>2. a \in Seq(Parts) /\ b \in Seq(Parts) /\ Len(a) = Len(b)
              /\ \A i \in 1 .. Len(a) : a[i] = b[i]
            BY <2>2, <2>3, <3>1 DEF Texts
        <3> QED BY <3>2, SeqEqual
    <2>5. LastRun(u) = Append(LastRun(t), p)
        BY <1>3, <1>4, <2>1, <2>4
    <2>6. RunBefore(u) = RunBefore(t)
        <3>1. m # 0 => m - 1 \in 0 .. n
            BY <1>1, <1>2
        <3>2. m # 0 => SubSeq(u, 1, m - 1) = SubSeq(t, 1, m - 1)
            BY <1>7, <3>1
        <3>3. RunBefore(u) = IF m = 0 THEN << >> ELSE LastRun(SubSeq(u, 1, m - 1))
            BY <1>5, <2>1
        <3>4. m = 0 => RunBefore(u) = RunBefore(t)
            BY <1>6, <3>3
        <3>5. m # 0 => RunBefore(u) = RunBefore(t)
            BY <1>6, <3>2, <3>3
        <3> QED BY <3>4, <3>5
    <2> QED BY <1>3, <1>9, <1>11, <2>5, <2>6
<1> QED BY <1>10, <1>11

-----------------------------------------------------------------------------
(* The records of the last run.                                            *)

RunRecords(text) == Records(LastRun(text))

LEMMA RunRecordsOfNone == RunRecords(<< >>) = << >>
BY RunOfNone, RecordsOfNone DEF RunRecords

LEMMA RunRecordsOfAppend ==
    ASSUME NEW t \in Texts, NEW p \in Parts
    PROVE  /\ RunRecords(t) \in Texts
           /\ IsMarker(p) => RunRecords(Append(t, p)) = << >>
           /\ p.kind \in {"newline", "head"} =>
                RunRecords(Append(t, p)) = RunRecords(t)
<1>1. RunRecords(t) \in Texts
    BY RunOfAppend, RecordsOfAppend DEF RunRecords
<1>2. IsMarker(p) => RunRecords(Append(t, p)) = << >>
    BY RunOfAppend, RecordsOfNone DEF RunRecords
<1>3. ASSUME p.kind \in {"newline", "head"} PROVE RunRecords(Append(t, p)) = RunRecords(t)
    <2> DEFINE r == LastRun(t)
               u == Append(r, p)
    <2>1. r \in Texts /\ LastRun(Append(t, p)) = u
        BY <1>3, RunOfAppend DEF IsMarker
    <2>2. u[Len(r) + 1] = p
        BY <2>1, AppendElements DEF Texts
    <2>3. ~EndsRecord(u, Len(r) + 1)
        BY <1>3, <2>2 DEF EndsRecord
    <2> HIDE DEF r
    <2>4. Records(u) = Records(r)
        BY <2>1, <2>3, RecordsOfAppend
    <2> HIDE DEF u
    <2> QED BY <2>1, <2>4 DEF RunRecords, r
<1> QED BY <1>1, <1>2, <1>3

LEMMA RunRecordsOfRecord ==
    ASSUME NEW t \in Texts, NEW h \in Parts, NEW q \in Parts,
           q.kind = "tail", h = [q EXCEPT !.kind = "head"]
    PROVE  RunRecords(Append(Append(t, h), q)) = Append(RunRecords(t), q)
<1> DEFINE r == LastRun(t)
           v == Append(r, h)
           u == Append(v, q)
<1>1. h.kind = "head" /\ ~IsMarker(h) /\ ~IsMarker(q)
    BY DEF Parts, IsMarker
<1>2. Append(t, h) \in Texts
    BY AppendElements DEF Texts
<1>3. r \in Texts /\ LastRun(Append(t, h)) = v
    BY <1>1, RunOfAppend
<1>4. LastRun(Append(Append(t, h), q)) = u
    <2> DEFINE w == Append(t, h)
    <2>1. w \in Texts /\ LastRun(w) = v
        BY <1>2, <1>3
    <2> HIDE DEF w, v
    <2>2. LastRun(Append(w, q)) = Append(LastRun(w), q)
        BY <1>1, <2>1, RunOfAppend
    <2> QED BY <2>1, <2>2 DEF w
<1> HIDE DEF r
<1>5. v \in Texts /\ Len(v) = Len(r) + 1 /\ v[Len(r) + 1] = h /\ Len(r) \in Nat
    BY <1>3, AppendElements, LenProperties DEF Texts
<1> HIDE DEF v
<1>6. u[Len(v) + 1] = q /\ u[Len(v)] = v[Len(v)]
    <2>1. Len(v) \in 1 .. Len(v)
        BY <1>5
    <2>2. u[Len(v) + 1] = q /\ \A i \in 1 .. Len(v) : u[i] = v[i]
        BY <1>5, AppendElements DEF Texts
    <2> QED BY <2>1, <2>2
<1> HIDE DEF u
<1>7. EndsRecord(u, Len(v) + 1)
    <2>1. Len(v) + 1 > 1 /\ (Len(v) + 1) - 1 = Len(v)
        BY <1>5
    <2> QED BY <1>5, <1>6, <2>1 DEF EndsRecord
<1>8. Records(u) = Append(Records(v), q)
    BY <1>5, <1>7, RecordsOfAppend DEF u
<1>9. Records(v) = Records(r)
    <2>1. ~EndsRecord(v, Len(r) + 1)
        BY <1>1, <1>5 DEF EndsRecord
    <2> QED BY <1>3, <2>1, RecordsOfAppend DEF v
<1> QED BY <1>3, <1>4, <1>8, <1>9 DEF RunRecords, r

-----------------------------------------------------------------------------
(* What a State knows of the text it has been fed.                         *)

States ==
    [fed : Seq(Recs), config : Configs, prev_config : Configs,
     config_diff : BOOLEAN, done : BOOLEAN, task_exit : BOOLEAN,
     process_running : BOOLEAN, ever_saw_process : BOOLEAN,
     process_gone : {"no", "now", "past"}]

NamesOf(records) == [j \in DOMAIN records |-> records[j].rec]

FirstConfig(records) == IF records = << >> THEN NoConfig ELSE records[1].config

TailIn(text, i) == i \in 1 .. Len(text) /\ text[i].kind = "tail"

KnownIn(config, text) ==
    config = NoConfig \/ \E i : TailIn(text, i) /\ text[i].config = config

\* The State s is exact for a text, and knows no configuration that is not in it.
Exact(s, text) ==
    /\ s.fed = NamesOf(RunRecords(text))
    /\ s.config = FirstConfig(RunRecords(text))
    /\ s.prev_config = FirstConfig(Records(RunBefore(text)))
    /\ KnownIn(s.config, text)
    /\ KnownIn(s.prev_config, text)
    /\ s.config_diff =>
        \E i, j : /\ TailIn(text, i) /\ TailIn(text, j)
                  /\ text[i].config # text[j].config

LEMMA TailsStay ==
    ASSUME NEW t \in Texts, NEW p \in Parts
    PROVE  /\ \A i : TailIn(t, i) =>
                TailIn(Append(t, p), i) /\ Append(t, p)[i] = t[i]
           /\ \A config : KnownIn(config, t) => KnownIn(config, Append(t, p))
<1> DEFINE u == Append(t, p)
<1>1. /\ Len(t) \in Nat /\ Len(u) = Len(t) + 1
      /\ \A i \in 1 .. Len(t) : u[i] = t[i]
    BY AppendElements, LenProperties DEF Texts
<1> HIDE DEF u
<1>2. ASSUME NEW i, TailIn(t, i) PROVE TailIn(u, i) /\ u[i] = t[i]
    <2>1. i \in 1 .. Len(t) /\ i \in 1 .. Len(u)
        BY <1>1, <1>2 DEF TailIn
    <2> QED BY <1>1, <1>2, <2>1 DEF TailIn
<1>3. ASSUME NEW config, KnownIn(config, t) PROVE KnownIn(config, u)
    BY <1>2, <1>3 DEF KnownIn
<1> QED BY <1>2, <1>3 DEF u

LEMMA ExactOfNone ==
    ASSUME NEW s, s.fed = << >>, s.config = NoConfig, s.prev_config = NoConfig,
           s.config_diff = FALSE
    PROVE  Exact(s, << >>)
<1>1. RunRecords(<< >>) = << >> /\ Records(RunBefore(<< >>)) = << >>
    BY RunOfNone, RecordsOfNone, RunRecordsOfNone
<1>2. NamesOf(<< >>) = << >>
    BY DEF NamesOf
<1> QED BY <1>1, <1>2 DEF Exact, FirstConfig, KnownIn

\* A newline, or the first half of a record, tells nothing.
LEMMA ExactOfQuiet ==
    ASSUME NEW t \in Texts, NEW p \in Parts, p.kind \in {"newline", "head"},
           NEW s, Exact(s, t)
    PROVE  Exact(s, Append(t, p))
<1>1. /\ RunRecords(Append(t, p)) = RunRecords(t)
      /\ RunBefore(Append(t, p)) = RunBefore(t)
    BY RunRecordsOfAppend, RunOfAppend DEF IsMarker
<1> DEFINE u == Append(t, p)
<1>2. /\ \A i : TailIn(t, i) => TailIn(u, i) /\ u[i] = t[i]
      /\ \A config : KnownIn(config, t) => KnownIn(config, u)
    BY TailsStay
<1>3. /\ s.fed = NamesOf(RunRecords(u))
      /\ s.config = FirstConfig(RunRecords(u))
      /\ s.prev_config = FirstConfig(Records(RunBefore(u)))
    BY <1>1 DEF Exact
<1> HIDE DEF u
<1>4. KnownIn(s.config, u) /\ KnownIn(s.prev_config, u)
    BY <1>2 DEF Exact
<1>5. s.config_diff => \E i, j : /\ TailIn(u, i) /\ TailIn(u, j)
                                 /\ u[i].config # u[j].config
    <2> SUFFICES ASSUME s.config_diff
                 PROVE  \E i, j : /\ TailIn(u, i) /\ TailIn(u, j)
                                  /\ u[i].config # u[j].config
        OBVIOUS
    <2>1. PICK i, j : TailIn(t, i) /\ TailIn(t, j) /\ t[i].config # t[j].config
        BY DEF Exact
    <2> QED BY <1>2, <2>1
<1> QED BY <1>3, <1>4, <1>5 DEF u, Exact

\* A marker begins a State that knows the configuration of the one before.
LEMMA ExactOfMarker ==
    ASSUME NEW t \in Texts, NEW p \in Parts, IsMarker(p), NEW s, Exact(s, t),
           NEW r, r.fed = << >>, r.config = NoConfig, r.prev_config = s.config,
           r.config_diff = FALSE
    PROVE  Exact(r, Append(t, p))
<1>1. /\ RunRecords(Append(t, p)) = << >>
      /\ Records(RunBefore(Append(t, p))) = RunRecords(t)
    BY RunRecordsOfAppend, RunOfAppend DEF RunRecords
<1>2. NamesOf(<< >>) = << >>
    BY DEF NamesOf
<1>3. KnownIn(NoConfig, Append(t, p)) /\ KnownIn(r.prev_config, Append(t, p))
    BY TailsStay DEF Exact, KnownIn
<1> QED BY <1>1, <1>2, <1>3 DEF Exact, FirstConfig

LEMMA NamesOfAppend ==
    ASSUME NEW records \in Texts, NEW p \in Parts
    PROVE  /\ NamesOf(records) \in Seq(Recs)
           /\ NamesOf(Append(records, p)) = Append(NamesOf(records), p.rec)
<1> DEFINE n == Len(records)
           a == NamesOf(Append(records, p))
           b == NamesOf(records)
           c == Append(b, p.rec)
<1>1. /\ n \in Nat /\ DOMAIN records = 1 .. n
      /\ \A i \in 1 .. n : records[i] \in Parts
    BY LenProperties, ElementOfSeq DEF Texts
<1>2. /\ Append(records, p) \in Texts /\ Len(Append(records, p)) = n + 1
      /\ \A i \in 1 .. n : Append(records, p)[i] = records[i]
      /\ Append(records, p)[n + 1] = p
    BY AppendElements DEF Texts
<1>3. DOMAIN Append(records, p) = 1 .. n + 1
    BY <1>2, LenProperties DEF Texts
<1> HIDE DEF n
<1>4. \A i \in 1 .. n : records[i].rec \in Recs
    BY <1>1 DEF Parts, Recs
<1>5. b = [j \in 1 .. n |-> records[j].rec]
    BY <1>1 DEF NamesOf
<1>6. b \in Seq(Recs) /\ Len(b) = n
    BY <1>1, <1>4, <1>5
<1>7. p.rec \in Recs
    BY DEF Parts, Recs
<1>8. a = [j \in 1 .. n + 1 |-> Append(records, p)[j].rec]
    BY <1>3 DEF NamesOf
<1>9. a \in Seq(Recs) /\ Len(a) = n + 1
    <2>1. ASSUME NEW j \in 1 .. n + 1 PROVE Append(records, p)[j].rec \in Recs
        <3>1. j \in 1 .. n \/ j = n + 1
            BY <1>1
        <3> QED BY <1>2, <1>4, <1>7, <3>1
    <2> QED BY <1>1, <1>8, <2>1
<1>10. /\ c \in Seq(Recs) /\ Len(c) = n + 1 /\ c[n + 1] = p.rec
       /\ \A i \in 1 .. n : c[i] = b[i]
    <2> HIDE DEF b
    <2> QED BY <1>6, <1>7, AppendElements
<1>11. \A i \in 1 .. n : a[i] = c[i]
    <2> HIDE DEF c
    <2>1. \A i \in 1 .. n : a[i] = records[i].rec
        BY <1>1, <1>2, <1>8
    <2>2. \A i \in 1 .. n : b[i] = records[i].rec
        BY <1>5
    <2> QED BY <2>1, <2>2, <1>10
<1>12. a[n + 1] = c[n + 1]
    BY <1>1, <1>2, <1>8, <1>10
<1> HIDE DEF a, c
<1>13. \A i \in 1 .. n + 1 : a[i] = c[i]
    <2> SUFFICES ASSUME NEW i \in 1 .. n + 1 PROVE a[i] = c[i]
        OBVIOUS
    <2>1. i \in 1 .. n \/ i = n + 1
        BY <1>1
    <2> QED BY <1>11, <1>12, <2>1
<1>14. a = c
    BY <1>9, <1>10, <1>13, SeqEqual
<1> QED BY <1>6, <1>14 DEF a, c

\* feed_line of a record that ends a text.
LEMMA ExactOfRecord ==
    ASSUME NEW t \in Texts, NEW h \in Parts, NEW q \in Parts,
           q.kind = "tail", h = [q EXCEPT !.kind = "head"],
           q.rec \in {"config", "end", "trap"},
           q.rec = "config" <=> RunRecords(t) = << >>,
           NEW s \in States, Exact(s, t)
    PROVE  Exact(Fed(s, q), Append(Append(t, h), q))
<1> DEFINE v == Append(t, h)
           u == Append(v, q)
           r == Fed(s, q)
           R == RunRecords(t)
<1>1. h.kind = "head" /\ ~IsMarker(h) /\ ~IsMarker(q)
    BY DEF Parts, IsMarker
<1>2. v \in Texts /\ u \in Texts
    BY AppendElements DEF Texts
<1>3. R \in Texts /\ RunRecords(u) = Append(R, q)
    BY RunRecordsOfAppend, RunRecordsOfRecord
<1>4. RunBefore(u) = RunBefore(t)
    <2>1. RunBefore(v) = RunBefore(t)
        BY <1>1, RunOfAppend
    <2> HIDE DEF v
    <2>2. RunBefore(u) = RunBefore(v)
        BY <1>1, <1>2, RunOfAppend
    <2> QED BY <2>1, <2>2
<1>5. /\ \A i : TailIn(t, i) => TailIn(u, i) /\ u[i] = t[i]
      /\ \A config : KnownIn(config, t) => KnownIn(config, u)
    <2>1. /\ \A i : TailIn(t, i) => TailIn(v, i) /\ v[i] = t[i]
          /\ \A config : KnownIn(config, t) => KnownIn(config, v)
        BY TailsStay
    <2> HIDE DEF v
    <2>2. /\ \A i : TailIn(v, i) => TailIn(u, i) /\ u[i] = v[i]
          /\ \A config : KnownIn(config, v) => KnownIn(config, u)
        BY <1>2, TailsStay
    <2> QED BY <2>1, <2>2
<1>6. PICK n : TailIn(u, n) /\ u[n] = q
    <2> HIDE DEF v
    <2>1. Len(v) \in Nat /\ Len(u) = Len(v) + 1 /\ u[Len(v) + 1] = q
        BY <1>2, AppendElements, LenProperties DEF Texts
    <2>2. TailIn(u, Len(v) + 1)
        BY <2>1 DEF TailIn
    <2> QED BY <2>1, <2>2
<1>7. /\ r.fed = Append(s.fed, q.rec)
      /\ r.config = IF q.rec = "config" THEN q.config ELSE s.config
      /\ r.prev_config = s.prev_config
      /\ r.config_diff =>
            s.config_diff \/ (q.rec = "config" /\ s.prev_config \notin {NoConfig, q.config})
    BY DEF Fed, States
<1> HIDE DEF u, v, r, R
<1>8. r.fed = NamesOf(RunRecords(u))
    BY <1>3, <1>7, NamesOfAppend DEF Exact, R
<1>9. r.config = FirstConfig(RunRecords(u))
    <2>1. RunRecords(u) # << >>
        BY <1>3, AppendProperties DEF Texts
    <2>2. CASE q.rec = "config"
        <3>1. R = << >>
            BY <2>2 DEF R
        <3>2. RunRecords(u)[1] = q
            BY <1>3, <3>1
        <3> QED BY <1>7, <2>1, <2>2, <3>2 DEF FirstConfig
    <2>3. CASE q.rec # "config"
        <3>1. R # << >>
            BY <2>3 DEF R
        <3>2. Len(R) \in Nat \ {0}
            BY <1>3, <3>1, EmptySeq DEF Texts
        <3>3. 1 \in 1 .. Len(R)
            BY <3>2
        <3>4. RunRecords(u)[1] = R[1]
            BY <1>3, <3>3, AppendElements DEF Texts
        <3>5. s.config = R[1].config
            BY <3>1 DEF Exact, FirstConfig, R
        <3> QED BY <1>7, <2>1, <2>3, <3>4, <3>5 DEF FirstConfig
    <2> QED BY <2>2, <2>3
<1>10. r.prev_config = FirstConfig(Records(RunBefore(u)))
    BY <1>4, <1>7 DEF Exact
<1>11. KnownIn(r.config, u) /\ KnownIn(r.prev_config, u)
    BY <1>5, <1>6, <1>7 DEF Exact, KnownIn
<1>12. r.config_diff => \E i, j : /\ TailIn(u, i) /\ TailIn(u, j)
                                  /\ u[i].config # u[j].config
    <2>1. CASE s.config_diff
        <3>1. PICK i, j : TailIn(t, i) /\ TailIn(t, j) /\ t[i].config # t[j].config
            BY <2>1 DEF Exact
        <3> QED BY <1>5, <3>1
    <2>2. CASE s.prev_config \notin {NoConfig, q.config}
        <3>1. PICK i : TailIn(t, i) /\ t[i].config = s.prev_config
            BY <2>2 DEF Exact, KnownIn
        <3>2. TailIn(u, i) /\ u[i].config # u[n].config
            BY <1>5, <1>6, <2>2, <3>1
        <3> QED BY <1>6, <3>2
    <2> QED BY <1>7, <2>1, <2>2
<1> QED BY <1>8, <1>9, <1>10, <1>11, <1>12 DEF Exact, u, v, r

LEMMA FedKeepsType ==
    ASSUME NEW s \in States, NEW q \in Parts, q.rec \in {"config", "end", "trap"}
    PROVE  Fed(s, q) \in States
<1>1. q.rec \in Recs /\ q.config \in Configs
    BY DEF Parts, Recs
<1>2. Append(s.fed, q.rec) \in Seq(Recs)
    BY <1>1, AppendProperties DEF States
<1> QED BY <1>1, <1>2 DEF Fed, States

\* A line holds at most one record, so feeding it is feeding that.
LEMMA FoldOfNone == ASSUME NEW s PROVE FoldLeft(Fed, s, << >>) = s
<1> DEFINE Turn(g) == [S \in SUBSET {} |->
                        IF S = {} THEN s
                        ELSE LET x == Max(S) IN Fed(g[S \ {x}], << >>[x])]
           iter == CHOOSE g : g = Turn(g)
           h == [S \in SUBSET {} |-> s]
<1>1. DOMAIN << >> = {}
    OBVIOUS
<1>2. h = Turn(h)
    OBVIOUS
<1>3. iter = Turn(iter)
    BY <1>2
<1>4. iter[{}] = s
    <2>1. Turn(iter)[{}] = s
        OBVIOUS
    <2> HIDE DEF iter, Turn
    <2> QED BY <1>3, <2>1
<1>5. FoldLeft(Fed, s, << >>) = iter[{}]
    BY <1>1 DEF FoldLeft, MapThenFoldSet
<1> QED BY <1>4, <1>5

LEMMA FoldOfOne == ASSUME NEW s, NEW q PROVE FoldLeft(Fed, s, <<q>>) = Fed(s, q)
<1> DEFINE Turn(g) == [S \in SUBSET {1} |->
                        IF S = {} THEN s
                        ELSE LET x == Max(S) IN Fed(g[S \ {x}], <<q>>[x])]
           iter == CHOOSE g : g = Turn(g)
           h == [S \in SUBSET {1} |-> IF S = {} THEN s ELSE Fed(s, q)]
<1>1. DOMAIN <<q>> = {1} /\ <<q>>[1] = q
    OBVIOUS
<1>2. Max({1}) = 1
    BY DEF Max
<1>3. \A S \in SUBSET {1} : S = {} \/ S = {1}
    OBVIOUS
<1>4. h = Turn(h)
    <2>1. h[{}] = s /\ h[{1}] = Fed(s, q)
        OBVIOUS
    <2>2. Turn(h)[{}] = s
        OBVIOUS
    <2>3. Turn(h)[{1}] = Fed(s, q)
        <3>1. {1} \in SUBSET {1} /\ {1} # {} /\ {1} \ {1} = {}
            OBVIOUS
        <3>2. Turn(h)[{1}] = LET x == Max({1}) IN Fed(h[{1} \ {x}], <<q>>[x])
            BY <3>1, Zenon
        <3>3. Turn(h)[{1}] = Fed(h[{}], q)
            <4> HIDE DEF h, Turn
            <4> QED BY <1>1, <1>2, <3>1, <3>2
        <3> HIDE DEF Turn, h
        <3> QED BY <2>1, <3>3
    <2>4. DOMAIN h = SUBSET {1} /\ DOMAIN Turn(h) = SUBSET {1}
        OBVIOUS
    <2>5. h = [S \in SUBSET {1} |-> h[S]] /\ Turn(h) = [S \in SUBSET {1} |-> Turn(h)[S]]
        OBVIOUS
    <2> HIDE DEF h, Turn
    <2>6. \A S \in SUBSET {1} : h[S] = Turn(h)[S]
        BY <1>3, <2>1, <2>2, <2>3
    <2> QED BY <2>5, <2>6
<1>5. iter = Turn(iter)
    <2> HIDE DEF h, Turn
    <2> QED BY <1>4
<1> HIDE DEF iter, h
<1>6. iter[{}] = s
    <2>1. Turn(iter)[{}] = s
        OBVIOUS
    <2> HIDE DEF Turn
    <2> QED BY <1>5, <2>1
<1>7. iter[{1}] = Fed(s, q)
    <2>1. {1} \in SUBSET {1} /\ {1} # {} /\ {1} \ {1} = {}
        OBVIOUS
    <2>2. Turn(iter)[{1}] = LET x == Max({1}) IN Fed(iter[{1} \ {x}], <<q>>[x])
        BY <2>1, Zenon
    <2> HIDE DEF Turn
    <2> QED BY <1>1, <1>2, <1>5, <1>6, <2>1, <2>2
<1>8. FoldLeft(Fed, s, <<q>>) = iter[{1}]
    BY <1>1 DEF FoldLeft, MapThenFoldSet, iter
<1> QED BY <1>7, <1>8

-----------------------------------------------------------------------------
(* What tee writes.                                                        *)

\* The part at j comes after those that it may come after.
Goes(text, j) ==
    /\ text[j].kind = "newline" => text[j] = NewLine
    /\ text[j].kind \in {"head", "marker"} => j > 1 /\ text[j - 1] = NewLine
    /\ text[j].kind = "tail" =>
        j > 1 /\ text[j - 1] = [text[j] EXCEPT !.kind = "head"]
    /\ text[j].kind = "head" =>
        \/ /\ text[j].rec = "config"
           /\ \/ j = 2
              \/ j >= 4 /\ text[j - 2] = NewLine /\ IsMarker(text[j - 3])
        \/ /\ text[j].rec \in Outcomes
           /\ j >= 4
           /\ text[j - 2] = Part("tail", "config", text[j].config)

\* A text that run.sh, the program and tee may have written, whole or cut short.
Written(text) ==
    /\ text \in Texts
    /\ \A j \in 1 .. Len(text) : Goes(text, j)
    /\ text # << >> => ~IsMarker(text[Len(text)])

\* The configuration is the first record of its run, and no other is.
LEMMA ConfigIsFirst ==
    ASSUME NEW t, Written(t), NEW j \in 1 .. Len(t), t[j].kind = "head"
    PROVE  /\ t[j].rec \in {"config", "end", "trap"}
           /\ t[j].rec = "config" <=> RunRecords(Prefix(t, j - 1)) = << >>
<1>1. t \in Texts /\ Len(t) \in Nat /\ \A i \in 1 .. Len(t) : t[i] \in Parts
    BY ElementOfSeq, LenProperties DEF Written, Texts
<1>2. Goes(t, j) /\ j > 1 /\ t[j - 1] = NewLine
    BY DEF Written, Goes
<1>3. Outcomes \subseteq {"end", "trap"}
    BY OutcomesAssumption
<1> DEFINE P(k) == Prefix(t, k)
<1>4. \A k \in 0 .. Len(t) : k < Len(t) =>
        P(k) \in Texts /\ t[k + 1] \in Parts /\ P(k + 1) = Append(P(k), t[k + 1])
    BY <1>1, PrefixGrows
<1>5. P(0) = << >>
    BY SubSeqEmpty DEF Prefix
<1> HIDE DEF P
<1>6. ASSUME NEW k \in 0 .. Len(t), k < Len(t), t[k + 1] = NewLine
      PROVE  RunRecords(P(k + 1)) = RunRecords(P(k))
    <2>1. P(k) \in Texts /\ t[k + 1] \in Parts /\ P(k + 1) = Append(P(k), t[k + 1])
        BY <1>4, <1>6
    <2>2. t[k + 1].kind = "newline"
        <3>1. NewLine.kind = "newline"
            BY DEF NewLine, Part
        <3> QED BY <1>6, <3>1
    <2> DEFINE a == P(k)
               b == t[k + 1]
    <2>3. a \in Texts /\ b \in Parts /\ b.kind = "newline" /\ P(k + 1) = Append(a, b)
        BY <2>1, <2>2
    <2> HIDE DEF a, b
    <2>4. RunRecords(Append(a, b)) = RunRecords(a)
        BY <2>3, RunRecordsOfAppend
    <2> QED BY <2>3, <2>4 DEF a
<1>7. CASE t[j].rec = "config" /\ j = 2
    <2>1. 0 \in 0 .. Len(t) /\ 0 < Len(t) /\ 0 + 1 = 1 /\ j - 1 = 1
        BY <1>1, <1>7
    <2>2. RunRecords(P(1)) = RunRecords(P(0))
        BY <1>2, <1>6, <2>1
    <2> QED BY <1>5, <1>7, <2>1, <2>2, RunRecordsOfNone DEF P
<1>8. CASE t[j].rec = "config" /\ j >= 4 /\ t[j - 2] = NewLine /\ IsMarker(t[j - 3])
    <2>1. /\ j - 4 \in 0 .. Len(t) /\ j - 4 < Len(t) /\ (j - 4) + 1 = j - 3
          /\ j - 3 \in 0 .. Len(t) /\ j - 3 < Len(t) /\ (j - 3) + 1 = j - 2
          /\ j - 2 \in 0 .. Len(t) /\ j - 2 < Len(t) /\ (j - 2) + 1 = j - 1
        BY <1>1, <1>8
    <2>2. P(j - 4) \in Texts /\ t[j - 3] \in Parts /\ P(j - 3) = Append(P(j - 4), t[j - 3])
        BY <1>4, <2>1
    <2>3. RunRecords(P(j - 3)) = << >>
        BY <1>8, <2>2, RunRecordsOfAppend
    <2>4. RunRecords(P(j - 2)) = << >>
        BY <1>6, <1>8, <2>1, <2>3
    <2>5. RunRecords(P(j - 1)) = << >>
        BY <1>2, <1>6, <2>1, <2>4
    <2> QED BY <1>8, <2>5 DEF P
<1>9. CASE t[j].rec \in Outcomes /\ j >= 4 /\ t[j - 2] = Part("tail", "config", t[j].config)
    <2>1. /\ j - 4 \in 0 .. Len(t) /\ j - 4 < Len(t) /\ (j - 4) + 1 = j - 3
          /\ j - 3 \in 0 .. Len(t) /\ j - 3 < Len(t) /\ (j - 3) + 1 = j - 2
          /\ j - 2 \in 0 .. Len(t) /\ j - 2 < Len(t) /\ (j - 2) + 1 = j - 1
          /\ j - 2 \in 1 .. Len(t) /\ (j - 2) - 1 = j - 3
        BY <1>1, <1>9
    <2>2. t[j - 2].kind = "tail" /\ Goes(t, j - 2)
        BY <1>9, <2>1 DEF Part, Written
    <2>3. t[j - 3] = [t[j - 2] EXCEPT !.kind = "head"]
        BY <2>1, <2>2 DEF Goes
    <2>4. P(j - 4) \in Texts /\ t[j - 3] \in Parts /\ P(j - 3) = Append(P(j - 4), t[j - 3])
        BY <1>4, <2>1
    <2>5. t[j - 2] \in Parts /\ P(j - 2) = Append(P(j - 3), t[j - 2])
        BY <1>4, <2>1
    <2>6. RunRecords(P(j - 2)) = Append(RunRecords(P(j - 4)), t[j - 2])
        <3> DEFINE a == P(j - 4)
                   h == t[j - 3]
                   q == t[j - 2]
        <3>1. /\ a \in Texts /\ h \in Parts /\ q \in Parts
              /\ q.kind = "tail" /\ h = [q EXCEPT !.kind = "head"]
              /\ P(j - 2) = Append(Append(a, h), q)
            BY <2>2, <2>3, <2>4, <2>5
        <3> HIDE DEF a, h, q
        <3>2. RunRecords(Append(Append(a, h), q)) = Append(RunRecords(a), q)
            BY <3>1, RunRecordsOfRecord
        <3> QED BY <3>1, <3>2 DEF a, q
    <2>7. RunRecords(P(j - 4)) \in Seq(Parts)
        BY <2>4, RunRecordsOfAppend DEF Texts
    <2>8. RunRecords(P(j - 2)) # << >>
        <3> DEFINE R == RunRecords(P(j - 4))
                   q == t[j - 2]
        <3>1. R \in Seq(Parts) /\ q \in Parts /\ RunRecords(P(j - 2)) = Append(R, q)
            BY <2>5, <2>6, <2>7
        <3> HIDE DEF R, q
        <3>2. Append(R, q) # << >>
            BY <3>1, AppendProperties
        <3> QED BY <3>1, <3>2
    <2>9. RunRecords(P(j - 1)) # << >>
        BY <1>2, <1>6, <2>1, <2>8
    <2> QED BY <1>3, <1>9, <2>9 DEF P
<1> QED BY <1>2, <1>7, <1>8, <1>9 DEF Goes

\* Writing on keeps what is written.
LEMMA WrittenOn ==
    ASSUME NEW t, Written(t), NEW u \in Texts, NEW n \in Nat, n = Len(t),
           Len(u) >= n, \A i \in 1 .. n : u[i] = t[i],
           \A j \in n + 1 .. Len(u) : Goes(u, j),
           u # << >> => ~IsMarker(u[Len(u)])
    PROVE  Written(u)
<1>1. ASSUME NEW j \in 1 .. Len(u) PROVE Goes(u, j)
    <2>1. CASE j \in 1 .. n
        <3>1. Goes(t, j) /\ u[j] = t[j]
            BY <2>1 DEF Written
        <3>2. j > 1 => u[j - 1] = t[j - 1]
            BY <2>1
        <3>3. j >= 4 => u[j - 2] = t[j - 2] /\ u[j - 3] = t[j - 3]
            <4> SUFFICES ASSUME j >= 4 PROVE u[j - 2] = t[j - 2] /\ u[j - 3] = t[j - 3]
                OBVIOUS
            <4>1. j - 2 \in 1 .. n /\ j - 3 \in 1 .. n
                BY <2>1
            <4> QED BY <4>1
        <3>4. u[j].kind = "newline" => u[j] = NewLine
            BY <3>1 DEF Goes
        <3>5. u[j].kind \in {"head", "marker"} => j > 1 /\ u[j - 1] = NewLine
            BY <3>1, <3>2 DEF Goes
        <3>6. u[j].kind = "tail" => j > 1 /\ u[j - 1] = [u[j] EXCEPT !.kind = "head"]
            BY <3>1, <3>2 DEF Goes
        <3>7. u[j].kind = "head" =>
                \/ /\ u[j].rec = "config"
                   /\ \/ j = 2
                      \/ j >= 4 /\ u[j - 2] = NewLine /\ IsMarker(u[j - 3])
                \/ /\ u[j].rec \in Outcomes
                   /\ j >= 4
                   /\ u[j - 2] = Part("tail", "config", u[j].config)
            <4>1. CASE j >= 4
                BY <3>1, <3>3, <4>1 DEF Goes
            <4>2. CASE ~(j >= 4)
                BY <3>1, <4>2 DEF Goes
            <4> QED BY <4>1, <4>2
        <3> QED BY <3>4, <3>5, <3>6, <3>7 DEF Goes
    <2>2. CASE j \notin 1 .. n
        <3>1. j \in n + 1 .. Len(u)
            BY <2>2
        <3> QED BY <3>1
    <2> QED BY <2>1, <2>2
<1> QED BY <1>1 DEF Written

-----------------------------------------------------------------------------
(* The inductive invariant.                                                *)

\* run.sh has written its marker, and nothing has been written since.
Marked(text) ==
    /\ Len(text) >= 2
    /\ IsMarker(text[Len(text) - 1])
    /\ text[Len(text)] = NewLine

EndsIn(text, p) == text # << >> /\ text[Len(text)] = p

\* What tee has still to write goes on from what it has written.
Owed(rest, text, config, outcome) ==
    LET pieces == RunPieces(config, outcome)
    IN  \/ rest = pieces /\ Marked(text)
        \/ /\ rest = Tail(pieces)
           /\ EndsIn(text, Part("head", "config", config))
        \/ /\ rest = Tail(Tail(pieces))
           /\ EndsIn(text, Part("tail", "config", config))
        \/ /\ rest = Tail(Tail(Tail(pieces)))
           /\ EndsIn(text, Part("head", outcome, config))

\* All of a text is of one configuration.
AllOf(text, config) ==
    \A i \in 1 .. Len(text) : text[i].kind # "newline" => text[i].config = config

ProgramOK ==
    /\ script \in [at : {"idle", "marker", "build", "run"}, config : Configs]
    /\ running \in BOOLEAN
    /\ excused \in BOOLEAN
    /\ file \in Seq(Texts)
    /\ \A k \in 1 .. Len(file) : Written(file[k])
    /\ path \in 0 .. Len(file)
    /\ script.at = "build" => path # 0 /\ Marked(file[path])
    /\ unwritten # << >> =>
        /\ script.at = "run"
        /\ path # 0
        /\ \E outcome \in Outcomes : Owed(unwritten, file[path], script.config, outcome)
    /\ path # 0 /\ ~excused =>
        \E config : /\ AllOf(file[path], config)
                    /\ script.at # "idle" => config = script.config

\* The text of the file that is open.
Text == IF f = 0 THEN << >> ELSE file[f]

\* The State is exact for the first c parts, which end where a line may.
ExactAt(c) ==
    /\ c \in 0 .. pos
    /\ c = 0 \/ Text[c].kind \in {"newline", "tail"}
    /\ Exact(ds, Prefix(Text, c))

\* The half of a record has been read from there on, or nothing.
HeldFrom(c) ==
    \/ pos = c /\ pending = << >>
    \/ pos = c + 1 /\ Text[c + 1].kind = "head" /\ pending = <<Text[c + 1]>>

LineFrom(c, line) ==
    LET part(j) == Text[c + j]
    IN  \/ /\ pos = c + 1 /\ line = <<part(1)>>
           /\ part(1).kind = "newline"
        \/ /\ pos = c + 2 /\ line = <<part(1), part(2)>>
           /\ part(1).kind \in {"head", "marker"}
           /\ part(2).kind \in {"newline", "tail"}
        \/ /\ pos = c + 3 /\ line = <<part(1), part(2), part(3)>>
           /\ part(1).kind = "head" /\ part(2).kind = "tail" /\ part(3).kind = "newline"

YieldsOK ==
    \/ /\ yields \in {<<Restarted>>, <<Restarted, Nothing>>}
       /\ pos = 0 /\ pending = << >>
    \/ /\ yields \in {<< >>, <<Nothing>>}
       /\ \E c : ExactAt(c) /\ HeldFrom(c)
    \/ \E c, line : /\ yields = <<Line(line)>> /\ pending = << >>
                    /\ ExactAt(c) /\ LineFrom(c, line)

TailOK ==
    /\ f \in 0 .. Len(file)
    /\ pos \in 0 .. Len(Text)
    /\ pc = "read" => f # 0
    /\ ds \in States
    /\ YieldsOK

MInv == ProgramOK /\ TailOK

-----------------------------------------------------------------------------
(* run.sh, the program and tee keep it.                                    *)

Extends(text, u) ==
    /\ u \in Texts
    /\ Len(u) >= Len(text)
    /\ \A i \in 1 .. Len(text) : u[i] = text[i]

LEMMA NewLineIs == NewLine \in Parts /\ NewLine.kind = "newline"
BY DEF NewLine, Part, Parts, Configs, Recs

LEMMA HalvesAre ==
    ASSUME NEW rec \in {"config"} \cup Outcomes, NEW config \in Configs
    PROVE  /\ Part("head", rec, config) \in Parts
           /\ Part("head", rec, config).kind = "head"
           /\ Part("head", rec, config).rec = rec
           /\ Part("head", rec, config).config = config
           /\ Part("tail", rec, config) \in Parts
           /\ Part("tail", rec, config).kind = "tail"
           /\ Part("tail", rec, config).rec = rec
           /\ Part("tail", rec, config).config = config
           /\ [Part("tail", rec, config) EXCEPT !.kind = "head"] = Part("head", rec, config)
<1> DEFINE h == Part("head", rec, config)
           q == Part("tail", rec, config)
<1>1. h = [kind |-> "head", rec |-> rec, config |-> config]
    BY DEF Part
<1>2. q = [kind |-> "tail", rec |-> rec, config |-> config]
    BY DEF Part
<1>3. h.kind = "head" /\ h.rec = rec /\ h.config = config
    BY <1>1
<1>4. q.kind = "tail" /\ q.rec = rec /\ q.config = config
    BY <1>2
<1>6. rec \in Recs
    BY DEF Recs
<1>7. h \in Parts
    BY <1>1, <1>6 DEF Parts
<1>8. q \in Parts
    BY <1>2, <1>6 DEF Parts
<1>5. [q EXCEPT !.kind = "head"] = h
    BY <1>1, <1>2
<1> QED BY <1>3, <1>4, <1>5, <1>7, <1>8

LEMMA MarkerIs ==
    ASSUME NEW config \in Configs
    PROVE  /\ Part("marker", NoRecord, config) \in Parts
           /\ Part("marker", NoRecord, config).kind = "marker"
           /\ Part("marker", NoRecord, config).config = config
BY DEF Part, Parts, Recs

LEMMA Appends ==
    ASSUME NEW t \in Texts, NEW s \in Seq(Parts)
    PROVE  /\ Len(t) \in Nat /\ Len(s) \in Nat
           /\ t \o s \in Texts /\ Len(t \o s) = Len(t) + Len(s)
           /\ \A i \in 1 .. Len(t) : (t \o s)[i] = t[i]
           /\ \A i \in 1 .. Len(s) : (t \o s)[Len(t) + i] = s[i]
<1> DEFINE n == Len(t)
           m == Len(s)
           u == t \o s
<1>1. n \in Nat /\ m \in Nat
    BY LenProperties DEF Texts
<1>2. /\ u \in Texts /\ Len(u) = n + m
      /\ \A i \in 1 .. n + m : u[i] = IF i <= n THEN t[i] ELSE s[i - n]
    BY ConcatProperties DEF Texts
<1> HIDE DEF n, m, u
<1>3. \A i \in 1 .. n : u[i] = t[i]
    BY <1>1, <1>2
<1>4. ASSUME NEW i \in 1 .. m PROVE u[n + i] = s[i]
    <2>1. n + i \in 1 .. n + m /\ ~(n + i <= n) /\ (n + i) - n = i
        BY <1>1
    <2> QED BY <1>2, <2>1
<1> QED BY <1>1, <1>2, <1>3, <1>4 DEF n, m, u

LEMMA AppendsOne ==
    ASSUME NEW t \in Texts, NEW p \in Parts
    PROVE  LET u == t \o <<p>>
           IN  /\ Len(t) \in Nat
               /\ u \in Texts /\ Len(u) = Len(t) + 1
               /\ \A i \in 1 .. Len(t) : u[i] = t[i]
               /\ u[Len(t) + 1] = p
<1>1. t \o <<p>> = Append(t, p)
    BY AppendIsConcat DEF Texts
<1> QED BY <1>1, AppendElements, LenProperties DEF Texts

LEMMA AppendsTwo ==
    ASSUME NEW t \in Texts, NEW p \in Parts, NEW q \in Parts
    PROVE  LET u == t \o <<p, q>>
           IN  /\ Len(t) \in Nat
               /\ u \in Texts /\ Len(u) = Len(t) + 2
               /\ \A i \in 1 .. Len(t) : u[i] = t[i]
               /\ u[Len(t) + 1] = p /\ u[Len(t) + 2] = q
<1> DEFINE s == <<p, q>>
<1>1. s \in Seq(Parts) /\ Len(s) = 2 /\ s[1] = p /\ s[2] = q
    OBVIOUS
<1> HIDE DEF s
<1>2. /\ Len(t) \in Nat /\ Len(s) \in Nat
      /\ t \o s \in Texts /\ Len(t \o s) = Len(t) + Len(s)
      /\ \A i \in 1 .. Len(t) : (t \o s)[i] = t[i]
      /\ \A i \in 1 .. Len(s) : (t \o s)[Len(t) + i] = s[i]
    BY <1>1, Appends
<1> DEFINE u == t \o s
<1>3. /\ Len(t) \in Nat /\ u \in Texts /\ Len(u) = Len(t) + Len(s)
      /\ \A i \in 1 .. Len(t) : u[i] = t[i]
      /\ \A i \in 1 .. Len(s) : u[Len(t) + i] = s[i]
    BY <1>2
<1> HIDE DEF u
<1>4. u[Len(t) + 1] = s[1] /\ u[Len(t) + 2] = s[2]
    BY <1>1, <1>3
<1> QED BY <1>1, <1>3, <1>4 DEF u, s

LEMMA AppendsLine ==
    ASSUME NEW t \in Texts, NEW p \in Parts
    PROVE  LET u == t \o <<NewLine, p>>
           IN  /\ Len(t) \in Nat
               /\ u \in Texts /\ Len(u) = Len(t) + 2
               /\ \A i \in 1 .. Len(t) : u[i] = t[i]
               /\ u[Len(t) + 1] = NewLine /\ u[Len(t) + 2] = p
BY NewLineIs, AppendsTwo

LEMMA AppendsThree ==
    ASSUME NEW t \in Texts, NEW p \in Parts, NEW q \in Parts, NEW r \in Parts
    PROVE  LET u == t \o <<p, q, r>>
           IN  /\ Len(t) \in Nat
               /\ u \in Texts /\ Len(u) = Len(t) + 3
               /\ \A i \in 1 .. Len(t) : u[i] = t[i]
               /\ u[Len(t) + 1] = p /\ u[Len(t) + 2] = q /\ u[Len(t) + 3] = r
<1> DEFINE s == <<p, q, r>>
<1>1. s \in Seq(Parts) /\ Len(s) = 3 /\ s[1] = p /\ s[2] = q /\ s[3] = r
    OBVIOUS
<1> HIDE DEF s
<1>2. /\ Len(t) \in Nat /\ Len(s) \in Nat
      /\ t \o s \in Texts /\ Len(t \o s) = Len(t) + Len(s)
      /\ \A i \in 1 .. Len(t) : (t \o s)[i] = t[i]
      /\ \A i \in 1 .. Len(s) : (t \o s)[Len(t) + i] = s[i]
    BY <1>1, Appends
<1> DEFINE u == t \o s
<1>3. /\ Len(t) \in Nat /\ u \in Texts /\ Len(u) = Len(t) + Len(s)
      /\ \A i \in 1 .. Len(t) : u[i] = t[i]
      /\ \A i \in 1 .. Len(s) : u[Len(t) + i] = s[i]
    BY <1>2
<1> HIDE DEF u
<1>4. u[Len(t) + 1] = s[1] /\ u[Len(t) + 2] = s[2] /\ u[Len(t) + 3] = s[3]
    BY <1>1, <1>3
<1> QED BY <1>1, <1>3, <1>4 DEF u, s

\* The second half of the record that a text ends in the first half of.
LEMMA SecondHalf ==
    ASSUME NEW t, Written(t), NEW rec \in {"config"} \cup Outcomes, NEW config \in Configs,
           EndsIn(t, Part("head", rec, config)),
           NEW u, u = t \o <<Part("tail", rec, config)>>
    PROVE  /\ Written(u) /\ Extends(t, u)
           /\ EndsIn(u, Part("tail", rec, config))
           /\ AllOf(t, config) => AllOf(u, config)
<1> DEFINE n == Len(t)
           p == Part("tail", rec, config)
<1>1. /\ p \in Parts /\ p.kind = "tail" /\ p.config = config
      /\ [p EXCEPT !.kind = "head"] = Part("head", rec, config)
    <2>1. p = [kind |-> "tail", rec |-> rec, config |-> config]
        BY DEF Part
    <2>2. Part("head", rec, config) = [kind |-> "head", rec |-> rec, config |-> config]
        BY DEF Part
    <2>3. rec \in Recs
        BY DEF Recs
    <2> HIDE DEF p
    <2> QED BY <2>1, <2>2, <2>3 DEF Parts
<1> HIDE DEF p
<1>2. t \in Texts
    BY DEF Written
<1>3. /\ n \in Nat /\ u \in Texts /\ Len(u) = n + 1 /\ u[n + 1] = p
      /\ \A i \in 1 .. n : u[i] = t[i]
    <2>1. u = t \o <<p>>
        BY DEF p
    <2> QED BY <1>1, <1>2, <2>1, AppendsOne
<1>4. n >= 1 /\ t[n] = Part("head", rec, config)
    BY <1>2, EmptySeq DEF EndsIn, Texts
<1> HIDE DEF n
<1>5. Goes(u, n + 1)
    <2>1. n + 1 > 1 /\ (n + 1) - 1 = n /\ u[n] = t[n]
        BY <1>3, <1>4
    <2> QED BY <1>1, <1>3, <1>4, <2>1 DEF Goes
<1>6. Written(u)
    <2>1. \A j \in n + 1 .. Len(u) : Goes(u, j)
        <3>1. \A j \in n + 1 .. Len(u) : j = n + 1
            BY <1>3
        <3> QED BY <1>5, <3>1
    <2>2. ~IsMarker(u[Len(u)]) /\ n = Len(t) /\ Len(u) >= n
        BY <1>1, <1>3 DEF IsMarker, n
    <2> QED BY <1>3, <2>1, <2>2, WrittenOn
<1>7. Extends(t, u)
    BY <1>3 DEF Extends, n
<1>8. EndsIn(u, p)
    BY <1>3, EmptySeq DEF EndsIn
<1>9. ASSUME AllOf(t, config) PROVE AllOf(u, config)
    <2> SUFFICES ASSUME NEW i \in 1 .. Len(u), u[i].kind # "newline"
                 PROVE  u[i].config = config
        BY DEF AllOf
    <2>1. i \in 1 .. n \/ i = n + 1
        BY <1>3
    <2> QED BY <1>1, <1>3, <1>9, <2>1 DEF AllOf, n
<1> QED BY <1>6, <1>7, <1>8, <1>9 DEF p

\* A record begins after its run's marker, or after the run's configuration.
MayFollow(text, rec, config) ==
    \/ rec = "config" /\ Marked(text)
    \/ rec \in Outcomes /\ EndsIn(text, Part("tail", "config", config))

\* The first half of a record, on a line of its own.
LEMMA FirstHalf ==
    ASSUME NEW t, Written(t), NEW rec \in {"config"} \cup Outcomes, NEW config \in Configs,
           MayFollow(t, rec, config),
           NEW u, u = t \o <<NewLine, Part("head", rec, config)>>
    PROVE  /\ Written(u) /\ Extends(t, u)
           /\ EndsIn(u, Part("head", rec, config))
           /\ AllOf(t, config) => AllOf(u, config)
<1> DEFINE n == Len(t)
           p == Part("head", rec, config)
<1>0. p \in Parts /\ p.kind = "head" /\ p.config = config /\ p.rec = rec
    <2>1. p = [kind |-> "head", rec |-> rec, config |-> config]
        BY DEF Part
    <2>2. rec \in Recs
        BY DEF Recs
    <2> HIDE DEF p
    <2> QED BY <2>1, <2>2 DEF Parts
<1> HIDE DEF p
<1>1. /\ p \in Parts /\ p.kind = "head" /\ p.config = config /\ p.rec = rec
      /\ NewLine \in Parts /\ NewLine.kind = "newline"
    BY <1>0, NewLineIs
<1>2. t \in Texts
    BY DEF Written
<1>3. /\ n \in Nat /\ u \in Texts /\ Len(u) = n + 2
      /\ u[n + 1] = NewLine /\ u[n + 2] = p
      /\ \A i \in 1 .. n : u[i] = t[i]
    <2>1. u = t \o <<NewLine, p>>
        BY DEF p
    <2> QED BY <1>1, <1>2, <2>1, AppendsLine
<1>4. Goes(u, n + 1)
    BY <1>1, <1>3 DEF Goes
<1>5. Goes(u, n + 2)
    <2>1. n + 2 > 1 /\ (n + 2) - 1 = n + 1 /\ (n + 2) - 2 = n /\ (n + 2) - 3 = n - 1
        BY <1>3
    <2>2. CASE rec = "config" /\ Marked(t)
        <3>1. n >= 2 /\ IsMarker(t[n - 1]) /\ t[n] = NewLine
            BY <2>2 DEF Marked
        <3> HIDE DEF n
        <3>2. n + 2 >= 4 /\ u[n] = NewLine /\ IsMarker(u[n - 1])
            BY <1>3, <3>1
        <3> QED BY <1>1, <1>3, <2>1, <2>2, <3>2 DEF Goes
    <2>3. CASE rec \in Outcomes /\ EndsIn(t, Part("tail", "config", config))
        <3>1. n >= 1 /\ t[n] = Part("tail", "config", config)
            BY <1>2, <2>3, EmptySeq DEF EndsIn, Texts
        <3>2. t[n].kind = "tail" /\ Goes(t, n)
            <4>1. Part("tail", "config", config).kind = "tail"
                BY DEF Part
            <4>2. n \in 1 .. Len(t)
                BY <1>3, <3>1
            <4> QED BY <3>1, <4>1, <4>2 DEF Written
        <3>3. n > 1
            BY <3>2 DEF Goes
        <3> HIDE DEF n
        <3>4. n + 2 >= 4 /\ u[n] = Part("tail", "config", config)
            BY <1>3, <3>1, <3>3
        <3> QED BY <1>1, <1>3, <2>1, <2>3, <3>4 DEF Goes
    <2> QED BY <2>2, <2>3 DEF MayFollow
<1>6. Written(u)
    <2>1. \A j \in n + 1 .. Len(u) : Goes(u, j)
        <3> HIDE DEF n
        <3>1. \A j \in n + 1 .. Len(u) : j = n + 1 \/ j = n + 2
            BY <1>3
        <3> QED BY <1>4, <1>5, <3>1
    <2>2. ~IsMarker(u[Len(u)]) /\ n = Len(t) /\ Len(u) >= n
        BY <1>1, <1>3 DEF IsMarker
    <2> HIDE DEF n
    <2> QED BY <1>3, <2>1, <2>2, WrittenOn
<1>7. Extends(t, u)
    BY <1>3 DEF Extends
<1>8. EndsIn(u, p)
    BY <1>3, EmptySeq DEF EndsIn
<1>9. ASSUME AllOf(t, config) PROVE AllOf(u, config)
    <2> SUFFICES ASSUME NEW i \in 1 .. Len(u), u[i].kind # "newline"
                 PROVE  u[i].config = config
        BY DEF AllOf
    <2>1. i \in 1 .. n \/ i = n + 1 \/ i = n + 2
        BY <1>3
    <2> QED BY <1>1, <1>3, <1>9, <2>1 DEF AllOf
<1> QED BY <1>6, <1>7, <1>8, <1>9 DEF p

LEMMA PiecesAre ==
    ASSUME NEW config, NEW outcome
    PROVE  LET s == RunPieces(config, outcome)
           IN  /\ s # << >>
               /\ Head(s) = <<NewLine, Part("head", "config", config)>>
               /\ Tail(s) # << >>
               /\ Head(Tail(s)) = <<Part("tail", "config", config)>>
               /\ Tail(Tail(s)) # << >>
               /\ Head(Tail(Tail(s))) = <<NewLine, Part("head", outcome, config)>>
               /\ Tail(Tail(Tail(s))) # << >>
               /\ Head(Tail(Tail(Tail(s)))) = <<Part("tail", outcome, config)>>
               /\ Tail(Tail(Tail(Tail(s)))) = << >>
<1> DEFINE a == <<NewLine, Part("head", "config", config)>>
           b == <<Part("tail", "config", config)>>
           c == <<NewLine, Part("head", outcome, config)>>
           d == <<Part("tail", outcome, config)>>
<1>1. RunPieces(config, outcome) = <<a, b>> \o <<c, d>>
    BY DEF RunPieces, RecordPieces
<1> HIDE DEF a, b, c, d
<1> DEFINE S == {a, b, c, d}
           x == <<a, b>>
           y == <<c, d>>
           z == <<a, b, c, d>>
<1>2. /\ x \in Seq(S) /\ Len(x) = 2 /\ x[1] = a /\ x[2] = b
      /\ y \in Seq(S) /\ Len(y) = 2 /\ y[1] = c /\ y[2] = d
      /\ z \in Seq(S) /\ Len(z) = 4 /\ z[1] = a /\ z[2] = b /\ z[3] = c /\ z[4] = d
    OBVIOUS
<1>3. x \o y = z
    <2> HIDE DEF S, x, y, z
    <2> DEFINE w == x \o y
    <2>1. /\ w \in Seq(S) /\ Len(w) = Len(x) + Len(y)
          /\ \A i \in 1 .. Len(x) + Len(y) :
                w[i] = IF i <= Len(x) THEN x[i] ELSE y[i - Len(x)]
        BY <1>2, ConcatProperties
    <2> HIDE DEF w
    <2>2. /\ w \in Seq(S) /\ Len(w) = 4
          /\ \A i \in 1 .. 4 : w[i] = IF i <= 2 THEN x[i] ELSE y[i - 2]
        BY <1>2, <2>1
    <2> HIDE DEF w
    <2>3. w[1] = x[1] /\ w[2] = x[2] /\ w[3] = y[1] /\ w[4] = y[2]
        BY <2>2
    <2>4. \A i \in 1 .. 4 : w[i] = z[i]
        <3>1. \A i \in 1 .. 4 : i = 1 \/ i = 2 \/ i = 3 \/ i = 4
            OBVIOUS
        <3> QED BY <1>2, <2>3, <3>1
    <2>5. w = z
        BY <1>2, <2>2, <2>4, SeqEqual
    <2> QED BY <2>5 DEF w
<1>4. /\ z # << >> /\ Head(z) = a /\ Tail(z) = <<b, c, d>>
      /\ Tail(<<b, c, d>>) = <<c, d>> /\ Tail(<<c, d>>) = <<d>> /\ Tail(<<d>>) = << >>
    OBVIOUS
<1>5. RunPieces(config, outcome) = z
    BY <1>1, <1>3
<1>6. Head(<<b, c, d>>) = b /\ Head(<<c, d>>) = c /\ Head(<<d>>) = d
    OBVIOUS
<1>7. <<b, c, d>> # << >> /\ <<c, d>> # << >> /\ <<d>> # << >>
    OBVIOUS
<1> HIDE DEF z
<1> DEFINE s == RunPieces(config, outcome)
<1>8. s # << >> /\ Head(s) = a /\ Tail(s) = <<b, c, d>>
    BY <1>4, <1>5
<1> HIDE DEF s
<1>9. Tail(Tail(s)) = <<c, d>>
    BY <1>4, <1>8
<1>10. Tail(Tail(Tail(s))) = <<d>>
    BY <1>4, <1>9
<1>11. Tail(Tail(Tail(Tail(s)))) = << >>
    BY <1>4, <1>10
<1> QED BY <1>6, <1>7, <1>8, <1>9, <1>10, <1>11 DEF a, b, c, d, s

\* tee goes on.
LEMMA TeeGoesOn ==
    ASSUME NEW t, Written(t), NEW config \in Configs, NEW outcome \in Outcomes,
           NEW rest, Owed(rest, t, config, outcome), NEW u, u = t \o Head(rest)
    PROVE  /\ Written(u) /\ Extends(t, u)
           /\ AllOf(t, config) => AllOf(u, config)
           /\ Tail(rest) # << >> => Owed(Tail(rest), u, config, outcome)
<1> DEFINE pieces == RunPieces(config, outcome)
<1>1. /\ Head(pieces) = <<NewLine, Part("head", "config", config)>>
      /\ Head(Tail(pieces)) = <<Part("tail", "config", config)>>
      /\ Head(Tail(Tail(pieces))) = <<NewLine, Part("head", outcome, config)>>
      /\ Head(Tail(Tail(Tail(pieces)))) = <<Part("tail", outcome, config)>>
      /\ Tail(Tail(Tail(Tail(pieces)))) = << >>
    BY PiecesAre
<1> HIDE DEF pieces
<1>2. CASE rest = pieces /\ Marked(t)
    <2>1. u = t \o <<NewLine, Part("head", "config", config)>>
        BY <1>1, <1>2
    <2> QED BY <1>2, <2>1, FirstHalf DEF Owed, MayFollow, pieces
<1>3. CASE rest = Tail(pieces) /\ EndsIn(t, Part("head", "config", config))
    <2>1. u = t \o <<Part("tail", "config", config)>>
        BY <1>1, <1>3
    <2> QED BY <1>3, <2>1, SecondHalf DEF Owed, pieces
<1>4. CASE rest = Tail(Tail(pieces)) /\ EndsIn(t, Part("tail", "config", config))
    <2>1. u = t \o <<NewLine, Part("head", outcome, config)>>
        BY <1>1, <1>4
    <2> QED BY <1>4, <2>1, FirstHalf DEF Owed, MayFollow, pieces
<1>5. CASE rest = Tail(Tail(Tail(pieces))) /\ EndsIn(t, Part("head", outcome, config))
    <2>1. u = t \o <<Part("tail", outcome, config)>>
        BY <1>1, <1>5
    <2> QED BY <1>1, <1>5, <2>1, SecondHalf
<1> QED BY <1>2, <1>3, <1>4, <1>5 DEF Owed, pieces

\* run.sh's marker, on two lines of its own.
LEMMA MarkerOn ==
    ASSUME NEW t, Written(t), NEW config \in Configs,
           NEW u, u = t \o MarkerText(config)
    PROVE  /\ Written(u) /\ Extends(t, u) /\ Marked(u)
           /\ AllOf(t, config) => AllOf(u, config)
<1> DEFINE n == Len(t)
           p == Part("marker", NoRecord, config)
<1>1. /\ p \in Parts /\ p.kind = "marker" /\ p.config = config
      /\ NewLine \in Parts /\ NewLine.kind = "newline"
    BY MarkerIs, NewLineIs
<1>2. t \in Texts /\ u = t \o <<NewLine, p, NewLine>>
    BY DEF Written, MarkerText
<1> DEFINE l == NewLine
<1>a. t \in Texts /\ u = t \o <<l, p, l>> /\ l \in Parts /\ p \in Parts
    BY <1>1, <1>2
<1> HIDE DEF p, l
<1>b. /\ n \in Nat /\ u \in Texts /\ Len(u) = n + 3
      /\ u[n + 1] = l /\ u[n + 2] = p /\ u[n + 3] = l
      /\ \A i \in 1 .. n : u[i] = t[i]
    BY <1>a, AppendsThree
<1> HIDE DEF n
<1>3. /\ n \in Nat /\ u \in Texts /\ Len(u) = n + 3
      /\ u[n + 1] = NewLine /\ u[n + 2] = p /\ u[n + 3] = NewLine
      /\ \A i \in 1 .. n : u[i] = t[i]
    BY <1>b DEF l
<1> HIDE DEF n
<1>4. n = Len(t)
    BY DEF n
<1>5. \A j \in n + 1 .. Len(u) : j = n + 1 \/ j = n + 2 \/ j = n + 3
    <2>1. n \in Nat /\ Len(u) = n + 3
        BY <1>3
    <2> QED BY <2>1
<1>6. \A j \in n + 1 .. Len(u) : Goes(u, j)
    <2>1. n + 2 > 1 /\ (n + 2) - 1 = n + 1
        BY <1>3
    <2>2. Goes(u, n + 1) /\ Goes(u, n + 3)
        BY <1>1, <1>3 DEF Goes
    <2>3. Goes(u, n + 2)
        BY <1>1, <1>3, <2>1 DEF Goes
    <2> QED BY <1>5, <2>2, <2>3
<1>7. Written(u)
    <2>1. ~IsMarker(u[Len(u)]) /\ Len(u) >= n
        BY <1>1, <1>3 DEF IsMarker
    <2> QED BY <1>3, <1>4, <1>6, <2>1, WrittenOn
<1>8. Extends(t, u)
    BY <1>3, <1>4 DEF Extends
<1>9. Marked(u)
    <2>1. Len(u) >= 2 /\ Len(u) - 1 = n + 2
        BY <1>3
    <2> QED BY <1>1, <1>3, <2>1 DEF Marked, IsMarker
<1>10. ASSUME AllOf(t, config) PROVE AllOf(u, config)
    <2> SUFFICES ASSUME NEW i \in 1 .. Len(u), u[i].kind # "newline"
                 PROVE  u[i].config = config
        BY DEF AllOf
    <2>1. i \in 1 .. n \/ i \in n + 1 .. Len(u)
        BY <1>3
    <2> QED BY <1>1, <1>3, <1>4, <1>5, <1>10, <2>1 DEF AllOf
<1> QED BY <1>7, <1>8, <1>9, <1>10

LEMMA WrittenNone == Written(<< >>) /\ \A config : AllOf(<< >>, config)
<1>1. << >> \in Texts /\ Len(<< >>) = 0
    BY EmptySeq DEF Texts
<1> QED BY <1>1 DEF Written, AllOf

\* One more file, or one more part of a file, is what the files become.
FilesKept == /\ Len(file') >= Len(file)
             /\ \A k \in 1 .. Len(file) : Extends(file[k], file'[k])

LEMMA SameFiles ==
    ASSUME file \in Seq(Texts), UNCHANGED file
    PROVE  FilesKept
<1>1. Len(file) \in Nat /\ \A k \in 1 .. Len(file) : file[k] \in Texts
    BY ElementOfSeq, LenProperties
<1>2. \A k \in 1 .. Len(file) : Len(file[k]) \in Nat
    BY <1>1, LenProperties DEF Texts
<1> QED BY <1>1, <1>2 DEF FilesKept, Extends

\* The file at the path goes on.
LEMMA FileOn ==
    ASSUME file \in Seq(Texts), \A k \in 1 .. Len(file) : Written(file[k]),
           path \in 1 .. Len(file), NEW u, Written(u), Extends(file[path], u),
           file' = [file EXCEPT ![path] = u]
    PROVE  /\ file' \in Seq(Texts) /\ Len(file') = Len(file)
           /\ \A k \in 1 .. Len(file') : Written(file'[k])
           /\ file'[path] = u
           /\ FilesKept
<1>1. Len(file) \in Nat /\ \A k \in 1 .. Len(file) : file[k] \in Texts
    BY ElementOfSeq, LenProperties
<1>2. file' \in Seq(Texts) /\ Len(file') = Len(file)
    BY ExceptSeq DEF Extends
<1>3. \A k \in 1 .. Len(file) : file'[k] = IF k = path THEN u ELSE file[k]
    <2>1. DOMAIN file = 1 .. Len(file)
        BY LenProperties
    <2> QED BY <2>1
<1>4. ASSUME NEW k \in 1 .. Len(file) PROVE Extends(file[k], file'[k])
    <2>1. CASE k = path
        BY <1>3, <2>1
    <2>2. CASE k # path
        <3>1. file'[k] = file[k] /\ file[k] \in Texts /\ Len(file[k]) \in Nat
            BY <1>1, <1>3, <2>2, LenProperties DEF Texts
        <3> QED BY <3>1 DEF Extends
    <2> QED BY <2>1, <2>2
<1> QED BY <1>1, <1>2, <1>3, <1>4 DEF FilesKept

\* A file is added.
LEMMA FileAdded ==
    ASSUME file \in Seq(Texts), \A k \in 1 .. Len(file) : Written(file[k]),
           NEW u, Written(u), file' = Append(file, u)
    PROVE  /\ Len(file) \in Nat
           /\ file' \in Seq(Texts) /\ Len(file') = Len(file) + 1
           /\ \A k \in 1 .. Len(file') : Written(file'[k])
           /\ file'[Len(file) + 1] = u
           /\ FilesKept
<1>1. Len(file) \in Nat /\ \A k \in 1 .. Len(file) : file[k] \in Texts
    BY ElementOfSeq, LenProperties
<1>2. u \in Texts
    BY DEF Written
<1>3. /\ file' \in Seq(Texts) /\ Len(file') = Len(file) + 1
      /\ \A k \in 1 .. Len(file) : file'[k] = file[k]
      /\ file'[Len(file) + 1] = u
    BY <1>2, AppendElements
<1>4. ASSUME NEW k \in 1 .. Len(file) PROVE Extends(file[k], file'[k])
    <2>1. file'[k] = file[k] /\ file[k] \in Texts /\ Len(file[k]) \in Nat
        BY <1>1, <1>3, LenProperties DEF Texts
    <2> QED BY <2>1 DEF Extends
<1>5. ASSUME NEW k \in 1 .. Len(file') PROVE Written(file'[k])
    <2>1. k \in 1 .. Len(file) \/ k = Len(file) + 1
        BY <1>1, <1>3
    <2> QED BY <1>3, <2>1
<1> QED BY <1>1, <1>3, <1>4, <1>5 DEF FilesKept

LEMMA StartKeeps ==
    ASSUME ProgramOK, NEW config \in Config, NEW keep \in BOOLEAN, NEW force \in BOOLEAN,
           StartScript(config, keep, force)
    PROVE  ProgramOK' /\ FilesKept
<1>1. FilesKept
    BY SameFiles DEF ProgramOK, StartScript
<1>2. script.at = "idle" /\ unwritten = << >>
    BY DEF ProgramOK, StartScript
<1>3. /\ script' = [at |-> "marker", config |-> config]
      /\ UNCHANGED <<running, unwritten, file>>
    BY DEF StartScript
<1>4. script'.at = "marker" /\ script'.config = config
    BY <1>3
<1>5. script' \in [at : {"idle", "marker", "build", "run"}, config : Configs]
    BY <1>3 DEF Configs
<1>6. CASE keep /\ path # 0
    <2>1. /\ excused' = (excused \/ force \/ LastId(file[path]) = NoConfig)
          /\ path' = path
          /\ KeepAllowed(config, force)
        BY <1>6 DEF StartScript
    <2>2. ASSUME ~excused' PROVE AllOf(file[path], config)
        <3> DEFINE t == file[path]
                   j == LastMarker(t)
        <3>1. ~excused /\ ~force /\ LastId(t) # NoConfig
            BY <2>1, <2>2
        <3>2. LastId(t) = config
            BY <2>1, <3>1 DEF KeepAllowed
        <3>3. path \in 1 .. Len(file) /\ t \in Texts
            BY <1>6, ElementOfSeq, LenProperties DEF ProgramOK
        <3>4. LastId(t) = IF j = 0 THEN NoConfig ELSE t[j].config
            BY DEF LastId, LastMarker
        <3>5. j # 0 /\ t[j].config = config
            BY <3>1, <3>2, <3>4
        <3>6. j \in 0 .. Len(t) /\ IsMarker(t[j])
            BY <3>3, <3>5, LastMarkerFound
        <3>7. PICK c : AllOf(t, c)
            BY <1>6, <3>1 DEF ProgramOK
        <3> HIDE DEF j, t
        <3>8. j \in 1 .. Len(t) /\ t[j].kind # "newline"
            <4>1. Len(t) \in Nat
                BY <3>3, LenProperties DEF Texts
            <4> QED BY <3>5, <3>6, <4>1 DEF IsMarker
        <3>9. c = config
            BY <3>5, <3>7, <3>8 DEF AllOf
        <3> QED BY <3>7, <3>9 DEF t
    <2>3. excused' \in BOOLEAN
        BY <2>1 DEF ProgramOK
    <2>4. path' # 0 /\ ~excused' =>
            \E c : AllOf(file'[path'], c) /\ (script'.at # "idle" => c = script'.config)
        BY <1>3, <1>4, <2>1, <2>2
    <2> QED BY <1>1, <1>2, <1>3, <1>4, <1>5, <2>1, <2>3, <2>4 DEF ProgramOK
<1>7. CASE ~(keep /\ path # 0)
    <2>1. path' = 0 /\ excused' = FALSE
        BY <1>7 DEF StartScript
    <2>2. path' \in 0 .. Len(file')
        BY <1>3, <2>1, LenProperties DEF ProgramOK
    <2> QED BY <1>1, <1>2, <1>3, <1>4, <1>5, <2>1, <2>2 DEF ProgramOK
<1> QED BY <1>6, <1>7

LEMMA MarkerKeeps ==
    ASSUME ProgramOK, WriteMarker
    PROVE  ProgramOK' /\ FilesKept
<1> DEFINE c == script.config
<1>1. /\ script.at = "marker" /\ unwritten = << >>
      /\ script' = [script EXCEPT !.at = "build"]
      /\ UNCHANGED <<running, unwritten, runs, excused>>
    BY DEF ProgramOK, WriteMarker
<1>2. /\ c \in Configs
      /\ script'.at = "build" /\ script'.config = c
      /\ script' \in [at : {"idle", "marker", "build", "run"}, config : Configs]
    BY <1>1 DEF ProgramOK
<1>3. CASE path # 0
    <2> DEFINE t == file[path]
               u == t \o MarkerText(c)
    <2>1. path \in 1 .. Len(file) /\ Written(t)
        BY <1>3, LenProperties DEF ProgramOK
    <2>2. file' = [file EXCEPT ![path] = u] /\ path' = path
        BY <1>3 DEF WriteMarker
    <2> HIDE DEF c
    <2>3. Written(u) /\ Extends(t, u) /\ Marked(u) /\ (AllOf(t, c) => AllOf(u, c))
        BY <1>2, <2>1, MarkerOn
    <2>4. /\ file' \in Seq(Texts) /\ Len(file') = Len(file)
          /\ \A k \in 1 .. Len(file') : Written(file'[k])
          /\ file'[path] = u
          /\ FilesKept
        <3> HIDE DEF u
        <3> QED BY <2>1, <2>2, <2>3, FileOn DEF ProgramOK
    <2>5. ~excused => AllOf(t, c)
        BY <1>1, <1>3 DEF ProgramOK, c
    <2> HIDE DEF t, u
    <2>6. path' # 0 /\ ~excused' =>
            \E d : AllOf(file'[path'], d) /\ (script'.at # "idle" => d = script'.config)
        BY <1>1, <1>2, <2>2, <2>3, <2>4, <2>5
    <2>7. path' \in 0 .. Len(file') /\ path' # 0 /\ Marked(file'[path'])
        BY <2>1, <2>2, <2>3, <2>4
    <2> QED BY <1>1, <1>2, <2>4, <2>6, <2>7 DEF ProgramOK
<1>4. CASE path = 0
    <2> DEFINE u == MarkerText(c)
    <2>1. file' = Append(file, u) /\ path' = Len(file) + 1
        BY <1>4 DEF WriteMarker
    <2>2. u = << >> \o u
        BY DEF MarkerText
    <2> HIDE DEF c, u
    <2>3. Written(u) /\ Marked(u) /\ AllOf(u, c)
        BY <1>2, <2>2, WrittenNone, MarkerOn DEF u
    <2>4. /\ Len(file) \in Nat
          /\ file' \in Seq(Texts) /\ Len(file') = Len(file) + 1
          /\ \A k \in 1 .. Len(file') : Written(file'[k])
          /\ file'[Len(file) + 1] = u
          /\ FilesKept
        BY <2>1, <2>3, FileAdded DEF ProgramOK
    <2>5. path' # 0 /\ ~excused' =>
            \E d : AllOf(file'[path'], d) /\ (script'.at # "idle" => d = script'.config)
        BY <1>2, <2>1, <2>3, <2>4
    <2>6. path' \in 0 .. Len(file') /\ path' # 0 /\ Marked(file'[path'])
        BY <2>1, <2>3, <2>4
    <2> QED BY <1>1, <1>2, <2>4, <2>5, <2>6 DEF ProgramOK
<1> QED BY <1>3, <1>4

LEMMA BuildKeeps ==
    ASSUME ProgramOK, Build
    PROVE  ProgramOK' /\ FilesKept
<1>1. FilesKept
    BY SameFiles DEF ProgramOK, Build
<1>2. /\ script.at = "build" /\ unwritten = << >> /\ path # 0 /\ Marked(file[path])
      /\ UNCHANGED <<path, file, runs, excused>>
    BY DEF ProgramOK, Build
<1>3. CASE script' = [script EXCEPT !.at = "idle"] /\ UNCHANGED <<running, unwritten>>
    <2>1. /\ script'.at = "idle"
          /\ script' \in [at : {"idle", "marker", "build", "run"}, config : Configs]
        BY <1>3 DEF ProgramOK
    <2> QED BY <1>1, <1>2, <1>3, <2>1 DEF ProgramOK
<1>4. ASSUME script' = [script EXCEPT !.at = "run"], running' = TRUE,
             NEW outcome \in Outcomes, unwritten' = RunPieces(script.config, outcome)
      PROVE  ProgramOK'
    <2>1. /\ script'.at = "run" /\ script'.config = script.config
          /\ script' \in [at : {"idle", "marker", "build", "run"}, config : Configs]
        BY <1>4 DEF ProgramOK
    <2>2. Owed(unwritten', file'[path'], script'.config, outcome)
        BY <1>2, <1>4, <2>1 DEF Owed
    <2>3. path' # 0 /\ ~excused' =>
            \E d : AllOf(file'[path'], d) /\ (script'.at # "idle" => d = script'.config)
        BY <1>2, <2>1 DEF ProgramOK
    <2> QED BY <1>2, <1>4, <2>1, <2>2, <2>3 DEF ProgramOK
<1> QED BY <1>1, <1>3, <1>4 DEF Build

LEMMA TeeKeeps ==
    ASSUME ProgramOK, Tee
    PROVE  ProgramOK' /\ FilesKept
<1> DEFINE t == file[path]
           u == t \o Head(unwritten)
           c == script.config
<1>1. /\ unwritten # << >> /\ script.at = "run" /\ path # 0
      /\ file' = [file EXCEPT ![path] = u]
      /\ unwritten' = Tail(unwritten)
      /\ UNCHANGED <<script, running, path, runs, excused>>
    BY DEF ProgramOK, Tee
<1>2. c \in Configs /\ path \in 1 .. Len(file) /\ Written(t)
    BY <1>1, LenProperties DEF ProgramOK
<1>3. PICK outcome \in Outcomes : Owed(unwritten, t, c, outcome)
    BY <1>1 DEF ProgramOK
<1>4. ~excused => AllOf(t, c)
    BY <1>1 DEF ProgramOK
<1> HIDE DEF t, u, c
<1>5. /\ Written(u) /\ Extends(t, u)
      /\ AllOf(t, c) => AllOf(u, c)
      /\ Tail(unwritten) # << >> => Owed(Tail(unwritten), u, c, outcome)
    BY <1>2, <1>3, TeeGoesOn DEF u
<1>6. /\ file' \in Seq(Texts) /\ Len(file') = Len(file)
      /\ \A k \in 1 .. Len(file') : Written(file'[k])
      /\ file'[path] = u
      /\ FilesKept
    BY <1>1, <1>2, <1>5, FileOn DEF ProgramOK, t
<1>7. path' # 0 /\ ~excused' =>
        \E d : AllOf(file'[path'], d) /\ (script'.at # "idle" => d = script'.config)
    BY <1>1, <1>4, <1>5, <1>6 DEF c
<1>8. unwritten' # << >> =>
        /\ script'.at = "run"
        /\ path' # 0
        /\ \E o \in Outcomes : Owed(unwritten', file'[path'], script'.config, o)
    BY <1>1, <1>5, <1>6 DEF c
<1>9. script'.at # "build"
    BY <1>1
<1> QED BY <1>1, <1>6, <1>7, <1>8, <1>9 DEF ProgramOK

\* Every step of the program keeps its half of the invariant, and what is in a file
\* stays in it.
LEMMA ProgramKeeps ==
    ASSUME ProgramOK, ProgramStep
    PROVE  /\ ProgramOK' /\ FilesKept
           /\ UNCHANGED <<tail, ds>>
<1>1. ASSUME ProgramEnds \/ ScriptEnds PROVE ProgramOK' /\ FilesKept
    <2>1. file' = file /\ FilesKept
        BY <1>1, SameFiles DEF ProgramOK, ProgramEnds, ScriptEnds
    <2>2. CASE ProgramEnds
        BY <2>1, <2>2 DEF ProgramOK, ProgramEnds
    <2>3. CASE ScriptEnds
        <3>1. /\ script'.at = "idle"
              /\ script' \in [at : {"idle", "marker", "build", "run"}, config : Configs]
              /\ UNCHANGED <<running, unwritten, path, file, runs, excused>>
              /\ unwritten = << >>
            BY <2>3 DEF ProgramOK, ScriptEnds
        <3> QED BY <2>1, <3>1 DEF ProgramOK
    <2> QED BY <1>1, <2>2, <2>3
<1> QED BY <1>1, StartKeeps, MarkerKeeps, BuildKeeps, TeeKeeps DEF ProgramStep

-----------------------------------------------------------------------------
(* What is read stays read.                                                *)

LEMMA PrefixSame ==
    ASSUME NEW t \in Texts, NEW u, Extends(t, u), NEW c \in 0 .. Len(t)
    PROVE  Prefix(u, c) = Prefix(t, c)
<1> DEFINE a == Prefix(t, c)
           b == Prefix(u, c)
<1>1. /\ Len(t) \in Nat /\ u \in Texts /\ Len(u) \in Nat /\ Len(u) >= Len(t)
      /\ \A i \in 1 .. Len(t) : u[i] = t[i]
    BY LenProperties DEF Extends, Texts
<1>2. a \in Texts /\ Len(a) = c /\ \A i \in 1 .. c : a[i] = t[i]
    BY PrefixElements DEF Prefix, Texts
<1>3. b \in Texts /\ Len(b) = c /\ \A i \in 1 .. c : b[i] = u[i]
    <2>1. c \in 0 .. Len(u)
        BY <1>1
    <2> QED BY <1>1, <2>1, PrefixElements DEF Prefix, Texts
<1> HIDE DEF a, b
<1>4. \A i \in 1 .. c : b[i] = a[i]
    <2>1. \A i \in 1 .. c : i \in 1 .. Len(t)
        BY <1>1
    <2> QED BY <1>1, <1>2, <1>3, <2>1
<1>5. a = b
    BY <1>2, <1>3, <1>4, SeqEqual DEF Texts
<1> QED BY <1>5 DEF a, b

LEMMA TextIs ==
    ASSUME file \in Seq(Texts), f \in 0 .. Len(file)
    PROVE  Text \in Texts /\ Len(Text) \in Nat
<1>1. Text \in Texts
    BY ElementOfSeq, EmptySeq, LenProperties DEF Text, Texts
<1> QED BY <1>1, LenProperties DEF Texts

LEMMA TextOn ==
    ASSUME file \in Seq(Texts), f \in 0 .. Len(file), FilesKept, f' = f
    PROVE  Extends(Text, Text')
<1>1. CASE f = 0
    <2>1. Text = << >> /\ Text' = << >>
        BY <1>1 DEF Text
    <2>2. << >> \in Texts /\ Len(<< >>) = 0
        BY EmptySeq DEF Texts
    <2> QED BY <2>1, <2>2 DEF Extends
<1>2. CASE f # 0
    <2>1. f \in 1 .. Len(file)
        BY <1>2, LenProperties
    <2> QED BY <1>2, <2>1 DEF Text, FilesKept
<1> QED BY <1>1, <1>2

\* Where the dashboard has come to is kept by whatever leaves it and what was read.
LEMMA TailKept ==
    ASSUME file \in Seq(Texts), file' \in Seq(Texts), TailOK, FilesKept,
           UNCHANGED <<f, pos, pending, yields, ds>>, pc' = "read" => f # 0
    PROVE  TailOK'
<1> DEFINE t == Text
           u == Text'
<1>1. /\ t \in Texts /\ Len(t) \in Nat /\ pos \in 0 .. Len(t) /\ Extends(t, u)
    BY TextIs, TextOn DEF TailOK
<1>2. /\ Len(u) >= Len(t) /\ Len(u) \in Nat
      /\ \A i \in 1 .. Len(t) : u[i] = t[i]
    BY <1>1, LenProperties DEF Extends, Texts
<1>3. ASSUME NEW c, ExactAt(c)
      PROVE  /\ ExactAt(c)' /\ c \in 0 .. pos
             /\ HeldFrom(c) => HeldFrom(c)'
             /\ \A line : LineFrom(c, line) => LineFrom(c, line)'
    <2>1. c \in 0 .. pos /\ c \in 0 .. Len(t)
        BY <1>1, <1>3 DEF ExactAt
    <2>2. Prefix(u, c) = Prefix(t, c)
        BY <1>1, <2>1, PrefixSame
    <2>3. c = 0 \/ u[c] = t[c]
        BY <1>1, <1>2, <2>1
    <2>4. ExactAt(c)'
        BY <1>3, <2>1, <2>2, <2>3 DEF ExactAt
    <2>5. \A i \in c + 1 .. pos : u[i] = t[i]
        BY <1>1, <1>2, <2>1
    <2>6. /\ pos = c + 1 => u[c + 1] = t[c + 1]
          /\ pos = c + 2 => u[c + 1] = t[c + 1] /\ u[c + 2] = t[c + 2]
          /\ pos = c + 3 => u[c + 1] = t[c + 1] /\ u[c + 2] = t[c + 2] /\ u[c + 3] = t[c + 3]
        BY <1>1, <2>1, <2>5
    <2> HIDE DEF t, u
    <2>7. HeldFrom(c) => HeldFrom(c)'
        BY <2>6 DEF HeldFrom, t, u
    <2>8. ASSUME NEW line, LineFrom(c, line) PROVE LineFrom(c, line)'
        BY <2>6, <2>8 DEF LineFrom, t, u
    <2> QED BY <2>1, <2>4, <2>7, <2>8
<1>4. YieldsOK'
    <2>1. CASE yields \in {<<Restarted>>, <<Restarted, Nothing>>} /\ pos = 0 /\ pending = << >>
        BY <2>1 DEF YieldsOK
    <2>2. CASE yields \in {<< >>, <<Nothing>>} /\ \E c : ExactAt(c) /\ HeldFrom(c)
        <3>1. \E c : ExactAt(c)' /\ HeldFrom(c)'
            BY <1>3, <2>2
        <3> QED BY <2>2, <3>1 DEF YieldsOK
    <2>3. ASSUME NEW c, NEW line, yields = <<Line(line)>>, pending = << >>,
                 ExactAt(c), LineFrom(c, line)
          PROVE  YieldsOK'
        <3>1. ExactAt(c)' /\ LineFrom(c, line)'
            BY <1>3, <2>3
        <3> QED BY <2>3, <3>1 DEF YieldsOK
    <2> QED BY <2>1, <2>2, <2>3 DEF TailOK, YieldsOK
<1>5. f' \in 0 .. Len(file')
    BY LenProperties DEF TailOK, FilesKept
<1>6. pos' \in 0 .. Len(Text')
    BY <1>1, <1>2
<1> QED BY <1>4, <1>5, <1>6 DEF TailOK

-----------------------------------------------------------------------------
(* A read.                                                                 *)

\* What may follow in a text where a line may end.
LEMMA WhatFollows ==
    ASSUME NEW t, Written(t), NEW n \in Nat, n = Len(t), NEW c \in 0 .. n, c < n,
           c = 0 \/ t[c].kind \in {"newline", "tail"}
    PROVE  \/ t[c + 1] = NewLine
           \/ t[c + 1].kind = "marker" /\ c + 2 <= n /\ t[c + 2] = NewLine
           \/ /\ t[c + 1].kind = "head"
              /\ \/ c + 1 = n
                 \/ c + 2 <= n /\ t[c + 2] = NewLine
                 \/ /\ c + 2 <= n /\ t[c + 2].kind = "tail"
                    /\ t[c + 1] = [t[c + 2] EXCEPT !.kind = "head"]
                    /\ c + 2 = n \/ (c + 3 <= n /\ t[c + 3] = NewLine)
<1> DEFINE Kinds == {"newline", "head", "tail", "marker"}
<1>1. \A i \in 1 .. n : t[i] \in Parts /\ t[i].kind \in Kinds
    <2>1. \A i \in 1 .. n : t[i] \in Parts
        BY ElementOfSeq DEF Written, Texts
    <2>2. \A p \in Parts : p.kind \in Kinds
        BY DEF Parts
    <2> QED BY <2>1, <2>2
<1>2. \A j \in 1 .. n : Goes(t, j)
    BY DEF Written
<1>3. NewLine.kind = "newline"
    BY NewLineIs
<1>4. c + 1 \in 1 .. n /\ (c + 1) - 1 = c
    OBVIOUS
<1>5. t[c + 1].kind # "tail"
    <2> SUFFICES ASSUME t[c + 1].kind = "tail" PROVE FALSE
        OBVIOUS
    <2>1. c + 1 > 1 /\ t[c] = [t[c + 1] EXCEPT !.kind = "head"]
        BY <1>2, <1>4 DEF Goes
    <2>2. t[c].kind = "head"
        <3>1. t[c + 1] \in Parts
            BY <1>1, <1>4
        <3> QED BY <2>1, <3>1 DEF Parts
    <2> QED BY <2>1, <2>2
<1>6. ASSUME NEW j \in 1 .. n, j > 1, t[j - 1] # NewLine, t[j - 1].kind # "head"
      PROVE  t[j] = NewLine
    <2>1. Goes(t, j) /\ t[j] \in Parts /\ t[j].kind \in Kinds
        BY <1>1, <1>2
    <2>2. t[j].kind # "tail"
        <3> SUFFICES ASSUME t[j].kind = "tail" PROVE FALSE
            OBVIOUS
        <3>1. t[j - 1] = [t[j] EXCEPT !.kind = "head"]
            BY <2>1 DEF Goes
        <3> QED BY <1>6, <2>1, <3>1 DEF Parts
    <2>3. t[j].kind \notin {"head", "marker"}
        BY <1>6, <2>1 DEF Goes
    <2>4. t[j].kind = "newline"
        BY <2>1, <2>2, <2>3
    <2> QED BY <2>1, <2>4 DEF Goes
<1>7. CASE t[c + 1].kind = "newline"
    BY <1>2, <1>4, <1>7 DEF Goes
<1>8. CASE t[c + 1].kind = "marker"
    <2>1. c + 1 # n
        BY <1>8, EmptySeq DEF Written, IsMarker, Texts
    <2>2. c + 2 \in 1 .. n /\ c + 2 > 1 /\ (c + 2) - 1 = c + 1
        BY <2>1
    <2>3. t[c + 2] = NewLine
        BY <1>3, <1>6, <1>8, <2>2
    <2> QED BY <1>8, <2>2, <2>3
<1>9. CASE t[c + 1].kind = "head" /\ c + 1 # n
    <2>1. c + 2 \in 1 .. n /\ c + 2 > 1 /\ (c + 2) - 1 = c + 1
        BY <1>9
    <2>2. Goes(t, c + 2) /\ t[c + 2] \in Parts /\ t[c + 2].kind \in Kinds
        BY <1>1, <1>2, <2>1
    <2>3. t[c + 2].kind \notin {"head", "marker"}
        BY <1>3, <1>9, <2>1, <2>2 DEF Goes
    <2>4. CASE t[c + 2].kind = "newline"
        BY <1>9, <2>1, <2>2, <2>4 DEF Goes
    <2>5. CASE t[c + 2].kind = "tail"
        <3>1. t[c + 1] = [t[c + 2] EXCEPT !.kind = "head"]
            BY <2>1, <2>2, <2>5 DEF Goes
        <3>2. c + 2 # n => c + 3 <= n /\ t[c + 3] = NewLine
            <4> SUFFICES ASSUME c + 2 # n PROVE c + 3 <= n /\ t[c + 3] = NewLine
                OBVIOUS
            <4>1. c + 3 \in 1 .. n /\ c + 3 > 1 /\ (c + 3) - 1 = c + 2
                BY <2>1
            <4> QED BY <1>3, <1>6, <2>5, <4>1
        <3> QED BY <1>9, <2>1, <2>5, <3>1, <3>2
    <2> QED BY <2>2, <2>3, <2>4, <2>5
<1>10. CASE t[c + 1].kind = "head" /\ c + 1 = n
    BY <1>10
<1> QED BY <1>1, <1>4, <1>5, <1>7, <1>8, <1>9, <1>10

LEMMA Slice ==
    ASSUME NEW t \in Texts, NEW a \in Nat, NEW b \in Nat, a <= b, b <= Len(t)
    PROVE  /\ SubSeq(t, a + 1, b) \in Texts
           /\ Len(SubSeq(t, a + 1, b)) = b - a
           /\ \A i \in 1 .. b - a : SubSeq(t, a + 1, b)[i] = t[a + i]
<1>1. Len(t) \in Nat /\ \A i \in 1 .. Len(t) : t[i] \in Parts
    BY ElementOfSeq, LenProperties DEF Texts
<1> DEFINE s == SubSeq(t, a + 1, b)
<1>2. CASE a < b
    <2>1. t \in Seq(Parts) /\ a + 1 \in 1 .. Len(t) + 1 /\ b \in a + 1 .. Len(t)
        BY <1>1, <1>2 DEF Texts
    <2>2. /\ s \in Seq(Parts)
          /\ Len(s) = IF a + 1 <= b THEN b - (a + 1) + 1 ELSE 0
          /\ \A i \in 1 .. b - (a + 1) + 1 : s[i] = t[(a + 1) + i - 1]
        BY <2>1, SubSeqProperties
    <2> HIDE DEF s
    <2>3. b - (a + 1) + 1 = b - a /\ \A i \in 1 .. b - a : (a + 1) + i - 1 = a + i
        OBVIOUS
    <2> QED BY <1>2, <2>2, <2>3 DEF Texts, s
<1>3. CASE a = b
    <2>1. s = << >>
        BY <1>3, SubSeqEmpty
    <2>2. << >> \in Texts /\ Len(<< >>) = 0
        BY EmptySeq DEF Texts
    <2> HIDE DEF s
    <2>3. b - a = 0 /\ s \in Texts /\ Len(s) = 0
        BY <1>3, <2>1, <2>2
    <2> QED BY <2>3 DEF s
<1> QED BY <1>2, <1>3

\* What readline reads is up to the first newline, or to the end.
LEMMA ChunkIs ==
    ASSUME NEW t \in Texts, t = file[f], pos \in 0 .. Len(t),
           NEW m \in pos + 1 .. Len(t), t[m] = NewLine \/ m = Len(t),
           \A i \in pos + 1 .. m - 1 : t[i] # NewLine
    PROVE  Chunk = SubSeq(t, pos + 1, m)
<1> DEFINE n == Len(t)
           rest == SubSeq(t, pos + 1, n)
           part == SubSeq(t, pos + 1, m)
           I == {i \in 1 .. Len(rest) : rest[i] = NewLine}
<1>1. n \in Nat /\ pos \in Nat /\ m \in Nat /\ pos < m /\ m <= n /\ pos <= n /\ n <= n
    BY LenProperties DEF Texts
<1>2. /\ rest \in Texts /\ Len(rest) = n - pos
      /\ \A i \in 1 .. n - pos : rest[i] = t[pos + i]
    BY <1>1, Slice
<1>3. /\ part \in Texts /\ Len(part) = m - pos
      /\ \A i \in 1 .. m - pos : part[i] = t[pos + i]
    <2>1. pos <= m
        BY <1>1
    <2> QED BY <1>1, <2>1, Slice
<1>4. Chunk = IF (IF I # {} THEN Min(I) ELSE 0) = 0 THEN rest
              ELSE SubSeq(rest, 1, IF I # {} THEN Min(I) ELSE 0)
    BY DEF Chunk, SelectInSeq
<1>5. \A i \in 1 .. n - pos : i \in I <=> t[pos + i] = NewLine
    BY <1>1, <1>2
<1>6. I \subseteq 1 .. n - pos
    BY <1>2
<1> HIDE DEF rest, part, I, n
<1>7. CASE t[m] = NewLine
    <2> DEFINE k == m - pos
    <2>1. k \in 1 .. n - pos /\ pos + k = m
        BY <1>1
    <2>2. k \in I
        BY <1>5, <1>7, <2>1
    <2>3. \A i \in I : k <= i
        <3> SUFFICES ASSUME NEW i \in I, i < k PROVE FALSE
            BY <1>1, <1>6, <2>1
        <3>1. i \in 1 .. n - pos /\ t[pos + i] = NewLine
            BY <1>5, <1>6
        <3>2. pos + i \in pos + 1 .. m - 1
            BY <1>1, <3>1
        <3> QED BY <3>1, <3>2
    <2> DEFINE x == Min(I)
    <2> HIDE DEF k
    <2>4. x \in I /\ \A i \in I : x <= i
        BY <2>2, <2>3 DEF Min
    <2>5. x = k
        <3> HIDE DEF x
        <3>1. x <= k /\ k <= x
            BY <2>2, <2>3, <2>4
        <3>2. x \in 1 .. n - pos
            BY <1>6, <2>4
        <3> QED BY <1>1, <2>1, <3>1, <3>2
    <2>6. k # 0 /\ I # {} /\ k \in 0 .. Len(rest)
        BY <1>1, <1>2, <2>1, <2>2
    <2>7. Chunk = SubSeq(rest, 1, k)
        <3> HIDE DEF x
        <3> QED BY <1>4, <2>5, <2>6 DEF x
    <2> DEFINE q == SubSeq(rest, 1, k)
    <2>8. q \in Texts /\ Len(q) = k /\ \A i \in 1 .. k : q[i] = rest[i]
        BY <1>2, <2>6, PrefixElements DEF Texts
    <2> HIDE DEF q
    <2>9. Len(part) = k /\ \A i \in 1 .. k : q[i] = part[i]
        <3>1. k = m - pos
            BY DEF k
        <3>2. \A i \in 1 .. k : i \in 1 .. n - pos
            BY <1>1, <2>1
        <3> QED BY <1>2, <1>3, <2>8, <3>1, <3>2
    <2>10. q = part
        BY <1>3, <2>8, <2>9, SeqEqual DEF Texts
    <2> QED BY <2>7, <2>10 DEF q, part
<1>8. CASE t[m] # NewLine
    <2>1. m = n
        BY <1>8 DEF n
    <2>2. I = {}
        <3> SUFFICES ASSUME NEW i \in I PROVE FALSE
            OBVIOUS
        <3>1. i \in 1 .. n - pos /\ t[pos + i] = NewLine
            BY <1>5, <1>6
        <3>2. pos + i \in pos + 1 .. m - 1 \/ pos + i = m
            BY <1>1, <2>1, <3>1
        <3> QED BY <1>8, <3>1, <3>2
    <2>3. Chunk = rest
        BY <1>4, <2>2
    <2> QED BY <2>1, <2>3 DEF rest
<1> QED BY <1>7, <1>8

LEMMA ChunkOfNone ==
    ASSUME NEW t \in Texts, t = file[f], pos = Len(t)
    PROVE  Chunk = << >>
<1>1. Len(t) \in Nat
    BY LenProperties DEF Texts
<1>2. SubSeq(t, pos + 1, Len(t)) = << >>
    BY <1>1, SubSeqEmpty
<1> DEFINE rest == SubSeq(t, pos + 1, Len(t))
           I == {i \in 1 .. Len(rest) : rest[i] = NewLine}
<1>3. Chunk = IF (IF I # {} THEN Min(I) ELSE 0) = 0 THEN rest
              ELSE SubSeq(rest, 1, IF I # {} THEN Min(I) ELSE 0)
    BY DEF Chunk, SelectInSeq
<1>4. I = {}
    BY <1>2, EmptySeq
<1> HIDE DEF I, rest
<1>5. Chunk = rest
    BY <1>3, <1>4
<1> QED BY <1>2, <1>5 DEF rest

\* Slices of the lengths that are read.
LEMMA Slices ==
    ASSUME NEW t \in Texts, NEW a \in Nat
    PROVE  /\ a + 1 <= Len(t) => SubSeq(t, a + 1, a + 1) = <<t[a + 1]>>
           /\ a + 2 <= Len(t) => SubSeq(t, a + 1, a + 2) = <<t[a + 1], t[a + 2]>>
           /\ a + 3 <= Len(t) =>
                SubSeq(t, a + 1, a + 3) = <<t[a + 1], t[a + 2], t[a + 3]>>
<1>1. Len(t) \in Nat /\ \A i \in 1 .. Len(t) : t[i] \in Parts
    BY ElementOfSeq, LenProperties DEF Texts
<1>2. ASSUME a + 1 <= Len(t) PROVE SubSeq(t, a + 1, a + 1) = <<t[a + 1]>>
    <2> DEFINE s == SubSeq(t, a + 1, a + 1)
               x == t[a + 1]
               u == <<x>>
    <2>1. a + 1 \in Nat /\ a <= a + 1 /\ (a + 1) - a = 1
        OBVIOUS
    <2>2. s \in Texts /\ Len(s) = 1 /\ \A i \in 1 .. 1 : s[i] = t[a + i]
        BY <1>2, <2>1, Slice
    <2>3. x \in Parts
        BY <1>1, <1>2
    <2> HIDE DEF s, x
    <2>4. u \in Texts /\ Len(u) = 1 /\ u[1] = x
        BY <2>3 DEF Texts
    <2>5. s[1] = x
        BY <2>2 DEF x
    <2> HIDE DEF u
    <2>6. s = u
        BY <2>2, <2>4, <2>5, SeqEqual DEF Texts
    <2> QED BY <2>6 DEF s, u, x
<1>3. ASSUME a + 2 <= Len(t) PROVE SubSeq(t, a + 1, a + 2) = <<t[a + 1], t[a + 2]>>
    <2> DEFINE s == SubSeq(t, a + 1, a + 2)
               x == t[a + 1]
               y == t[a + 2]
               u == <<x, y>>
    <2>1. a + 2 \in Nat /\ a <= a + 2 /\ (a + 2) - a = 2
        OBVIOUS
    <2>2. s \in Texts /\ Len(s) = 2 /\ \A i \in 1 .. 2 : s[i] = t[a + i]
        BY <1>3, <2>1, Slice
    <2>3. x \in Parts /\ y \in Parts
        BY <1>1, <1>3
    <2> HIDE DEF s, x, y
    <2>4. u \in Texts /\ Len(u) = 2 /\ u[1] = x /\ u[2] = y
        BY <2>3 DEF Texts
    <2>5. s[1] = x /\ s[2] = y
        BY <2>2 DEF x, y
    <2> HIDE DEF u
    <2>6. \A i \in 1 .. 2 : s[i] = u[i]
        <3>1. \A i \in 1 .. 2 : i = 1 \/ i = 2
            OBVIOUS
        <3> QED BY <2>4, <2>5, <3>1
    <2>7. s = u
        BY <2>2, <2>4, <2>6, SeqEqual DEF Texts
    <2> QED BY <2>7 DEF s, u, x, y
<1>4. ASSUME a + 3 <= Len(t)
      PROVE  SubSeq(t, a + 1, a + 3) = <<t[a + 1], t[a + 2], t[a + 3]>>
    <2> DEFINE s == SubSeq(t, a + 1, a + 3)
               x == t[a + 1]
               y == t[a + 2]
               z == t[a + 3]
               u == <<x, y, z>>
    <2>1. a + 3 \in Nat /\ a <= a + 3 /\ (a + 3) - a = 3
        OBVIOUS
    <2>2. s \in Texts /\ Len(s) = 3 /\ \A i \in 1 .. 3 : s[i] = t[a + i]
        BY <1>4, <2>1, Slice
    <2>3. x \in Parts /\ y \in Parts /\ z \in Parts
        BY <1>1, <1>4
    <2> HIDE DEF s, x, y, z
    <2>4. u \in Texts /\ Len(u) = 3 /\ u[1] = x /\ u[2] = y /\ u[3] = z
        BY <2>3 DEF Texts
    <2>5. s[1] = x /\ s[2] = y /\ s[3] = z
        BY <2>2 DEF x, y, z
    <2> HIDE DEF u
    <2>6. \A i \in 1 .. 3 : s[i] = u[i]
        <3>1. \A i \in 1 .. 3 : i = 1 \/ i = 2 \/ i = 3
            OBVIOUS
        <3> QED BY <2>4, <2>5, <3>1
    <2>7. s = u
        BY <2>2, <2>4, <2>6, SeqEqual DEF Texts
    <2> QED BY <2>7 DEF s, u, x, y, z
<1> QED BY <1>2, <1>3, <1>4

LEMMA Joins ==
    ASSUME NEW x \in Parts, NEW y \in Parts, NEW z \in Parts
    PROVE  /\ << >> \o <<x>> = <<x>>
           /\ << >> \o <<x, y>> = <<x, y>>
           /\ << >> \o <<x, y, z>> = <<x, y, z>>
           /\ <<x>> \o <<y>> = <<x, y>>
           /\ <<x>> \o <<y, z>> = <<x, y, z>>
<1>1. <<x>> \in Seq(Parts) /\ <<x, y>> \in Seq(Parts) /\ <<x, y, z>> \in Seq(Parts)
    OBVIOUS
<1>2. << >> \o <<x>> = <<x>>
    BY <1>1, ConcatEmptySeq
<1>3. << >> \o <<x, y>> = <<x, y>>
    BY <1>1, ConcatEmptySeq
<1>4. << >> \o <<x, y, z>> = <<x, y, z>>
    BY <1>1, ConcatEmptySeq
<1> DEFINE a == <<x>>
           b == <<y>>
           d == <<y, z>>
           v == <<x, y>>
           w == <<x, y, z>>
<1>5. /\ a \in Texts /\ Len(a) = 1 /\ a[1] = x
      /\ b \in Texts /\ Len(b) = 1 /\ b[1] = y
      /\ d \in Texts /\ Len(d) = 2 /\ d[1] = y /\ d[2] = z
      /\ v \in Texts /\ Len(v) = 2 /\ v[1] = x /\ v[2] = y
      /\ w \in Texts /\ Len(w) = 3 /\ w[1] = x /\ w[2] = y /\ w[3] = z
    BY DEF Texts
<1> HIDE DEF a, b, d, v, w
<1>6. a \o b = v
    <2> DEFINE u == a \o b
    <2>1. /\ u \in Texts /\ Len(u) = Len(a) + Len(b)
          /\ \A i \in 1 .. Len(a) : u[i] = a[i]
          /\ \A i \in 1 .. Len(b) : u[Len(a) + i] = b[i]
        BY <1>5, Appends DEF Texts
    <2> HIDE DEF u
    <2>2. u \in Texts /\ Len(u) = 2 /\ u[1] = x /\ u[2] = y
        BY <1>5, <2>1
    <2>3. \A i \in 1 .. 2 : i = 1 \/ i = 2
        OBVIOUS
    <2>4. u = v
        BY <1>5, <2>2, <2>3, SeqEqual DEF Texts
    <2> QED BY <2>4 DEF u
<1>7. a \o d = w
    <2> DEFINE u == a \o d
    <2>1. /\ u \in Texts /\ Len(u) = Len(a) + Len(d)
          /\ \A i \in 1 .. Len(a) : u[i] = a[i]
          /\ \A i \in 1 .. Len(d) : u[Len(a) + i] = d[i]
        BY <1>5, Appends DEF Texts
    <2> HIDE DEF u
    <2>2. u \in Texts /\ Len(u) = 3 /\ u[1] = x /\ u[2] = y /\ u[3] = z
        BY <1>5, <2>1
    <2>3. \A i \in 1 .. 3 : i = 1 \/ i = 2 \/ i = 3
        OBVIOUS
    <2>4. u = w
        BY <1>5, <2>2, <2>3, SeqEqual DEF Texts
    <2> QED BY <2>4 DEF u
<1> QED BY <1>2, <1>3, <1>4, <1>6, <1>7 DEF a, b, d, v, w

LEMMA ReadKeeps ==
    ASSUME ProgramOK, TailOK, Read, UNCHANGED <<program, ds>>
    PROVE  TailOK'
<1> DEFINE t == file[f]
           n == Len(t)
<1>1. /\ f # 0 /\ f \in 1 .. Len(file) /\ yields = << >>
      /\ pc' = "stat" /\ UNCHANGED <<found, inode, f, file, ds>>
    BY LenProperties DEF ProgramOK, TailOK, Read, Tailing, program
<1>2. Written(t) /\ t \in Texts /\ n \in Nat /\ Text = t /\ Text' = t
    BY <1>1, LenProperties DEF ProgramOK, Written, Text, Texts
<1>3. pos \in 0 .. n /\ pos \in Nat
    BY <1>2 DEF TailOK
<1>4. PICK c : ExactAt(c) /\ HeldFrom(c)
    BY <1>1 DEF TailOK, YieldsOK, Restarted, Nothing, Line
<1>5. c \in 0 .. pos /\ c \in 0 .. n /\ c \in Nat
    BY <1>2, <1>3, <1>4 DEF ExactAt
<1>6. c = 0 \/ t[c].kind \in {"newline", "tail"}
    BY <1>2, <1>4 DEF ExactAt
<1>7. ASSUME pos' \in pos .. n PROVE ExactAt(c)'
    <2>1. c \in 0 .. pos'
        BY <1>3, <1>5, <1>7
    <2> QED BY <1>1, <1>2, <1>4, <2>1 DEF ExactAt
<1>8. ASSUME pos' \in pos .. n, YieldsOK' PROVE TailOK'
    <2>1. pos' \in 0 .. Len(Text') /\ f' \in 0 .. Len(file') /\ ds' \in States
        BY <1>1, <1>2, <1>3, <1>8 DEF TailOK
    <2> QED BY <1>1, <1>8, <2>1 DEF TailOK
<1>9. ASSUME Chunk = << >> PROVE TailOK'
    <2>1. yields' = <<Nothing>> /\ UNCHANGED <<pos, pending>>
        BY <1>9 DEF Read
    <2>2. pos' \in pos .. n
        BY <1>3, <2>1
    <2>3. HeldFrom(c)'
        BY <1>1, <1>2, <1>4, <2>1 DEF HeldFrom
    <2>4. YieldsOK'
        BY <1>7, <2>1, <2>2, <2>3 DEF YieldsOK
    <2> QED BY <1>8, <2>2, <2>4
<1>10. ASSUME NEW m \in pos + 1 .. n, NEW chunk, Chunk = chunk, chunk # << >>,
              Len(chunk) = m - pos, NEW line, pending \o chunk = line, Complete(line),
              m = pos' => LineFrom(c, line)'
       PROVE  TailOK'
    <2>1. yields' = <<Line(line)>> /\ pending' = << >> /\ pos' = pos + Len(chunk)
        BY <1>10 DEF Read
    <2>2. pos' = m /\ pos' \in pos .. n
        BY <1>3, <1>10, <2>1
    <2>3. ExactAt(c)' /\ LineFrom(c, line)'
        BY <1>7, <1>10, <2>2
    <2>4. YieldsOK'
        BY <2>1, <2>3 DEF YieldsOK
    <2> QED BY <1>8, <2>2, <2>4
<1>11. CASE pos = n
    BY <1>2, <1>9, <1>11, ChunkOfNone
<1>12. ASSUME NEW m \in pos + 1 .. n, t[m] = NewLine \/ m = n,
              \A i \in pos + 1 .. m - 1 : t[i] # NewLine
       PROVE  Chunk = SubSeq(t, pos + 1, m)
    <2> HIDE DEF t
    <2>1. t = file[f] /\ m \in pos + 1 .. Len(t) /\ pos \in 0 .. Len(t) /\ t \in Texts
        BY <1>2, <1>3, <1>12 DEF t
    <2> QED BY <1>12, <2>1, ChunkIs
<1>13. NewLine.kind = "newline"
    BY NewLineIs
<1>18. PICK x, y, z : x = t[c + 1] /\ y = t[c + 2] /\ z = t[c + 3]
    OBVIOUS
<1>14. /\ c + 1 <= n => x \in Parts
       /\ c + 2 <= n => y \in Parts
       /\ c + 3 <= n => z \in Parts
    <2>1. \A i \in 1 .. n : t[i] \in Parts
        BY <1>2, ElementOfSeq DEF Texts
    <2> QED BY <1>2, <1>5, <1>18, <2>1
<1>15. /\ c + 1 <= n => SubSeq(t, c + 1, c + 1) = <<x>>
       /\ c + 2 <= n => SubSeq(t, c + 1, c + 2) = <<x, y>> /\ SubSeq(t, c + 2, c + 2) = <<y>>
       /\ c + 3 <= n => /\ SubSeq(t, c + 1, c + 3) = <<x, y, z>>
                        /\ SubSeq(t, c + 2, c + 3) = <<y, z>>
    <2>1. /\ c + 1 \in Nat /\ c + 2 = (c + 1) + 1 /\ c + 3 = (c + 1) + 2
          /\ c + 2 <= n <=> (c + 1) + 1 <= n
          /\ c + 3 <= n <=> (c + 1) + 2 <= n
        BY <1>5
    <2> HIDE DEF t
    <2>2. /\ c + 1 <= n => SubSeq(t, c + 1, c + 1) = <<x>>
          /\ c + 2 <= n => SubSeq(t, c + 1, c + 2) = <<x, y>>
          /\ c + 3 <= n => SubSeq(t, c + 1, c + 3) = <<x, y, z>>
        BY <1>2, <1>5, <1>18, Slices
    <2>3. /\ (c + 1) + 1 <= n => SubSeq(t, (c + 1) + 1, (c + 1) + 1) = <<t[(c + 1) + 1]>>
          /\ (c + 1) + 2 <= n =>
                SubSeq(t, (c + 1) + 1, (c + 1) + 2) = <<t[(c + 1) + 1], t[(c + 1) + 2]>>
        BY <1>2, <2>1, Slices
    <2> QED BY <1>18, <2>1, <2>2, <2>3
<1>16. /\ pos' = c + 1 /\ x.kind = "newline" => LineFrom(c, <<x>>)'
       /\ (/\ pos' = c + 2 /\ x.kind \in {"head", "marker"}
           /\ y.kind \in {"newline", "tail"}) => LineFrom(c, <<x, y>>)'
       /\ (/\ pos' = c + 3 /\ x.kind = "head" /\ y.kind = "tail"
           /\ z.kind = "newline") => LineFrom(c, <<x, y, z>>)'
    BY <1>2, <1>18 DEF LineFrom
<1>17. /\ x = NewLine => Complete(<<x>>)
       /\ y = NewLine \/ y.kind = "tail" => Complete(<<x, y>>)
       /\ z = NewLine => Complete(<<x, y, z>>)
       /\ x.kind = "head" => ~Complete(<<x>>)
    <2>1. \A a, b, d : Last(<<a>>) = a /\ Last(<<a, b>>) = b /\ Last(<<a, b, d>>) = d
        BY DEF Last
    <2> QED BY <1>13, <2>1 DEF Complete
<1>19. c < n =>
        \/ x = NewLine
        \/ x.kind = "marker" /\ c + 2 <= n /\ y = NewLine
        \/ /\ x.kind = "head"
           /\ \/ c + 1 = n
              \/ c + 2 <= n /\ y = NewLine
              \/ /\ c + 2 <= n /\ y.kind = "tail"
                 /\ c + 2 = n \/ (c + 3 <= n /\ z = NewLine)
    <2> SUFFICES ASSUME c < n
                 PROVE  \/ x = NewLine
                        \/ x.kind = "marker" /\ c + 2 <= n /\ y = NewLine
                        \/ /\ x.kind = "head"
                           /\ \/ c + 1 = n
                              \/ c + 2 <= n /\ y = NewLine
                              \/ /\ c + 2 <= n /\ y.kind = "tail"
                                 /\ c + 2 = n \/ (c + 3 <= n /\ z = NewLine)
        OBVIOUS
    <2> HIDE DEF t
    <2>1. Written(t) /\ n \in Nat /\ n = Len(t) /\ c \in 0 .. n
        BY <1>2, <1>5
    <2> HIDE DEF n
    <2>2. \/ t[c + 1] = NewLine
          \/ t[c + 1].kind = "marker" /\ c + 2 <= n /\ t[c + 2] = NewLine
          \/ /\ t[c + 1].kind = "head"
             /\ \/ c + 1 = n
                \/ c + 2 <= n /\ t[c + 2] = NewLine
                \/ /\ c + 2 <= n /\ t[c + 2].kind = "tail"
                   /\ t[c + 1] = [t[c + 2] EXCEPT !.kind = "head"]
                   /\ c + 2 = n \/ (c + 3 <= n /\ t[c + 3] = NewLine)
        BY <1>6, <2>1, WhatFollows
    <2> QED BY <1>18, <2>2
<1> HIDE DEF t, n
<1>20. CASE pos # n /\ pos = c /\ pending = << >>
    <2>1. c + 1 <= n /\ x \in Parts /\ c < n /\ c + 1 \in pos + 1 .. n
        BY <1>2, <1>5, <1>14, <1>20
    <2>2. CASE x = NewLine
        <3>1. Chunk = <<x>>
            <4>1. \A i \in pos + 1 .. (c + 1) - 1 : t[i] # NewLine
                BY <1>5, <1>20
            <4> QED BY <1>12, <1>15, <1>18, <1>20, <2>1, <2>2, <4>1
        <3>2. pending \o <<x>> = <<x>>
            BY <1>20, <2>1, Joins
        <3>3. Len(<<x>>) = (c + 1) - pos /\ <<x>> # << >>
            BY <1>5, <1>20
        <3> QED BY <1>10, <1>13, <1>16, <1>17, <2>1, <2>2, <3>1, <3>2, <3>3
    <2>3. CASE x.kind = "head" /\ c + 1 = n
        <3>1. Chunk = <<x>>
            <4>1. \A i \in pos + 1 .. (c + 1) - 1 : t[i] # NewLine
                BY <1>5, <1>20
            <4> QED BY <1>12, <1>15, <1>18, <1>20, <2>1, <2>3, <4>1
        <3>2. pending \o <<x>> = <<x>>
            BY <1>20, <2>1, Joins
        <3>3. Len(<<x>>) = 1 /\ <<x>> # << >> /\ ~Complete(<<x>>)
            BY <1>17, <2>3
        <3>4. pos' = c + 1 /\ pending' = <<x>> /\ yields' = << >>
            BY <1>1, <1>20, <3>1, <3>2, <3>3 DEF Read
        <3>5. HeldFrom(c)' /\ pos' \in pos .. n
            BY <1>2, <1>5, <1>18, <1>20, <2>3, <3>4 DEF HeldFrom
        <3>6. YieldsOK'
            BY <1>7, <3>4, <3>5 DEF YieldsOK
        <3> QED BY <1>8, <3>5, <3>6
    <2>4. CASE /\ x.kind \in {"head", "marker"} /\ c + 2 <= n
               /\ y = NewLine \/ (y.kind = "tail" /\ c + 2 = n)
        <3>0. y \in Parts /\ c + 2 \in pos + 1 .. n /\ y.kind \in {"newline", "tail"}
            BY <1>2, <1>5, <1>13, <1>14, <1>20, <2>4
        <3>1. Chunk = <<x, y>>
            <4>1. \A i \in pos + 1 .. (c + 2) - 1 : i = c + 1
                BY <1>5, <1>20
            <4>2. \A i \in pos + 1 .. (c + 2) - 1 : t[i] # NewLine
                BY <1>13, <1>18, <2>4, <4>1
            <4> QED BY <1>12, <1>15, <1>18, <1>20, <2>4, <3>0, <4>2
        <3>2. pending \o <<x, y>> = <<x, y>>
            BY <1>20, <2>1, <3>0, Joins
        <3>3. Len(<<x, y>>) = (c + 2) - pos /\ <<x, y>> # << >>
            BY <1>5, <1>20
        <3>4. Complete(<<x, y>>)
            BY <1>17, <2>4
        <3> QED BY <1>10, <1>16, <2>4, <3>0, <3>1, <3>2, <3>3, <3>4
    <2>5. CASE x.kind = "head" /\ y.kind = "tail" /\ c + 3 <= n /\ z = NewLine
        <3>0. y \in Parts /\ z \in Parts /\ c + 3 \in pos + 1 .. n
            BY <1>2, <1>5, <1>14, <1>20, <2>5
        <3>1. Chunk = <<x, y, z>>
            <4>1. \A i \in pos + 1 .. (c + 3) - 1 : i = c + 1 \/ i = c + 2
                BY <1>5, <1>20
            <4>2. \A i \in pos + 1 .. (c + 3) - 1 : t[i] # NewLine
                BY <1>13, <1>18, <2>5, <4>1
            <4> QED BY <1>12, <1>15, <1>18, <1>20, <2>5, <3>0, <4>2
        <3>2. pending \o <<x, y, z>> = <<x, y, z>>
            BY <1>20, <2>1, <3>0, Joins
        <3>3. Len(<<x, y, z>>) = (c + 3) - pos /\ <<x, y, z>> # << >>
            BY <1>5, <1>20
        <3> QED BY <1>10, <1>13, <1>16, <1>17, <2>5, <3>0, <3>1, <3>2, <3>3
    <2> QED BY <1>19, <2>1, <2>2, <2>3, <2>4, <2>5
<1>21. CASE pos # n /\ pos = c + 1 /\ x.kind = "head" /\ pending = <<x>>
    <2>1. c + 2 <= n /\ x \in Parts /\ y \in Parts /\ c < n /\ c + 1 # n
          /\ c + 2 \in pos + 1 .. n
        BY <1>2, <1>3, <1>5, <1>14, <1>21
    <2>2. CASE y = NewLine \/ (y.kind = "tail" /\ c + 2 = n)
        <3>1. Chunk = <<y>>
            <4>1. \A i \in pos + 1 .. (c + 2) - 1 : t[i] # NewLine
                BY <1>5, <1>21
            <4>2. pos + 1 = c + 2
                BY <1>5, <1>21
            <4> QED BY <1>12, <1>15, <1>18, <2>1, <2>2, <4>1, <4>2
        <3>2. pending \o <<y>> = <<x, y>>
            BY <1>21, <2>1, Joins
        <3>3. Len(<<y>>) = (c + 2) - pos /\ <<y>> # << >>
            BY <1>5, <1>21
        <3>4. Complete(<<x, y>>) /\ y.kind \in {"newline", "tail"}
            BY <1>13, <1>17, <2>2
        <3> QED BY <1>10, <1>16, <1>21, <2>1, <3>1, <3>2, <3>3, <3>4
    <2>3. CASE y.kind = "tail" /\ c + 3 <= n /\ z = NewLine
        <3>0. z \in Parts /\ c + 3 \in pos + 1 .. n
            BY <1>2, <1>5, <1>14, <1>21, <2>3
        <3>1. Chunk = <<y, z>>
            <4>1. \A i \in pos + 1 .. (c + 3) - 1 : i = c + 2
                BY <1>5, <1>21
            <4>2. \A i \in pos + 1 .. (c + 3) - 1 : t[i] # NewLine
                BY <1>13, <1>18, <2>3, <4>1
            <4>3. pos + 1 = c + 2
                BY <1>5, <1>21
            <4> QED BY <1>12, <1>15, <1>18, <2>3, <3>0, <4>2, <4>3
        <3>2. pending \o <<y, z>> = <<x, y, z>>
            BY <1>21, <2>1, <3>0, Joins
        <3>3. Len(<<y, z>>) = (c + 3) - pos /\ <<y, z>> # << >>
            BY <1>5, <1>21
        <3> QED BY <1>10, <1>13, <1>16, <1>17, <1>21, <2>3, <3>0, <3>1, <3>2, <3>3
    <2> QED BY <1>13, <1>19, <1>21, <2>1, <2>2, <2>3
<1> QED BY <1>2, <1>4, <1>11, <1>18, <1>20, <1>21 DEF HeldFrom

LEMMA StatKeeps ==
    ASSUME ProgramOK, TailOK, Stat, UNCHANGED <<program, ds>>
    PROVE  TailOK'
<1>1. yields = << >> /\ UNCHANGED <<file, path, ds>> /\ file \in Seq(Texts)
    BY DEF ProgramOK, Stat, Tailing, program
<1>2. CASE path = 0
    <2>1. /\ yields' = IF f # 0 THEN <<Restarted, Nothing>> ELSE <<Nothing>>
          /\ f' = 0 /\ pos' = 0 /\ pending' = << >> /\ pc' = pc /\ pc = "stat"
        BY <1>2 DEF Stat, Tailing
    <2>2. Text' = << >> /\ Len(<< >>) = 0
        BY <2>1, EmptySeq DEF Text
    <2>3. f' \in 0 .. Len(file') /\ pos' \in 0 .. Len(Text')
        BY <1>1, <2>1, <2>2, LenProperties
    <2>4. YieldsOK'
        <3>1. CASE f # 0
            BY <2>1, <3>1 DEF YieldsOK
        <3>2. CASE f = 0
            <4>1. PICK c : ExactAt(c) /\ HeldFrom(c)
                BY <1>1 DEF TailOK, YieldsOK, Restarted, Nothing, Line
            <4>2. Text = << >> /\ pos = 0
                BY <2>2, <3>2 DEF TailOK, Text
            <4>3. c = 0 /\ HeldFrom(c)'
                BY <2>1, <4>1, <4>2 DEF ExactAt, HeldFrom
            <4>4. ExactAt(c)'
                BY <1>1, <2>1, <2>2, <4>1, <4>2, <4>3 DEF ExactAt
            <4> QED BY <2>1, <3>2, <4>3, <4>4 DEF YieldsOK
        <3> QED BY <3>1, <3>2
    <2> QED BY <1>1, <2>1, <2>3, <2>4 DEF TailOK
<1>3. CASE path # 0
    <2>1. /\ UNCHANGED <<f, pos, pending, yields, ds>>
          /\ pc' = "read" => f # 0
        BY <1>1, <1>3 DEF Stat
    <2>2. FilesKept
        BY <1>1, SameFiles
    <2> QED BY <1>1, <2>1, <2>2, TailKept
<1> QED BY <1>2, <1>3

LEMMA OpenKeeps ==
    ASSUME ProgramOK, TailOK, Open, UNCHANGED <<program, ds>>
    PROVE  TailOK'
<1>1. UNCHANGED <<file, path, ds>> /\ file \in Seq(Texts) /\ path \in 0 .. Len(file)
    BY DEF ProgramOK, program
<1>2. CASE path = 0
    <2>1. UNCHANGED <<f, pos, pending, yields, ds>> /\ pc' = "crashed"
        BY <1>1, <1>2 DEF Open
    <2>2. FilesKept
        BY <1>1, SameFiles
    <2> QED BY <1>1, <2>1, <2>2, TailKept
<1>3. CASE path # 0
    <2>1. /\ f' = path /\ pos' = 0 /\ pending' = << >> /\ yields' = <<Restarted>>
        BY <1>3 DEF Open
    <2>2. Text' = file[path] /\ f' # 0
        BY <1>1, <1>3, <2>1 DEF Text
    <2>3. Len(Text') \in Nat
        <3>1. path \in 1 .. Len(file)
            BY <1>1, <1>3, LenProperties
        <3> QED BY <1>1, <2>2, <3>1, ElementOfSeq, LenProperties DEF Texts
    <2>4. YieldsOK'
        BY <2>1 DEF YieldsOK
    <2> QED BY <1>1, <2>1, <2>2, <2>3, <2>4 DEF TailOK
<1> QED BY <1>2, <1>3

-----------------------------------------------------------------------------
(* What main makes of a line.                                              *)

\* What a State knows of the log is all that counts.
LEMMA ExactSame ==
    ASSUME NEW s, NEW t, Exact(s, t), NEW r,
           r.fed = s.fed, r.config = s.config, r.prev_config = s.prev_config,
           r.config_diff = s.config_diff
    PROVE  Exact(r, t)
BY DEF Exact

LEMMA PolledIsExact ==
    ASSUME NEW s \in States, running \in BOOLEAN
    PROVE  /\ Polled(s) \in States
           /\ \A t : Exact(s, t) => Exact(Polled(s), t)
<1>1. Polled(s) \in States
    BY DEF Polled, States
<1>2. /\ Polled(s).fed = s.fed /\ Polled(s).config = s.config
      /\ Polled(s).prev_config = s.prev_config /\ Polled(s).config_diff = s.config_diff
    BY DEF Polled, States
<1> DEFINE r == Polled(s)
<1> HIDE DEF r
<1>3. ASSUME NEW t, Exact(s, t) PROVE Exact(r, t)
    BY <1>2, <1>3, ExactSame DEF r
<1> QED BY <1>1, <1>3 DEF r

\* The records of a line.
LEMMA RecordsOfLine ==
    ASSUME NEW x \in Parts, NEW y \in Parts, NEW z \in Parts
    PROVE  /\ Records(<<x>>) = << >>
           /\ y.kind # "tail" => Records(<<x, y>>) = << >>
           /\ y.kind = "tail" /\ x = [y EXCEPT !.kind = "head"] =>
                Records(<<x, y>>) = <<y>>
           /\ z.kind # "tail" => Records(<<x, y, z>>) = Records(<<x, y>>)
<1> DEFINE a == << >>
           b == <<x>>
           d == <<x, y>>
           e == <<x, y, z>>
<1>1. /\ a \in Texts /\ Len(a) = 0
      /\ b \in Texts /\ Len(b) = 1 /\ b[1] = x
      /\ d \in Texts /\ Len(d) = 2 /\ d[1] = x /\ d[2] = y
      /\ e \in Texts /\ Len(e) = 3 /\ e[3] = z /\ e[2] = y
    BY EmptySeq DEF Texts
<1>2. b = Append(a, x) /\ d = Append(b, y) /\ e = Append(d, z)
    OBVIOUS
<1>3. Records(a) = << >> /\ Append(<< >>, y) = <<y>>
    BY RecordsOfNone
<1> HIDE DEF a, b, d, e
<1>4. Records(b) = << >>
    <2>1. ~EndsRecord(Append(a, x), Len(a) + 1)
        BY <1>1 DEF EndsRecord
    <2> QED BY <1>1, <1>2, <1>3, <2>1, RecordsOfAppend
<1>5. ASSUME y.kind # "tail" PROVE Records(d) = << >>
    <2>1. ~EndsRecord(Append(b, y), Len(b) + 1)
        BY <1>1, <1>2, <1>5 DEF EndsRecord
    <2> QED BY <1>1, <1>2, <1>4, <2>1, RecordsOfAppend
<1>6. ASSUME y.kind = "tail", x = [y EXCEPT !.kind = "head"] PROVE Records(d) = <<y>>
    <2>1. Len(b) + 1 = 2 /\ 2 - 1 = 1
        BY <1>1
    <2>2. EndsRecord(d, 2)
        BY <1>1, <1>6, <2>1 DEF EndsRecord
    <2>3. Records(Append(b, y)) = Append(Records(b), y)
        BY <1>1, <1>2, <2>1, <2>2, RecordsOfAppend
    <2> QED BY <1>2, <1>3, <1>4, <2>3
<1>7. ASSUME z.kind # "tail" PROVE Records(e) = Records(d)
    <2>1. ~EndsRecord(Append(d, z), Len(d) + 1)
        BY <1>1, <1>2, <1>7 DEF EndsRecord
    <2> QED BY <1>1, <1>2, <2>1, RecordsOfAppend
<1> QED BY <1>4, <1>5, <1>6, <1>7 DEF b, d, e

\* Feeding the line that was read makes the State exact for what was read.
LEMMA BodyReads ==
    ASSUME NEW t, Written(t), NEW n \in Nat, n = Len(t), NEW c \in Nat,
           NEW s \in States, Exact(s, Prefix(t, c)),
           NEW x, x = t[c + 1], NEW y, y = t[c + 2], NEW z, z = t[c + 3],
           NEW k, NEW line,
           \/ k = 1 /\ c + 1 <= n /\ line = <<x>> /\ x.kind = "newline"
           \/ /\ k = 2 /\ c + 2 <= n /\ line = <<x, y>>
              /\ x.kind = "head" /\ y.kind \in {"newline", "tail"}
           \/ /\ k = 3 /\ c + 3 <= n /\ line = <<x, y, z>>
              /\ x.kind = "head" /\ y.kind = "tail" /\ z.kind = "newline"
    PROVE  /\ FoldLeft(Fed, s, Records(line)) \in States
           /\ Exact(FoldLeft(Fed, s, Records(line)), Prefix(t, c + k))
<1> DEFINE r == FoldLeft(Fed, s, Records(line))
           P(i) == Prefix(t, i)
<1>1. t \in Texts
    BY DEF Written
<1>2. \A i \in 0 .. n : i < n =>
        P(i) \in Texts /\ t[i + 1] \in Parts /\ P(i + 1) = Append(P(i), t[i + 1])
    BY <1>1, PrefixGrows
<1>3. Exact(s, P(c))
    OBVIOUS
<1> HIDE DEF P
<1>4. c + 1 <= n => P(c) \in Texts /\ x \in Parts /\ P(c + 1) = Append(P(c), x)
    <2>1. c + 1 <= n => c \in 0 .. n /\ c < n
        OBVIOUS
    <2> QED BY <1>2, <2>1
<1>5. c + 2 <= n => P(c + 1) \in Texts /\ y \in Parts /\ P(c + 2) = Append(P(c + 1), y)
    <2>1. c + 2 <= n => c + 1 \in 0 .. n /\ c + 1 < n /\ (c + 1) + 1 = c + 2
        OBVIOUS
    <2> QED BY <1>2, <2>1
<1>6. c + 3 <= n => P(c + 2) \in Texts /\ z \in Parts /\ P(c + 3) = Append(P(c + 2), z)
    <2>1. c + 3 <= n => c + 2 \in 0 .. n /\ c + 2 < n /\ (c + 2) + 1 = c + 3
        OBVIOUS
    <2> QED BY <1>2, <2>1
<1>7. ASSUME NEW i, NEW p \in Parts, P(i) \in Texts, p.kind \in {"newline", "head"},
             NEW q, Exact(q, P(i)), P(i + 1) = Append(P(i), p)
      PROVE  Exact(q, P(i + 1))
    <2> DEFINE a == P(i)
    <2>1. a \in Texts /\ Exact(q, a) /\ P(i + 1) = Append(a, p)
        BY <1>7
    <2> HIDE DEF a
    <2>2. Exact(q, Append(a, p))
        BY <1>7, <2>1, ExactOfQuiet
    <2> QED BY <2>1, <2>2
<1>8. CASE k = 1 /\ c + 1 <= n /\ line = <<x>> /\ x.kind = "newline"
    <2>1. Records(line) = << >>
        BY <1>4, <1>8, RecordsOfLine
    <2>2. r = s
        BY <2>1, FoldOfNone
    <2>3. Exact(s, P(c + 1))
        BY <1>3, <1>4, <1>7, <1>8
    <2> QED BY <1>8, <2>2, <2>3 DEF P
<1>9. CASE k = 2 /\ c + 2 <= n /\ line = <<x, y>> /\ x.kind = "head" /\ y.kind = "newline"
    <2>0. c + 1 <= n
        BY <1>9
    <2>1. Records(line) = << >>
        BY <1>4, <1>5, <1>9, <2>0, RecordsOfLine
    <2>2. r = s
        BY <2>1, FoldOfNone
    <2>3. Exact(s, P(c + 1))
        BY <1>3, <1>4, <1>7, <1>9, <2>0
    <2>4. (c + 1) + 1 = c + 2
        OBVIOUS
    <2>5. Exact(s, P(c + 2))
        BY <1>5, <1>7, <1>9, <2>3, <2>4
    <2> QED BY <1>9, <2>2, <2>5 DEF P
<1>10. ASSUME c + 2 <= n, x.kind = "head", y.kind = "tail"
       PROVE  /\ Fed(s, y) \in States /\ Exact(Fed(s, y), P(c + 2))
              /\ Records(<<x, y>>) = <<y>>
    <2>1. c + 1 \in 1 .. n /\ c + 2 \in 1 .. n /\ c + 1 <= n
          /\ (c + 1) - 1 = c /\ (c + 2) - 1 = c + 1
        BY <1>10
    <2>2. x \in Parts /\ y \in Parts /\ P(c) \in Texts
          /\ P(c + 2) = Append(Append(P(c), x), y)
        BY <1>4, <1>5, <1>10, <2>1
    <2>3. x = [y EXCEPT !.kind = "head"]
        <3>1. Goes(t, c + 2)
            BY <2>1 DEF Written
        <3> QED BY <1>10, <2>1, <3>1 DEF Goes
    <2>4. /\ x.rec \in {"config", "end", "trap"}
          /\ x.rec = "config" <=> RunRecords(P(c)) = << >>
        <3>1. t[c + 1].kind = "head" /\ c + 1 \in 1 .. Len(t)
            BY <1>10, <2>1
        <3>2. /\ t[c + 1].rec \in {"config", "end", "trap"}
              /\ t[c + 1].rec = "config" <=> RunRecords(Prefix(t, (c + 1) - 1)) = << >>
            BY <3>1, ConfigIsFirst
        <3> QED BY <2>1, <3>2 DEF P
    <2>5. y.rec = x.rec
        BY <2>2, <2>3 DEF Parts
    <2>6. Records(<<x, y>>) = <<y>>
        BY <1>10, <2>2, <2>3, RecordsOfLine
    <2>7. Fed(s, y) \in States
        BY <2>2, <2>4, <2>5, FedKeepsType
    <2> DEFINE a == P(c)
    <2>8. /\ a \in Texts /\ Exact(s, a) /\ y.rec \in {"config", "end", "trap"}
          /\ y.rec = "config" <=> RunRecords(a) = << >>
          /\ P(c + 2) = Append(Append(a, x), y)
        BY <1>3, <2>2, <2>4, <2>5
    <2> HIDE DEF a
    <2>9. Exact(Fed(s, y), Append(Append(a, x), y))
        BY <1>10, <2>2, <2>3, <2>8, ExactOfRecord
    <2> QED BY <2>6, <2>7, <2>8, <2>9
<1>11. CASE k = 2 /\ c + 2 <= n /\ line = <<x, y>> /\ x.kind = "head" /\ y.kind = "tail"
    <2>1. r = Fed(s, y)
        BY <1>10, <1>11, FoldOfOne
    <2> QED BY <1>10, <1>11, <2>1 DEF P
<1>12. CASE /\ k = 3 /\ c + 3 <= n /\ line = <<x, y, z>>
            /\ x.kind = "head" /\ y.kind = "tail" /\ z.kind = "newline"
    <2>1. c + 1 <= n /\ c + 2 <= n
        BY <1>12
    <2>2. Records(line) = <<y>>
        BY <1>4, <1>5, <1>6, <1>10, <1>12, <2>1, RecordsOfLine
    <2>3. r = Fed(s, y)
        BY <2>2, FoldOfOne
    <2>4. r \in States /\ Exact(r, P(c + 2))
        BY <1>10, <1>12, <2>1, <2>3
    <2>5. (c + 2) + 1 = c + 3
        OBVIOUS
    <2> HIDE DEF r
    <2>6. Exact(r, P(c + 3))
        BY <1>6, <1>7, <1>12, <2>4, <2>5
    <2> QED BY <1>12, <2>4, <2>6 DEF P, r
<1> QED BY <1>8, <1>9, <1>11, <1>12

\* So does the State that a marker begins.
LEMMA BoundaryReads ==
    ASSUME NEW t, Written(t), NEW n \in Nat, n = Len(t), NEW c \in Nat, c + 2 <= n,
           NEW s \in States, Exact(s, Prefix(t, c)),
           IsMarker(t[c + 1]), t[c + 2].kind = "newline"
    PROVE  Exact(NewState(s.config), Prefix(t, c + 2))
<1> DEFINE a == Prefix(t, c)
           x == t[c + 1]
           y == t[c + 2]
           r == NewState(s.config)
<1>1. t \in Texts
    BY DEF Written
<1>2. /\ c \in 0 .. n /\ c < n /\ c + 1 \in 0 .. n /\ c + 1 < n /\ (c + 1) + 1 = c + 2
    OBVIOUS
<1>3. a \in Texts /\ x \in Parts /\ Prefix(t, c + 1) = Append(a, x)
    BY <1>1, <1>2, PrefixGrows
<1>4. y \in Parts /\ Prefix(t, c + 1) \in Texts
      /\ Prefix(t, c + 2) = Append(Prefix(t, c + 1), y)
    <2>1. /\ Prefix(t, c + 1) \in Texts /\ t[(c + 1) + 1] \in Parts
          /\ Prefix(t, (c + 1) + 1) = Append(Prefix(t, c + 1), t[(c + 1) + 1])
        BY <1>1, <1>2, PrefixGrows
    <2> QED BY <1>2, <2>1
<1>5. /\ r.fed = << >> /\ r.config = NoConfig /\ r.prev_config = s.config
      /\ r.config_diff = FALSE
    BY DEF NewState
<1>6. Exact(s, a) /\ IsMarker(x) /\ y.kind = "newline"
    OBVIOUS
<1> HIDE DEF a, x, y, r
<1>7. Exact(r, Append(a, x))
    BY <1>3, <1>5, <1>6, ExactOfMarker
<1> DEFINE b == Append(a, x)
<1>8. b \in Texts /\ Exact(r, b) /\ Prefix(t, c + 2) = Append(b, y)
    BY <1>3, <1>4, <1>7
<1> HIDE DEF b
<1>9. Exact(r, Append(b, y))
    BY <1>4, <1>6, <1>8, ExactOfQuiet
<1> QED BY <1>8, <1>9 DEF r

LEMMA BeginsKnowingNothing ==
    ASSUME NEW config \in Configs
    PROVE  NewState(config) \in States
<1>1. << >> \in Seq(Recs)
    BY EmptySeq
<1> QED BY <1>1 DEF NewState, States, Configs

LEMMA MainKeeps ==
    ASSUME ProgramOK, TailOK, Main
    PROVE  TailOK'
<1> DEFINE t == Text
           y == Head(yields)
<1>1. /\ yields # << >> /\ yields' = Tail(yields)
      /\ UNCHANGED <<program, pc, found, inode, f, pos, pending>>
      /\ Boundary(y) \/ \E drawn \in BOOLEAN : Body(y, drawn)
    BY DEF Main, Draws, Takes
<1>2. file' = file /\ Text' = t /\ running \in BOOLEAN
    BY <1>1 DEF ProgramOK, Text, program
<1>3. Written(t) /\ t \in Texts /\ Len(t) \in Nat /\ pos \in 0 .. Len(t)
    <2>1. CASE f = 0
        BY <2>1, WrittenNone, TextIs DEF ProgramOK, TailOK, Text
    <2>2. CASE f # 0
        <3>1. f \in 1 .. Len(file)
            BY <2>2, LenProperties DEF ProgramOK, TailOK
        <3> QED BY <2>2, <3>1, TextIs DEF ProgramOK, TailOK, Text
    <2> QED BY <2>1, <2>2
<1>4. ASSUME ds' \in States, YieldsOK' PROVE TailOK'
    BY <1>1, <1>2, <1>4 DEF TailOK
<1>5. ASSUME NEW c \in 0 .. pos, c = 0 \/ t[c].kind \in {"newline", "tail"},
             Exact(ds', Prefix(t, c)), HeldFrom(c),
             ds' \in States, yields' \in {<< >>, <<Nothing>>}
      PROVE  TailOK'
    <2>1. ExactAt(c)'
        BY <1>1, <1>2, <1>5 DEF ExactAt
    <2>2. HeldFrom(c)'
        BY <1>1, <1>2, <1>5 DEF HeldFrom
    <2>3. YieldsOK'
        BY <1>5, <2>1, <2>2 DEF YieldsOK
    <2> QED BY <1>4, <1>5, <2>3
<1>6. ASSUME NEW drawn \in BOOLEAN, Body(y, drawn),
             NEW s, s = FoldLeft(Fed, ds, Records(y.line)), s \in States
      PROVE  /\ ds' \in States
             /\ \A u : Exact(s, u) => Exact(ds', u)
    <2>1. ds' = s \/ ds' = Polled(s)
        BY <1>6 DEF Body
    <2> QED BY <1>2, <1>6, <2>1, PolledIsExact
<1>7. CASE yields \in {<<Restarted>>, <<Restarted, Nothing>>} /\ pos = 0 /\ pending = << >>
    <2>1. y = Restarted /\ yields' \in {<< >>, <<Nothing>>}
        <3>1. \A a, b : /\ Head(<<a>>) = a /\ Tail(<<a>>) = << >>
                        /\ Head(<<a, b>>) = a /\ Tail(<<a, b>>) = <<b>>
            OBVIOUS
        <3> QED BY <1>1, <1>7, <3>1
    <2>2. y.what = "restarted"
        BY <2>1 DEF Restarted
    <2>3. ds' = NewState(NoConfig)
        BY <1>1, <2>2 DEF Boundary, Body
    <2>4. ds' \in States
        BY <2>3, BeginsKnowingNothing DEF Configs
    <2>5. Exact(ds', << >>)
        BY <2>3, ExactOfNone DEF NewState
    <2>6. Prefix(t, 0) = << >>
        BY SubSeqEmpty DEF Prefix
    <2>7. HeldFrom(0) /\ 0 \in 0 .. pos
        BY <1>3, <1>7 DEF HeldFrom
    <2> HIDE DEF t, y
    <2> QED BY <1>5, <2>1, <2>4, <2>5, <2>6, <2>7
<1>8. ASSUME yields = <<Nothing>>, NEW c, ExactAt(c), HeldFrom(c) PROVE TailOK'
    <2>1. y = Nothing /\ yields' = << >>
        BY <1>1, <1>8
    <2>2. y.what = "nothing" /\ y.line = << >>
        BY <2>1 DEF Nothing
    <2>3. ~Boundary(y)
        BY <2>2 DEF Boundary
    <2>4. PICK drawn \in BOOLEAN : Body(y, drawn)
        BY <1>1, <2>3
    <2>5. FoldLeft(Fed, ds, Records(y.line)) = ds
        BY <2>2, RecordsOfNone, FoldOfNone
    <2>6. ds' \in States /\ (\A u : Exact(ds, u) => Exact(ds', u))
        BY <1>6, <2>4, <2>5 DEF TailOK
    <2> QED BY <1>5, <1>8, <2>1, <2>6 DEF ExactAt
<1>9. ASSUME NEW c, NEW line, yields = <<Line(line)>>, pending = << >>,
             ExactAt(c), LineFrom(c, line)
      PROVE  TailOK'
    <2>1. y = Line(line) /\ yields' = << >>
        BY <1>1, <1>9
    <2>2. y.what = "line" /\ y.line = line
        BY <2>1 DEF Line
    <2>3. /\ c \in 0 .. pos /\ c \in Nat
          /\ c = 0 \/ t[c].kind \in {"newline", "tail"}
          /\ Exact(ds, Prefix(t, c))
        BY <1>3, <1>9 DEF ExactAt
    <2>4. PICK x, p, z : x = t[c + 1] /\ p = t[c + 2] /\ z = t[c + 3]
        OBVIOUS
    <2>5. \/ pos = c + 1 /\ line = <<x>> /\ x.kind = "newline"
          \/ /\ pos = c + 2 /\ line = <<x, p>>
             /\ x.kind \in {"head", "marker"} /\ p.kind \in {"newline", "tail"}
          \/ /\ pos = c + 3 /\ line = <<x, p, z>>
             /\ x.kind = "head" /\ p.kind = "tail" /\ z.kind = "newline"
        BY <1>9, <2>4 DEF LineFrom
    <2>6. t[pos].kind \in {"newline", "tail"} /\ pos \in 0 .. pos
        BY <1>3, <2>4, <2>5
    <2>7. HeldFrom(pos)
        BY <1>9 DEF HeldFrom
    <2> HIDE DEF t
    <2>8. CASE x.kind = "marker"
        <3>1. pos = c + 2 /\ line = <<x, p>> /\ p.kind \in {"newline", "tail"}
            BY <2>5, <2>8
        <3>2. c + 2 \in 1 .. Len(t) /\ c + 2 > 1 /\ (c + 2) - 1 = c + 1
            BY <1>3, <2>3, <3>1
        <3>3. p.kind = "newline"
            <4> SUFFICES ASSUME p.kind = "tail" PROVE FALSE
                BY <3>1
            <4>1. Goes(t, c + 2) /\ p \in Parts
                BY <1>3, <2>4, <3>2, ElementOfSeq DEF Written, Texts
            <4>2. x = [p EXCEPT !.kind = "head"]
                BY <2>4, <3>2, <4>1 DEF Goes
            <4> QED BY <2>8, <4>1, <4>2 DEF Parts
        <3>4. IsMarker(line[1]) /\ 1 \in DOMAIN line
            BY <2>8, <3>1 DEF IsMarker
        <3>5. Boundary(y)
            BY <1>1, <2>2, <3>4 DEF Body
        <3>6. ds' = NewState(ds.config)
            BY <2>2, <3>5 DEF Boundary
        <3>7. ds \in States /\ ds.config \in Configs
            BY DEF TailOK, States
        <3>8. ds' \in States
            BY <3>6, <3>7, BeginsKnowingNothing
        <3>9. Exact(NewState(ds.config), Prefix(t, c + 2))
            <4>1. IsMarker(t[c + 1]) /\ t[c + 2].kind = "newline" /\ c + 2 <= Len(t)
                BY <2>4, <2>8, <3>2, <3>3 DEF IsMarker
            <4> QED BY <1>3, <2>3, <3>7, <4>1, BoundaryReads
        <3> QED BY <1>5, <2>1, <2>6, <2>7, <3>1, <3>6, <3>8, <3>9
    <2>9. CASE x.kind # "marker"
        <3> DEFINE s == FoldLeft(Fed, ds, Records(line))
        <3>1. s \in States /\ Exact(s, Prefix(t, pos))
            <4>1. ds \in States /\ Len(t) \in Nat /\ Written(t)
                BY <1>3 DEF TailOK
            <4>2. CASE pos = c + 1 /\ line = <<x>> /\ x.kind = "newline"
                <5>1. c + 1 <= Len(t)
                    BY <1>3, <4>2
                <5> QED BY <2>3, <2>4, <4>1, <4>2, <5>1, BodyReads
            <4>3. CASE /\ pos = c + 2 /\ line = <<x, p>>
                       /\ x.kind = "head" /\ p.kind \in {"newline", "tail"}
                <5>1. c + 2 <= Len(t)
                    BY <1>3, <4>3
                <5> QED BY <2>3, <2>4, <4>1, <4>3, <5>1, BodyReads
            <4>4. CASE /\ pos = c + 3 /\ line = <<x, p, z>>
                       /\ x.kind = "head" /\ p.kind = "tail" /\ z.kind = "newline"
                <5>1. c + 3 <= Len(t)
                    BY <1>3, <4>4
                <5> QED BY <2>3, <2>4, <4>1, <4>4, <5>1, BodyReads
            <4> QED BY <2>5, <2>9, <4>2, <4>3, <4>4
        <3>2. \A j \in DOMAIN line : ~IsMarker(line[j])
            BY <2>5, <2>9 DEF IsMarker
        <3>3. ~Boundary(y)
            BY <2>2, <3>2 DEF Boundary
        <3>4. PICK drawn \in BOOLEAN : Body(y, drawn)
            BY <1>1, <3>3
        <3> HIDE DEF s
        <3>5. ds' \in States /\ (\A u : Exact(s, u) => Exact(ds', u))
            BY <1>6, <2>2, <3>1, <3>4 DEF s
        <3>6. Exact(ds', Prefix(t, pos))
            BY <3>1, <3>5
        <3> QED BY <1>5, <2>1, <2>6, <2>7, <3>5, <3>6
    <2> QED BY <2>8, <2>9
<1>10. YieldsOK
    BY DEF TailOK
<1> QED BY <1>1, <1>7, <1>8, <1>9, <1>10 DEF YieldsOK

LEMMA GraceKeeps ==
    ASSUME ProgramOK, TailOK, Grace
    PROVE  TailOK'
<1>1. /\ ds' = [ds EXCEPT !.process_gone = "past"]
      /\ UNCHANGED <<file, f, pos, pending, yields, pc>>
    BY DEF Grace, program, tail
<1>2. ds' \in States
    BY <1>1 DEF TailOK, States
<1>3. /\ ds'.fed = ds.fed /\ ds'.config = ds.config
      /\ ds'.prev_config = ds.prev_config /\ ds'.config_diff = ds.config_diff
    BY <1>1 DEF TailOK, States
<1>4. Text' = Text
    BY <1>1 DEF Text
<1>5. ASSUME NEW c, ExactAt(c) PROVE ExactAt(c)'
    <2>1. Exact(ds, Prefix(Text, c))
        BY <1>5 DEF ExactAt
    <2>2. Exact(ds', Prefix(Text, c))
        BY <1>3, <2>1, ExactSame
    <2> QED BY <1>1, <1>4, <1>5, <2>2 DEF ExactAt
<1>6. /\ \A c : HeldFrom(c) => HeldFrom(c)'
      /\ \A c, line : LineFrom(c, line) => LineFrom(c, line)'
    BY <1>1, <1>4 DEF HeldFrom, LineFrom
<1>7. YieldsOK'
    <2>1. CASE yields \in {<<Restarted>>, <<Restarted, Nothing>>} /\ pos = 0 /\ pending = << >>
        BY <1>1, <2>1 DEF YieldsOK
    <2>2. CASE yields \in {<< >>, <<Nothing>>} /\ \E c : ExactAt(c) /\ HeldFrom(c)
        <3>1. \E c : ExactAt(c)' /\ HeldFrom(c)'
            BY <1>5, <1>6, <2>2
        <3> QED BY <1>1, <2>2, <3>1 DEF YieldsOK
    <2>3. ASSUME NEW c, NEW line, yields = <<Line(line)>>, pending = << >>,
                 ExactAt(c), LineFrom(c, line)
          PROVE  YieldsOK'
        <3>1. ExactAt(c)' /\ LineFrom(c, line)'
            BY <1>5, <1>6, <2>3
        <3> QED BY <1>1, <2>3, <3>1 DEF YieldsOK
    <2> QED BY <2>1, <2>2, <2>3 DEF TailOK, YieldsOK
<1> QED BY <1>1, <1>2, <1>4, <1>7 DEF TailOK

-----------------------------------------------------------------------------
(* The invariant, and what follows of it.                                  *)

LEMMA StepKeeps == MInv /\ [Next]_vars => MInv'
<1> SUFFICES ASSUME ProgramOK, TailOK, [Next]_vars PROVE ProgramOK' /\ TailOK'
    BY DEF MInv
<1>1. ASSUME UNCHANGED program PROVE ProgramOK'
    BY <1>1 DEF ProgramOK, program
<1>2. CASE ProgramStep
    <2>1. ProgramOK' /\ FilesKept /\ UNCHANGED <<tail, ds>>
        BY <1>2, ProgramKeeps
    <2>2. TailOK'
        <3>1. /\ file \in Seq(Texts) /\ file' \in Seq(Texts)
              /\ UNCHANGED <<f, pos, pending, yields, ds>>
              /\ pc' = "read" => f # 0
            BY <2>1 DEF ProgramOK, TailOK, tail
        <3> QED BY <2>1, <3>1, TailKept
    <2> QED BY <2>1, <2>2
<1>3. CASE TailStep
    BY <1>1, <1>3, StatKeeps, OpenKeeps, ReadKeeps DEF TailStep
<1>4. CASE Main
    <2>1. UNCHANGED program
        BY <1>4 DEF Main, Draws, Takes
    <2> QED BY <1>1, <1>4, <2>1, MainKeeps
<1>5. CASE Grace
    <2>1. UNCHANGED program
        BY <1>5 DEF Grace
    <2> QED BY <1>1, <1>5, <2>1, GraceKeeps
<1>6. CASE UNCHANGED vars
    <2>1. ProgramOK' /\ UNCHANGED <<file, f, pos, pending, yields, pc, ds>>
        BY <1>1, <1>6 DEF vars, program, tail
    <2>2. FilesKept /\ file \in Seq(Texts) /\ file' \in Seq(Texts)
        BY <2>1, SameFiles DEF ProgramOK
    <2>3. pc' = "read" => f # 0
        BY <2>1 DEF TailOK
    <2> QED BY <2>1, <2>2, <2>3, TailKept
<1> QED BY <1>2, <1>3, <1>4, <1>5, <1>6 DEF Next

\* The file of a build that wrote no markers.
LEMMA OldFile ==
    LET pieces == RecordPieces("config", First)
    IN  Written(pieces[1] \o pieces[2]) /\ AllOf(pieces[1] \o pieces[2], First)
<1> DEFINE l == NewLine
           h == Part("head", "config", First)
           q == Part("tail", "config", First)
           t == <<l, h, q>>
           pieces == RecordPieces("config", First)
<1>1. /\ h \in Parts /\ h.kind = "head" /\ h.rec = "config" /\ h.config = First
      /\ q \in Parts /\ q.kind = "tail" /\ q.config = First
      /\ [q EXCEPT !.kind = "head"] = h
    <2>1. First \in Configs /\ "config" \in {"config"} \cup Outcomes
        BY DEF Configs
    <2> QED BY <2>1, HalvesAre
<1>2. l \in Parts /\ l.kind = "newline" /\ l = NewLine
    BY NewLineIs
<1>3. pieces[1] = <<l, h>> /\ pieces[2] = <<q>>
    BY DEF RecordPieces
<1> HIDE DEF l, h, q, pieces
<1>4. <<l, h>> \o <<q>> = t
    <2> DEFINE a == <<l, h>>
               b == <<q>>
               u == a \o b
    <2>1. /\ a \in Texts /\ Len(a) = 2 /\ a[1] = l /\ a[2] = h
          /\ b \in Texts /\ Len(b) = 1 /\ b[1] = q
          /\ t \in Texts /\ Len(t) = 3 /\ t[1] = l /\ t[2] = h /\ t[3] = q
        BY <1>1, <1>2 DEF Texts
    <2> HIDE DEF a, b, t
    <2>2. /\ u \in Texts /\ Len(u) = Len(a) + Len(b)
          /\ \A i \in 1 .. Len(a) : u[i] = a[i]
          /\ \A i \in 1 .. Len(b) : u[Len(a) + i] = b[i]
        BY <2>1, Appends DEF Texts
    <2> HIDE DEF u
    <2>3. u \in Texts /\ Len(u) = 3 /\ u[1] = l /\ u[2] = h /\ u[3] = q
        BY <2>1, <2>2
    <2>4. \A i \in 1 .. 3 : i = 1 \/ i = 2 \/ i = 3
        OBVIOUS
    <2>5. u = t
        BY <2>1, <2>3, <2>4, SeqEqual DEF Texts
    <2> QED BY <2>5 DEF u, a, b
<1>5. /\ t \in Texts /\ Len(t) = 3 /\ t[1] = l /\ t[2] = h /\ t[3] = q /\ t # << >>
    BY <1>1, <1>2 DEF Texts
<1> HIDE DEF t
<1>6. \A j \in 1 .. 3 : j = 1 \/ j = 2 \/ j = 3
    OBVIOUS
<1>7. Goes(t, 1) /\ Goes(t, 2) /\ Goes(t, 3)
    BY <1>1, <1>2, <1>5 DEF Goes
<1>8. Written(t)
    BY <1>1, <1>5, <1>6, <1>7 DEF Written, IsMarker
<1>9. AllOf(t, First)
    BY <1>1, <1>2, <1>5, <1>6 DEF AllOf
<1> QED BY <1>3, <1>4, <1>8, <1>9 DEF pieces

LEMMA InitHolds == Init => MInv
<1> SUFFICES ASSUME Init PROVE MInv
    OBVIOUS
<1>1. /\ script = [at |-> "idle", config |-> NoConfig] /\ script.at = "idle"
      /\ running = FALSE /\ unwritten = << >> /\ excused = FALSE
      /\ f = 0 /\ pos = 0 /\ pending = << >> /\ yields = << >> /\ pc = "stat"
      /\ ds = NewState(NoConfig)
    BY DEF Init
<1>2. script \in [at : {"idle", "marker", "build", "run"}, config : Configs]
    BY <1>1 DEF Configs
<1>3. ProgramOK
    <2>1. CASE path = 0 /\ file = << >>
        <3>1. file \in Seq(Texts) /\ Len(file) = 0
            BY <2>1, EmptySeq
        <3>2. path \in 0 .. Len(file) /\ \A k \in 1 .. Len(file) : Written(file[k])
            BY <2>1, <3>1
        <3> QED BY <1>1, <1>2, <2>1, <3>1, <3>2 DEF ProgramOK
    <2>2. CASE path = 1 /\ \E u : file = <<u>> /\ Written(u) /\ AllOf(u, First)
        <3>1. PICK u : file = <<u>> /\ Written(u) /\ AllOf(u, First)
            BY <2>2
        <3>2. u \in Texts
            BY <3>1 DEF Written
        <3>3. file \in Seq(Texts) /\ Len(file) = 1 /\ file[1] = u
            BY <3>1, <3>2
        <3>4. \A k \in 1 .. Len(file) : Written(file[k])
            <4>1. \A k \in 1 .. Len(file) : k = 1
                BY <3>3
            <4> QED BY <3>1, <3>3, <4>1
        <3>5. path \in 0 .. Len(file) /\ file[path] = u
            BY <2>2, <3>3
        <3>6. path # 0 /\ ~excused =>
                \E config : /\ AllOf(file[path], config)
                            /\ script.at # "idle" => config = script.config
            BY <1>1, <3>1, <3>5
        <3>7. /\ script.at # "build" /\ running \in BOOLEAN /\ excused \in BOOLEAN
              /\ unwritten = << >>
            BY <1>1
        <3> QED BY <1>2, <3>3, <3>4, <3>5, <3>6, <3>7 DEF ProgramOK
    <2> QED BY <2>1, <2>2, OldFile DEF Init
<1>4. Text = << >> /\ Len(<< >>) = 0
    BY <1>1, EmptySeq DEF Text
<1>5. ds \in States
    BY <1>1, BeginsKnowingNothing DEF Configs
<1>6. ExactAt(0)
    <2>1. Prefix(Text, 0) = << >>
        BY SubSeqEmpty DEF Prefix
    <2>2. Exact(ds, << >>)
        BY <1>1, ExactOfNone DEF NewState
    <2> QED BY <1>1, <2>1, <2>2 DEF ExactAt
<1>7. HeldFrom(0)
    BY <1>1 DEF HeldFrom
<1>8. YieldsOK
    BY <1>1, <1>6, <1>7 DEF YieldsOK
<1>9. f \in 0 .. Len(file)
    <2>1. Len(file) \in Nat
        BY <1>3, LenProperties DEF ProgramOK
    <2> QED BY <1>1, <2>1
<1> QED BY <1>1, <1>3, <1>4, <1>5, <1>8, <1>9 DEF MInv, TailOK

LEMMA InvSaysExact == MInv => FedExact
<1> SUFFICES ASSUME ProgramOK, TailOK, yields = << >> PROVE FedExact
    BY DEF MInv, FedExact
<1> DEFINE t == Text
<1>1. PICK c : ExactAt(c) /\ HeldFrom(c)
    BY DEF TailOK, YieldsOK, Restarted, Nothing, Line
<1>2. t \in Texts /\ Len(t) \in Nat /\ pos \in 0 .. Len(t)
    BY TextIs DEF ProgramOK, TailOK
<1>3. c \in 0 .. pos /\ Exact(ds, Prefix(t, c))
    BY <1>1 DEF ExactAt
<1>4. Exact(ds, Prefix(t, pos))
    <2>1. CASE pos = c
        BY <1>3, <2>1
    <2>2. CASE pos = c + 1 /\ t[c + 1].kind = "head"
        <3>1. c \in 0 .. Len(t) /\ c < Len(t)
            BY <1>2, <1>3, <2>2
        <3> DEFINE a == Prefix(t, c)
                   p == t[c + 1]
        <3> HIDE DEF t
        <3>2. a \in Texts /\ p \in Parts /\ Prefix(t, c + 1) = Append(a, p)
            BY <1>2, <3>1, PrefixGrows
        <3>3. Exact(ds, a) /\ p.kind \in {"newline", "head"}
            BY <1>3, <2>2
        <3> HIDE DEF a, p
        <3>4. Exact(ds, Append(a, p))
            BY <3>2, <3>3, ExactOfQuiet
        <3> QED BY <2>2, <3>2, <3>4
    <2> QED BY <1>1, <2>1, <2>2 DEF HeldFrom
<1>5. ASSUME f # 0
      PROVE  LET text == SubSeq(file[f], 1, pos)
             IN  /\ ds.fed = [j \in DOMAIN Records(LastRun(text)) |->
                                 Records(LastRun(text))[j].rec]
                 /\ ds.config = ConfigIn(LastRun(text))
                 /\ ds.prev_config = ConfigIn(RunBefore(text))
    <2>1. Prefix(t, pos) = SubSeq(file[f], 1, pos)
        BY <1>5 DEF Text, Prefix
    <2> DEFINE u == SubSeq(file[f], 1, pos)
    <2>2. Exact(ds, u)
        BY <1>4, <2>1
    <2> HIDE DEF u
    <2>3. /\ ds.fed = [j \in DOMAIN Records(LastRun(u)) |-> Records(LastRun(u))[j].rec]
          /\ ds.config = ConfigIn(LastRun(u))
          /\ ds.prev_config = ConfigIn(RunBefore(u))
        BY <2>2 DEF Exact, NamesOf, FirstConfig, RunRecords, ConfigIn
    <2> QED BY <2>3 DEF u
<1>6. ASSUME f = path, ds.config_diff PROVE excused
    <2> DEFINE u == Prefix(t, pos)
    <2>1. PICK i, j : TailIn(u, i) /\ TailIn(u, j) /\ u[i].config # u[j].config
        BY <1>4, <1>6 DEF Exact
    <2>2. Len(u) = pos /\ \A k \in 1 .. pos : u[k] = t[k]
        BY <1>2, PrefixElements DEF Prefix, Texts
    <2> HIDE DEF u, t
    <2>3. /\ i \in 1 .. Len(t) /\ j \in 1 .. Len(t)
          /\ t[i].kind = "tail" /\ t[j].kind = "tail" /\ t[i].config # t[j].config
        <3>1. i \in 1 .. pos /\ j \in 1 .. pos
            BY <2>1, <2>2 DEF TailIn
        <3> QED BY <1>2, <2>1, <2>2, <3>1 DEF TailIn
    <2>4. path # 0
        <3> SUFFICES ASSUME path = 0 PROVE FALSE
            OBVIOUS
        <3>1. t = << >>
            BY <1>6 DEF t, Text
        <3> QED BY <2>3, <3>1, EmptySeq
    <2>5. t = file[path]
        BY <1>6, <2>4 DEF t, Text
    <2> SUFFICES ASSUME ~excused PROVE FALSE
        BY DEF ProgramOK
    <2>6. PICK config : AllOf(file[path], config)
        BY <2>4 DEF ProgramOK
    <2>7. AllOf(t, config)
        BY <2>5, <2>6
    <2> QED BY <2>3, <2>7 DEF AllOf
<1> QED BY <1>5, <1>6 DEF FedExact

\* What the dashboard has been fed is what the log it has read says of its last run,
\* each record whole and once, however tee wrote it and the reads cut it and whatever
\* run.sh did to the file meanwhile; and the warning of another configuration only
\* follows an append that was forced, or one over a log with no marker: for every set
\* of configurations and every number of runs (tail and main, dashboard.py:2261-2312,
\* 2490-2505; run.sh:22-32).
THEOREM FedRight == Spec => []FedExact
<1>1. Init => MInv
    BY InitHolds
<1>2. MInv /\ [Next]_vars => MInv'
    BY StepKeeps
<1>3. MInv => FedExact
    BY InvSaysExact
<1> QED BY <1>1, <1>2, <1>3, PTL DEF Spec

=============================================================================
